\* Two overlapping processors of the log, an edit of each chunk and a crash;
\* small texts and rankings for what is cut and searched.
CONSTANTS
  Docs = {d1, d2}
  Size = 1
  BatchSize = 1
  Processors = {p1, p2}
  MaxVersion = 2
  MaxCrashes = 1
  Texts <- SmallTexts
  Sizes = {1, 2, 3, 5, 8}
  Overlaps = {0, 1, 2, 4}
  Rankings <- SmallRankings
  Tops = {0, 1, 2, 4}
  d1 = d1  d2 = d2  p1 = p1  p2 = p2
SPECIFICATION Spec
INVARIANTS ProcessedIsEmbedded FreshUnlessOverwritten PendingIsHeld
PROPERTIES ReadAfterWrite
SYMMETRY Symmetry
CHECK_DEADLOCK FALSE

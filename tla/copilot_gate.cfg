\* The review gate and the document library: overlapping requests, one crash.
CONSTANTS
  Sessions = {s1}
  Requests = {r1, r2}
  Actions = {a1}
  Docs = {d1}
  s1 = s1  s2 = s2  r1 = r1  r2 = r2  a1 = a1  a2 = a2  d1 = d1  d2 = d2
  NoSession = NoSession  NoAction = NoAction  NoDoc = NoDoc  NoCall = NoCall
  Kinds = {"create_note", "search"}
  KnownIds = {TRUE, FALSE}
  Scopes = {"current"}
  OneAtATime = FALSE
  MaxCrashes = 1
  MaxAttempts = 2
SPECIFICATION Spec
INVARIANTS RepeatNeedsCrashOrStaleSave WorkflowClosedOnce AuditTrail OrphanNeedsCrashOrStaleSave
PROPERTIES WritesOnlyConfirmed
SYMMETRY Symmetry

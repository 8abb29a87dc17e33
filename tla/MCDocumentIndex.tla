--------------------------- MODULE MCDocumentIndex ---------------------------
(* Small instances of DocumentIndex and Retrieval. *)
EXTENDS DocumentIndex, Retrieval

CONSTANTS d1, d2, p1, p2

Symmetry == Permutations(Processors) \cup Permutations(Docs)

\* Units of one to four characters, some with white space inside.  Characters
\* are numbered through the document.
Shapes == {<<1>>, <<1, 1>>, <<1, 0, 1>>, <<1, 1, 1, 1>>, <<1, 0, 0, 1>>}

Numbered(shape, unit) == [i \in DOMAIN shape |-> IF shape[i] = White THEN White ELSE 10 * unit + i]

SmallTexts ==
  UNION {{[k \in 1..n |-> Numbered(shapes[k], k)] : shapes \in [1..n -> Shapes]} : n \in 1..3}

\* Up to five chunks of three documents.
SmallRankings ==
  UNION {{[i \in 1..n |-> [document |-> docs[i], place |-> i]] : docs \in [1..n -> 1..3]} :
         n \in 0..5}

ASSUME TextsAreCovered == ChunksCoverText
ASSUME AnswersAreFair == SearchIsFair
=============================================================================

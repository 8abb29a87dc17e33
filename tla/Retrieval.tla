------------------------------- MODULE Retrieval -------------------------------
(***************************************************************************)
(* The pure algorithms on both sides of the copilot's index: how a text is *)
(* cut into overlapping chunks (chunk_text of the document store,          *)
(* chunkText of the edge worker) and how ranked chunks are chosen for an   *)
(* answer (DocumentStore.search).                                          *)
(*                                                                         *)
(* A text is a sequence of characters; only white space is told from the   *)
(* rest.  Splitting a text into paragraphs or sentences is left out: the   *)
(* units are given.                                                        *)
(*                                                                         *)
(* There is no state here: the properties are about the operators, and a   *)
(* module that gives the constants values assumes them, for TLC to         *)
(* evaluate.                                                               *)
(***************************************************************************)
EXTENDS Integers, SequencesExt, FiniteSetsExt

CONSTANTS
  Texts,      \* documents to cut: sequences of paragraphs or sentences
  Sizes,      \* chunk_size
  Overlaps,   \* overlap, which may exceed the size
  Rankings,   \* chunks in the order of their scores, given by their documents
  Tops        \* top_k

White == 0

\* Units as the splitters return them: not empty, no white space at the ends.
IsUnit(u) == u # <<>> /\ u[1] # White /\ u[Len(u)] # White

ASSUME RetrievalConstants ==
  /\ \A units \in Texts : units # <<>> /\ \A i \in DOMAIN units : IsUnit(units[i])
  /\ Sizes \subseteq Nat \ {0} /\ Overlaps \subseteq Nat /\ Tops \subseteq Nat

-----------------------------------------------------------------------------
(* Cutting *)

Solid(t) == {i \in DOMAIN t : t[i] # White}

Strip(t) == IF Solid(t) = {} THEN <<>> ELSE SubSeq(t, Min(Solid(t)), Max(Solid(t)))

\* strip() of two texts with n characters of white space between them.
Spaced(a, n, b) == Strip(a \o [i \in 1..n |-> White] \o b)

\* Where the window after start..end-1 starts; it moves on even when the
\* overlap is as large as the window.
NextStart(start, end, overlap) == Max({end - overlap, start + 1})

ChunkFixed(t, size, overlap) ==
  LET From[start \in 0..Len(t)] ==
        LET end   == Min({start + size, Len(t)})
            chunk == Strip(SubSeq(t, start + 1, end))
            here  == IF chunk = <<>> THEN <<>> ELSE <<chunk>>
        IN IF end = Len(t) THEN here ELSE here \o From[NextStart(start, end, overlap)]
  IN From[0]

OverlapTail(t, overlap) == Strip(SubSeq(t, Max({1, Len(t) - overlap + 1}), Len(t)))

\* The chunk being filled joins the finished ones.
Finished(s) == IF s.current = <<>> THEN s.chunks ELSE Append(s.chunks, s.current)

\* A unit that is too long is cut; its pieces go on where the last chunk ended.
AddPieces(s, unit, size, overlap) ==
  LET Add(st, piece) ==
        IF st.current # <<>> /\ Len(st.current) + 1 + Len(piece) <= size
        THEN [st EXCEPT !.current = Spaced(@, 1, piece)]
        ELSE [chunks |-> Finished(st), current |-> piece]
  IN FoldLeft(Add, [chunks |-> Finished(s), current |-> OverlapTail(s.current, overlap)],
              ChunkFixed(unit, size, overlap))

\* A unit that fits is added whole, behind what there is, behind the overlap
\* with it, or alone.
AddUnit(s, unit, size, overlap) ==
  LET more  == Spaced(s.current, 2, unit)
      later == Spaced(OverlapTail(s.current, overlap), 2, unit)
  IN IF Len(more) <= size THEN [s EXCEPT !.current = more]
     ELSE [chunks |-> Finished(s), current |-> IF Len(later) <= size THEN later ELSE unit]

ChunkUnits(units, size, overlap) ==
  LET Add(s, unit) == IF Len(unit) > size THEN AddPieces(s, unit, size, overlap)
                                          ELSE AddUnit(s, unit, size, overlap)
  IN Finished(FoldLeft(Add, [chunks |-> <<>>, current |-> <<>>], units))

\* The text the units came from.
Whole(units) == FoldLeft(LAMBDA t, unit : Spaced(t, 2, unit), <<>>, units)

Strategies == {"fixed", "paragraph", "sentence"}

ChunkText(units, size, overlap, strategy) ==
  IF strategy = "fixed" THEN ChunkFixed(Whole(units), size, overlap)
  ELSE ChunkUnits(units, size, overlap)

\* The edge worker keeps windows of white space and overlaps by less than a
\* window.
EdgeChunkText(t, size, overlap) ==
  LET From[start \in 0..Len(t)] ==
        LET end  == Min({start + size, Len(t)})
            here == <<Strip(SubSeq(t, start + 1, end))>>
        IN IF end = Len(t) THEN here ELSE here \o From[Max({0, end - overlap})]
  IN From[0]

-----------------------------------------------------------------------------
(* Searching *)

\* The rows of the documents asked for, best score first.
Ranked(ranking, documents) == SelectSeq(ranking, LAMBDA c : c.document \in documents)

\* One document's turn in a round: its next chunk, while there is room.
Served(s, d, k) ==
  IF s.queue[d] = <<>> \/ Len(s.picked) >= k THEN s
  ELSE [s EXCEPT !.picked = Append(@, Head(s.queue[d])), !.queue[d] = Tail(@)]

\* Documents in the order of their best chunks.
DocumentOrder(found) ==
  FoldLeft(LAMBDA seen, c : IF Contains(seen, c.document) THEN seen
                            ELSE Append(seen, c.document), <<>>, found)

\* _diversified_top: rounds over the documents until k chunks are picked or
\* none is left; a round for each chunk is enough.
DiversifiedTop(found, k) ==
  LET order == DocumentOrder(found)
      start == [picked |-> <<>>,
                queue |-> [d \in ToSet(order) |-> SelectSeq(found, LAMBDA c : c.document = d)]]
      Round(s, c) == FoldLeft(LAMBDA st, d : Served(st, d, k), s, order)
  IN FoldLeft(Round, start, found).picked

FirstOf(found, k) == SubSeq(found, 1, Min({k, Len(found)}))

\* search: one document's chunks by score, several documents' in turns.
Search(ranking, documents, k, diversify) ==
  LET found == Ranked(ranking, documents) IN
  IF diversify THEN DiversifiedTop(found, k) ELSE FirstOf(found, k)

-----------------------------------------------------------------------------
(* Properties *)

\* Characters are numbered, so that a chunk shows which of them it holds.
Holds(chunks, t) == \A i \in Solid(t) : \E k \in DOMAIN chunks : Contains(chunks[k], t[i])

Within(u, t) == \E i \in 0..(Len(t) - Len(u)) : SubSeq(t, i + 1, i + Len(u)) = u

\* Whatever the sizes, overlaps and lengths, no word of a document is lost, no
\* chunk is empty or longer than chunk_size, and a paragraph or sentence that
\* fits into a chunk is found in one of them uncut.
ChunksCoverText ==
  \A units \in Texts, size \in Sizes, overlap \in Overlaps :
    /\ \A strategy \in Strategies :
         LET chunks == ChunkText(units, size, overlap, strategy) IN
         /\ Holds(chunks, Whole(units))
         /\ \A k \in DOMAIN chunks : Len(chunks[k]) \in 1..size
         /\ strategy # "fixed" => \A i \in DOMAIN units :
              Len(units[i]) <= size => \E k \in DOMAIN chunks : Within(units[i], chunks[k])
    /\ overlap < size => LET chunks == EdgeChunkText(Whole(units), size, overlap) IN
         /\ Holds(chunks, Whole(units))
         /\ \A k \in DOMAIN chunks : Len(chunks[k]) <= size

Count(found, d) == Cardinality({i \in DOMAIN found : found[i].document = d})

\* An answer across documents has as many chunks as there are, up to top_k,
\* none twice, each document's best first; and a document gets a second chunk
\* before another only when that one has no more.
SearchIsFair ==
  \A ranking \in Rankings, k \in Tops :
    LET documents == {ranking[i].document : i \in DOMAIN ranking} IN
    \A asked \in SUBSET documents :
      LET found  == Ranked(ranking, asked)
          answer == Search(ranking, asked, k, TRUE)
      IN /\ Len(answer) = Min({k, Len(found)})
         /\ \A d \in asked :
              SelectSeq(answer, LAMBDA c : c.document = d)
                = FirstOf(Ranked(ranking, {d}), Count(answer, d))
         /\ \A d, e \in asked :
              Count(answer, d) > Count(answer, e) + 1 => Count(answer, e) = Count(found, e)
=============================================================================

---------------------------- MODULE DocumentIndex ----------------------------
(***************************************************************************)
(* The copilot's document store and its freshness log: DocumentStore and   *)
(* the triggers of CopilotDatabase.                                        *)
(*                                                                         *)
(* Every change of a chunk row leaves a row in document_index_events.  An  *)
(* upload or a delete then reads all pending events, whoever caused them,  *)
(* and works through them in batches, one embedding call at a time; other  *)
(* requests run during each call.  Nothing else runs between the commit of *)
(* the rows and the reading of the log (pc "begin"), but the process may   *)
(* die there.                                                              *)
(*                                                                         *)
(* A definition marked (mutant) is no part of the specification: it is the *)
(* slip the definition after it guards against, kept to show that the      *)
(* properties notice it.                                                   *)
(***************************************************************************)
EXTENDS Naturals, FiniteSets, Sequences

CONSTANTS
  Docs,        \* document ids (uuid4: never drawn twice)
  Size,        \* chunks per document
  BatchSize,   \* embedding_batch_size
  Processors,  \* slots for requests that process the log
  MaxVersion,  \* bound on the versions of a chunk's text
  MaxCrashes   \* bound on process crashes

ASSUME IndexConstants ==
  /\ Size \in Nat \ {0} /\ BatchSize \in Nat \ {0}
  /\ MaxVersion \in Nat \ {0} /\ MaxCrashes \in Nat

Chunks == Docs \X (1..Size)
Version == 0..MaxVersion     \* 0: no such row, or embedding "[]"

VARIABLES
  text,       \* [Chunks -> version of the chunk's text, 0 when there is no row]
  embedding,  \* [Chunks -> version of the text that was embedded, 0 for "[]"]
  events,     \* document_index_events in the order of event_id
  job,        \* [Processors -> the log processing or reindexing under way]
  used,       \* document ids drawn so far
  left,       \* history: events a failure, a crash or an edit left behind
  overwritten,\* history: chunks where an older embedding replaced a newer one
  crashes

vars == <<text, embedding, events, job, used, left, overwritten, crashes>>

Event == [kind: {"chunk_inserted", "chunk_text_updated", "chunk_deleted"},
          chunk: Chunks, status: {"pending", "processed", "failed"}]

\* items: the events (for a reindexing: chunks) still to embed; read: all of
\* them at the start; seen: the texts as they were read.
Job == [pc: {"idle", "begin", "embed", "reindex"}, items: SUBSET Nat, read: SUBSET Nat,
        seen: [Chunks -> Version]]

NoText == [c \in Chunks |-> 0]
NoJob == [pc |-> "idle", items |-> {}, read |-> {}, seen |-> NoText]

Init ==
  /\ text = NoText /\ embedding = NoText /\ events = <<>>
  /\ job = [p \in Processors |-> NoJob]
  /\ used = {} /\ left = {} /\ overwritten = {} /\ crashes = 0

-----------------------------------------------------------------------------
(* The log *)

\* A trigger adds one pending row for each chunk of the statement, in order.
Logged(evs, kind, d) ==
  evs \o [i \in 1..Size |-> [kind |-> kind, chunk |-> <<d, i>>, status |-> "pending"]]

Marked(evs, ids, status) ==
  [i \in DOMAIN evs |-> IF i \in ids THEN [evs[i] EXCEPT !.status = status] ELSE evs[i]]

Pending(evs) == {i \in DOMAIN evs : evs[i].status = "pending"}

\* (mutant: text updates are not refreshed)
DueInserts(evs, txt) ==
  {i \in Pending(evs) : evs[i].kind = "chunk_inserted" /\ txt[evs[i].chunk] # 0}

\* An insert or a text update whose chunk still exists needs an embedding.
Due(evs, txt) ==
  {i \in Pending(evs) : evs[i].kind # "chunk_deleted" /\ txt[evs[i].chunk] # 0}

\* What a processor has to say about the log without an embedding call.
Skipped(evs, txt) == Pending(evs) \ Due(evs, txt)

Free == \A p \in Processors : job[p].pc # "begin"

CanStart(p) == Free /\ job[p].pc = "idle"

Beginning(p) == [job EXCEPT ![p] = [NoJob EXCEPT !.pc = "begin"]]

\* process_pending_index_events up to its first await: everything pending is
\* read, and what needs no embedding is marked processed, in a commit each.
Begin(p) ==
  LET due == Due(events, text) IN
  /\ job[p].pc = "begin"
  /\ events' = Marked(events, Skipped(events, text), "processed")
  /\ job' = [job EXCEPT ![p] =
               IF due = {} THEN NoJob
               ELSE [pc |-> "embed", items |-> due, read |-> due, seen |-> text]]
  /\ UNCHANGED <<text, embedding, used, left, overwritten, crashes>>

-----------------------------------------------------------------------------
(* Requests *)

\* Document and chunk rows commit together, then the log is processed.
Ingest(p, d) ==
  /\ CanStart(p) /\ d \notin used
  /\ used' = used \cup {d}
  /\ text' = [c \in Chunks |-> IF c[1] = d THEN 1 ELSE text[c]]
  /\ events' = Logged(events, "chunk_inserted", d)
  /\ job' = Beginning(p)
  /\ UNCHANGED <<embedding, left, overwritten, crashes>>

Delete(p, d) ==
  /\ CanStart(p) /\ text[<<d, 1>>] # 0
  /\ text' = [c \in Chunks |-> IF c[1] = d THEN 0 ELSE text[c]]
  /\ embedding' = [c \in Chunks |-> IF c[1] = d THEN 0 ELSE embedding[c]]
  /\ events' = Logged(events, "chunk_deleted", d)
  /\ job' = Beginning(p)
  /\ UNCHANGED <<used, left, overwritten, crashes>>

\* A direct call, as a later background worker would make it.
Process(p) ==
  /\ CanStart(p) /\ Pending(events) # {}
  /\ job' = Beginning(p)
  /\ UNCHANGED <<text, embedding, events, used, left, overwritten, crashes>>

\* The next batch: the lowest event ids of the work left.
Batch(items, b) ==
  /\ b \subseteq items /\ b # {}
  /\ Cardinality(b) = IF Cardinality(items) < BatchSize THEN Cardinality(items) ELSE BatchSize
  /\ \A i \in b, k \in items \ b : i < k

\* UPDATE ... WHERE chunk_id: a row that is gone stays gone.
Embedded(chunks, seen) ==
  [c \in Chunks |-> IF c \in chunks /\ text[c] # 0 THEN seen[c] ELSE embedding[c]]

\* (mutant: the batch's events are marked before its embeddings are there)
EmbedMarksOnly(p) ==
  \E b \in SUBSET job[p].items :
    /\ Free /\ job[p].pc = "embed" /\ Batch(job[p].items, b)
    /\ events' = Marked(events, b, "processed")
    /\ job' = [job EXCEPT ![p] =
                 IF b = job[p].items THEN NoJob ELSE [@ EXCEPT !.items = job[p].items \ b]]
    /\ UNCHANGED <<text, embedding, used, left, overwritten, crashes>>

\* (mutant: the processor answers after its first batch)
EmbedStopsEarly(p) ==
  \E b \in SUBSET job[p].items :
    /\ Free /\ job[p].pc = "embed" /\ Batch(job[p].items, b)
    /\ embedding' = Embedded({events[i].chunk : i \in b}, job[p].seen)
    /\ events' = Marked(events, b, "processed")
    /\ job' = [job EXCEPT ![p] = NoJob]
    /\ UNCHANGED <<text, used, left, overwritten, crashes>>

\* The embeddings of a batch arrive: they and its events commit together.
Embed(p) ==
  \E b \in SUBSET job[p].items :
    LET chunks == {events[i].chunk : i \in b} IN
    /\ Free /\ job[p].pc = "embed" /\ Batch(job[p].items, b)
    /\ embedding' = Embedded(chunks, job[p].seen)
    /\ events' = Marked(events, b, "processed")
    /\ overwritten' = overwritten \cup {c \in chunks : embedding'[c] < embedding[c]}
    /\ job' = [job EXCEPT ![p] =
                 IF b = job[p].items THEN NoJob ELSE [@ EXCEPT !.items = job[p].items \ b]]
    /\ UNCHANGED <<text, used, left, crashes>>

\* (mutant: the exception leaves the batch as it was)
EmbedFailsUnmarked(p) ==
  /\ Free /\ job[p].pc = "embed"
  /\ job' = [job EXCEPT ![p] = NoJob]
  /\ UNCHANGED <<text, embedding, events, used, left, overwritten, crashes>>

\* The call fails, or answers with the wrong length: each event of the batch is
\* marked failed and the exception ends the request; later batches stay pending.
EmbedFails(p) ==
  \E b \in SUBSET job[p].items :
    /\ Free /\ job[p].pc = "embed" /\ Batch(job[p].items, b)
    /\ events' = Marked(events, b, "failed")
    /\ left' = left \cup (job[p].items \ b)
    /\ job' = [job EXCEPT ![p] = NoJob]
    /\ UNCHANGED <<text, embedding, used, overwritten, crashes>>

\* reindex_embeddings reads every chunk, embeds all batches, then writes once.
Reindex(p) ==
  /\ CanStart(p) /\ text # NoText
  /\ job' = [job EXCEPT ![p] = [NoJob EXCEPT !.pc = "reindex", !.seen = text]]
  /\ UNCHANGED <<text, embedding, events, used, left, overwritten, crashes>>

ReindexEnds(p) ==
  LET seen   == job[p].seen
      chunks == {c \in Chunks : seen[c] # 0}
  IN
  /\ Free /\ job[p].pc = "reindex"
  /\ \/ /\ embedding' = Embedded(chunks, seen)
        /\ overwritten' = overwritten \cup {c \in chunks : embedding'[c] < embedding[c]}
     \/ UNCHANGED <<embedding, overwritten>>      \* a call failed
  /\ job' = [job EXCEPT ![p] = NoJob]
  /\ UNCHANGED <<text, events, used, left, crashes>>

\* A statement outside the service changes a chunk's text; the trigger logs it.
Edit(c) ==
  /\ text[c] \in 1..(MaxVersion - 1)
  /\ text' = [text EXCEPT ![c] = @ + 1]
  /\ events' = Append(events, [kind |-> "chunk_text_updated", chunk |-> c,
                               status |-> "pending"])
  /\ left' = left \cup {Len(events) + 1}
  /\ UNCHANGED <<embedding, job, used, overwritten, crashes>>

\* A crash at "begin" may come after any number of the marks of Begin.
Crash ==
  /\ crashes < MaxCrashes
  /\ \E p \in Processors : job[p].pc # "idle"
  /\ crashes' = crashes + 1
  /\ \E n \in 0..Len(events) :
       /\ Free => n = 0
       /\ events' = Marked(events, Skipped(events, text) \cap 1..n, "processed")
  /\ left' = left \cup (UNION {job[p].items : p \in Processors})
                 \cup (IF Free THEN {} ELSE Pending(events'))
  /\ job' = [p \in Processors |-> NoJob]
  /\ UNCHANGED <<text, embedding, used, overwritten>>

-----------------------------------------------------------------------------
Answer(p) == Begin(p) \/ Embed(p) \/ EmbedFails(p) \/ ReindexEnds(p)

Next ==
  \/ \E p \in Processors : \/ \E d \in Docs : Ingest(p, d) \/ Delete(p, d)
                           \/ Process(p) \/ Reindex(p) \/ Answer(p)
  \/ \E c \in Chunks : Edit(c)
  \/ Crash

Spec == Init /\ [][Next]_vars

-----------------------------------------------------------------------------
(* Properties *)

TypeOK ==
  /\ text \in [Chunks -> Version] /\ embedding \in [Chunks -> Version]
  /\ events \in Seq(Event) /\ job \in [Processors -> Job]
  /\ used \in SUBSET Docs /\ left \in SUBSET Nat
  /\ overwritten \in SUBSET Chunks /\ crashes \in Nat

\* An event that says processed means what it says: whatever failed, crashed
\* or ran beside it, its chunk has an embedding or is gone.
ProcessedIsEmbedded ==
  \A i \in DOMAIN events :
    events[i].status = "processed" /\ events[i].kind # "chunk_deleted"
      => text[events[i].chunk] = 0 \/ embedding[events[i].chunk] # 0

\* The log keeps the vectors fresh: a chunk whose events are all processed has
\* the embedding of its present text, unless a slower processor wrote an
\* embedding of an older text over a newer one.
FreshUnlessOverwritten ==
  \A c \in Chunks \ overwritten :
    /\ text[c] # 0
    /\ \A i \in DOMAIN events : events[i].chunk = c => events[i].status = "processed"
    => embedding[c] = text[c]

\* No event is forgotten: a pending one is in the hands of a processor, or was
\* left there by a failed batch, a crash or an edit for the next to find.
PendingIsHeld ==
  Free => \A i \in Pending(events) : i \in left \/ \E p \in Processors : i \in job[p].items

\* When processing ends well, all it had read is searchable: the upload's
\* response is sent with every chunk of the document embedded or deleted.
ReadAfterWrite ==
  [][\A p \in Processors :
       Embed(p) /\ job'[p].pc = "idle"
       => \A i \in job[p].read : \/ text'[events[i].chunk] = 0
                                 \/ embedding'[events[i].chunk] # 0]_vars

=============================================================================

------------------------ MODULE DocumentIndex_proofs ------------------------
(* Proofs about DocumentIndex, for every value of its constants. *)
EXTENDS DocumentIndex, SequenceTheorems, TLAPS

\* What a processor holds are events of the log, and only while it embeds.
HeldInLog ==
  \A p \in Processors :
    /\ job[p].items \subseteq job[p].read /\ job[p].read \subseteq DOMAIN events
    /\ job[p].pc # "embed" => job[p].items = {} /\ job[p].read = {}

\* Ids are never drawn twice: rows, events and what was read belong to used ids.
OfUsedIds ==
  /\ \A c \in Chunks : text[c] # 0 => c[1] \in used
  /\ \A i \in DOMAIN events : events[i].chunk[1] \in used
  /\ \A p \in Processors, c \in Chunks : job[p].seen[c] # 0 => c[1] \in used

\* A text only grows until its row goes: nobody has seen a later one.
SeenIsPast ==
  \A p \in Processors, c \in Chunks : text[c] = 0 \/ job[p].seen[c] <= text[c]

\* What was read had a text; once it is out of the batches left, it has its
\* embedding or its chunk is gone.
WorkDone ==
  \A p \in Processors : \A i \in job[p].read :
    LET c == events[i].chunk IN
    /\ job[p].seen[c] # 0
    /\ i \notin job[p].items => text[c] = 0 \/ embedding[c] # 0

\* Event i stands for the present text of its chunk: who holds it has seen that
\* text, and it is not processed before that text was embedded.
Carries(i) ==
  LET c == events[i].chunk IN
  /\ events[i].kind # "chunk_deleted"
  /\ \A p \in Processors : i \in job[p].items => job[p].seen[c] = text[c]
  /\ events[i].status = "processed" => c \in overwritten \/ embedding[c] = text[c]

Carried ==
  \A c \in Chunks : text[c] # 0 => \E i \in DOMAIN events : events[i].chunk = c /\ Carries(i)

IInv ==
  /\ TypeOK /\ HeldInLog /\ OfUsedIds /\ SeenIsPast /\ WorkDone /\ Carried
  /\ ProcessedIsEmbedded /\ PendingIsHeld

-----------------------------------------------------------------------------
(* The log *)

Status == {"pending", "processed", "failed"}

LEMMA EventParts ==
  ASSUME NEW evs \in Seq(Event), NEW i \in DOMAIN evs
  PROVE  /\ evs[i] \in Event /\ evs[i].chunk \in Chunks /\ evs[i].status \in Status
         /\ evs[i].kind \in {"chunk_inserted", "chunk_text_updated", "chunk_deleted"}
         /\ i \in 1..Len(evs) /\ i \in Nat
<1>1. evs[i] \in Event /\ i \in 1..Len(evs) /\ i \in Nat
  OBVIOUS
<1> QED
  BY <1>1 DEF Event, Status

\* new is the log evs with this status for the events ids.
MarkedAs(new, evs, ids, status) ==
  /\ new \in Seq(Event) /\ DOMAIN new = DOMAIN evs
  /\ \A i \in DOMAIN evs :
       /\ new[i].chunk = evs[i].chunk /\ new[i].kind = evs[i].kind
       /\ new[i].status = IF i \in ids THEN status ELSE evs[i].status

LEMMA MarkedFacts ==
  ASSUME NEW evs \in Seq(Event), NEW ids, NEW status \in Status
  PROVE  MarkedAs(Marked(evs, ids, status), evs, ids, status)
<1> DEFINE new == Marked(evs, ids, status)
<1>1. /\ DOMAIN evs = 1..Len(evs) /\ Len(evs) \in Nat /\ DOMAIN new = 1..Len(evs)
  BY DEF Marked
<1>2. ASSUME NEW i \in DOMAIN evs
      PROVE  /\ new[i] \in Event
             /\ new[i].chunk = evs[i].chunk /\ new[i].kind = evs[i].kind
             /\ new[i].status = IF i \in ids THEN status ELSE evs[i].status
  <2>1. evs[i] \in Event
    BY EventParts
  <2>2. new[i] = IF i \in ids THEN [evs[i] EXCEPT !.status = status] ELSE evs[i]
    BY DEF Marked
  <2> QED
    BY <2>1, <2>2 DEF Event, Status
<1>3. new = [i \in 1..Len(evs) |-> new[i]]
  BY <1>1 DEF Marked
<1>4. new \in Seq(Event)
  BY <1>1, <1>2, <1>3
<1> QED
  BY <1>1, <1>2, <1>4 DEF MarkedAs

\* new is the log evs with rows of this kind for the document added at the end.
Grown(new, evs, kind, d) ==
  /\ new \in Seq(Event) /\ DOMAIN evs \subseteq DOMAIN new
  /\ \A i \in DOMAIN evs : new[i] = evs[i]
  /\ \A i \in DOMAIN new \ DOMAIN evs :
       new[i].chunk[1] = d /\ new[i].kind = kind /\ new[i].status = "pending"
  /\ \A k \in 1..Size : \E i \in DOMAIN new \ DOMAIN evs : new[i].chunk = <<d, k>>

LEMMA LoggedFacts ==
  ASSUME NEW evs \in Seq(Event), NEW d \in Docs,
         NEW kind \in {"chunk_inserted", "chunk_text_updated", "chunk_deleted"}
  PROVE  Grown(Logged(evs, kind, d), evs, kind, d)
<1> DEFINE row(k) == [kind |-> kind, chunk |-> <<d, k>>, status |-> "pending"]
<1> DEFINE more == [k \in 1..Size |-> row(k)]
<1> DEFINE new == Logged(evs, kind, d)
<1>1. \A k \in 1..Size : row(k) \in Event
  BY DEF Event, Chunks
<1>2. more \in Seq(Event) /\ Len(more) = Size /\ Size \in Nat
  BY <1>1, IndexConstants
<1>3. new = evs \o more
  BY DEF Logged
<1>4. \A k \in 1..Size : more[k] = row(k)
  OBVIOUS
<1> HIDE DEF more
<1>5. /\ new \in Seq(Event) /\ Len(new) = Len(evs) + Size /\ Len(evs) \in Nat
      /\ DOMAIN evs = 1..Len(evs) /\ DOMAIN new = 1..(Len(evs) + Size)
      /\ \A i \in 1..Len(evs) : new[i] = evs[i]
      /\ \A k \in 1..Size : new[Len(evs) + k] = more[k]
  <2>1. DOMAIN evs = 1..Len(evs) /\ DOMAIN new = 1..Len(new) /\ Len(evs) \in Nat
    BY <1>2, <1>3
  <2>2. evs \o more \in Seq(Event) /\ Len(evs \o more) = Len(evs) + Len(more)
    BY <1>2, ConcatProperties
  <2>3. \A i \in 1..Len(evs) : new[i] = evs[i]
    BY <1>2, <1>3
  <2>4. \A k \in 1..Size : new[Len(evs) + k] = more[k]
    BY <1>2, <1>3, <2>1
  <2> QED
    BY <1>2, <1>3, <2>1, <2>2, <2>3, <2>4
<1>6. ASSUME NEW i \in DOMAIN new \ DOMAIN evs
      PROVE  new[i].chunk[1] = d /\ new[i].kind = kind /\ new[i].status = "pending"
  <2>1. PICK k \in 1..Size : i = Len(evs) + k
    <3>1. i - Len(evs) \in 1..Size /\ i = Len(evs) + (i - Len(evs))
      BY <1>2, <1>5
    <3> QED
      BY <3>1
  <2>2. new[i] = row(k)
    BY <2>1, <1>4, <1>5
  <2> QED
    BY <2>2
<1>7. ASSUME NEW k \in 1..Size
      PROVE  \E i \in DOMAIN new \ DOMAIN evs : new[i].chunk = <<d, k>>
  <2>1. Len(evs) + k \in DOMAIN new \ DOMAIN evs
    BY <1>2, <1>5
  <2>2. new[Len(evs) + k] = row(k)
    BY <1>4, <1>5
  <2> QED
    BY <2>1, <2>2
<1>8. DOMAIN evs \subseteq DOMAIN new /\ \A i \in DOMAIN evs : new[i] = evs[i]
  BY <1>2, <1>5
<1> QED
  BY <1>5, <1>6, <1>7, <1>8 DEF Grown

LEMMA EmbeddedFacts ==
  ASSUME TypeOK, NEW chunks, NEW seen \in [Chunks -> Version]
  PROVE  /\ Embedded(chunks, seen) \in [Chunks -> Version]
         /\ \A c \in Chunks : Embedded(chunks, seen)[c] =
                            IF c \in chunks /\ text[c] # 0 THEN seen[c] ELSE embedding[c]
BY DEF Embedded, TypeOK

LEMMA JobParts ==
  ASSUME TypeOK, NEW p \in Processors
  PROVE  /\ job[p] \in Job /\ job[p].items \in SUBSET Nat /\ job[p].read \in SUBSET Nat
         /\ job[p].seen \in [Chunks -> Version]
         /\ job[p].pc \in {"idle", "begin", "embed", "reindex"}
BY DEF TypeOK, Job

LEMMA NoJobFacts ==
  /\ NoText \in [Chunks -> Version] /\ NoJob \in Job
  /\ \A pc \in {"idle", "begin", "embed", "reindex"} :
       /\ [NoJob EXCEPT !.pc = pc] \in Job
       /\ [NoJob EXCEPT !.pc = pc] = [pc |-> pc, items |-> {}, read |-> {}, seen |-> NoText]
  /\ \A c \in Chunks : NoText[c] = 0
<1>1. NoText \in [Chunks -> Version] /\ \A c \in Chunks : NoText[c] = 0
  BY IndexConstants DEF NoText, Version
<1>2. ASSUME NEW pc \in {"idle", "begin", "embed", "reindex"}
      PROVE  [NoJob EXCEPT !.pc = pc] = [pc |-> pc, items |-> {}, read |-> {}, seen |-> NoText]
  BY DEF NoJob
<1>3. ASSUME NEW pc \in {"idle", "begin", "embed", "reindex"}
      PROVE  [pc |-> pc, items |-> {}, read |-> {}, seen |-> NoText] \in Job
  BY <1>1 DEF Job
<1> QED
  BY <1>1, <1>2, <1>3 DEF NoJob

-----------------------------------------------------------------------------
(* The invariant *)

LEMMA InitIInv == Init => IInv
<1> SUFFICES ASSUME Init PROVE IInv
  OBVIOUS
<1>1. \A p \in Processors : job[p] = NoJob
  BY DEF Init
<1>2. TypeOK
  BY NoJobFacts DEF Init, TypeOK
<1>3. \A c \in Chunks : text[c] = 0
  BY NoJobFacts DEF Init
<1>4. HeldInLog /\ OfUsedIds /\ SeenIsPast /\ WorkDone
  BY <1>1, <1>3, NoJobFacts DEF Init, NoJob, HeldInLog, OfUsedIds, SeenIsPast, WorkDone
<1>5. Carried /\ ProcessedIsEmbedded /\ PendingIsHeld
  BY <1>3 DEF Init, Carried, ProcessedIsEmbedded, PendingIsHeld, Pending
<1> QED
  BY <1>2, <1>4, <1>5 DEF IInv

-----------------------------------------------------------------------------
(* Requests that begin *)

\* A processor that begins, or reads the texts to reindex, holds no event.
LEMMA Fresh ==
  ASSUME IInv, NEW p \in Processors, NEW pc \in {"begin", "reindex"},
         NEW seen \in [Chunks -> Version],
         job' = [job EXCEPT ![p] = [pc |-> pc, items |-> {}, read |-> {}, seen |-> seen]],
         job[p].pc = "idle"
  PROVE  /\ job' \in [Processors -> Job]
         /\ \A q \in Processors : job'[q].items = job[q].items /\ job'[q].read = job[q].read
         /\ \A q \in Processors \ {p} : job'[q] = job[q]
         /\ job'[p] = [pc |-> pc, items |-> {}, read |-> {}, seen |-> seen]
         /\ job'[p].items = {} /\ job'[p].read = {} /\ job'[p].seen = seen
<1>1. job \in [Processors -> Job] /\ job[p].items = {} /\ job[p].read = {}
  BY DEF IInv, TypeOK, HeldInLog
<1> QED
  BY <1>1 DEF Job

LEMMA IngestIInv ==
  ASSUME IInv, NEW p \in Processors, NEW d \in Docs, Ingest(p, d)
  PROVE  IInv'
<1>1. /\ TypeOK /\ job[p].pc = "idle" /\ d \notin used /\ used' = used \cup {d}
      /\ events \in Seq(Event) /\ events' = Logged(events, "chunk_inserted", d)
      /\ UNCHANGED <<embedding, left, overwritten, crashes>>
  BY DEF Ingest, CanStart, IInv, TypeOK
<1>2. /\ job' \in [Processors -> Job]
      /\ \A q \in Processors : job'[q].items = job[q].items /\ job'[q].read = job[q].read
      /\ \A q \in Processors \ {p} : job'[q] = job[q]
      /\ job'[p] = [pc |-> "begin", items |-> {}, read |-> {}, seen |-> NoText]
      /\ job'[p].items = {} /\ job'[p].read = {} /\ \A c \in Chunks : job'[p].seen[c] = 0
  <2>1. /\ NoText \in [Chunks -> Version] /\ \A c \in Chunks : NoText[c] = 0
        /\ job' = [job EXCEPT ![p] = [pc |-> "begin", items |-> {}, read |-> {}, seen |-> NoText]]
    BY NoJobFacts DEF Ingest, Beginning
  <2> QED
    BY <2>1, <1>1, Fresh
<1>3. /\ text' \in [Chunks -> Version]
      /\ \A c \in Chunks : text'[c] = IF c[1] = d THEN 1 ELSE text[c]
      /\ \A c \in Chunks : c[1] = d => text[c] = 0
  BY IndexConstants DEF Ingest, IInv, TypeOK, Version, OfUsedIds
<1>4. /\ events' \in Seq(Event) /\ DOMAIN events \subseteq DOMAIN events'
      /\ \A i \in DOMAIN events : events'[i] = events[i]
      /\ \A i \in DOMAIN events' \ DOMAIN events :
           events'[i].chunk[1] = d /\ events'[i].kind = "chunk_inserted" /\ events'[i].status = "pending"
      /\ \A k \in 1..Size :
           \E i \in DOMAIN events' \ DOMAIN events : events'[i].chunk = <<d, k>>
  <2>1. Grown(events', events, "chunk_inserted", d)
    BY <1>1, LoggedFacts
  <2> QED
    BY <2>1 DEF Grown
<1>5. \A i \in DOMAIN events : events[i].chunk \in Chunks /\ events[i].chunk[1] # d
  BY <1>1, EventParts DEF IInv, OfUsedIds
<1>6. TypeOK'
  BY <1>1, <1>2, <1>3, <1>4 DEF TypeOK
<1>7. HeldInLog'
  BY <1>2, <1>4 DEF IInv, HeldInLog
<1>8. OfUsedIds'
  <2>1. \A c \in Chunks : text'[c] # 0 => c[1] \in used'
    BY <1>1, <1>3 DEF IInv, OfUsedIds
  <2>2. \A i \in DOMAIN events' : events'[i].chunk[1] \in used'
    BY <1>1, <1>4 DEF IInv, OfUsedIds
  <2>3. \A q \in Processors, c \in Chunks : job'[q].seen[c] # 0 => c[1] \in used'
    BY <1>1, <1>2 DEF IInv, OfUsedIds
  <2> QED
    BY <2>1, <2>2, <2>3 DEF OfUsedIds
<1>9. SeenIsPast'
  <2>1. \A q \in Processors, c \in Chunks : c[1] = d => job[q].seen[c] = 0
    BY <1>1 DEF IInv, OfUsedIds
  <2> QED
    BY <2>1, <1>2, <1>3 DEF IInv, SeenIsPast, Version
<1>10. WorkDone'
  <2> SUFFICES ASSUME NEW q \in Processors, NEW i \in job'[q].read
               PROVE  LET c == events'[i].chunk IN
                      /\ job'[q].seen[c] # 0
                      /\ i \notin job'[q].items => text'[c] = 0 \/ embedding'[c] # 0
    BY DEF WorkDone
  <2>1. q # p /\ job'[q] = job[q] /\ i \in DOMAIN events
    BY <1>2 DEF IInv, HeldInLog
  <2> QED
    BY <2>1, <1>1, <1>3, <1>4, <1>5 DEF IInv, WorkDone
<1>11. Carried'
  <2> SUFFICES ASSUME NEW c \in Chunks, text'[c] # 0
               PROVE  \E i \in DOMAIN events' : events'[i].chunk = c /\ Carries(i)'
    BY DEF Carried
  <2>1. CASE c[1] = d
    <3>1. PICK k \in 1..Size : c = <<d, k>>
      BY <2>1 DEF Chunks
    <3>2. PICK i \in DOMAIN events' \ DOMAIN events : events'[i].chunk = c
      BY <3>1, <1>4
    <3>3. \A q \in Processors : i \notin job'[q].items
      BY <3>2, <1>2 DEF IInv, HeldInLog
    <3> QED
      BY <3>2, <3>3, <1>4 DEF Carries
  <2>2. CASE c[1] # d
    <3>1. PICK i \in DOMAIN events : events[i].chunk = c /\ Carries(i)
      BY <2>2, <1>3 DEF IInv, Carried
    <3> QED
      BY <2>2, <3>1, <1>1, <1>2, <1>3, <1>4, SMTT(20) DEF Carries
  <2> QED
    BY <2>1, <2>2
<1>12. ProcessedIsEmbedded'
  BY <1>1, <1>3, <1>4, <1>5 DEF IInv, ProcessedIsEmbedded
<1>13. PendingIsHeld'
  <2>1. job'[p].pc = "begin"
    BY <1>2
  <2> QED
    BY <2>1 DEF PendingIsHeld, Free
<1> QED
  BY <1>6, <1>7, <1>8, <1>9, <1>10, <1>11, <1>12, <1>13 DEF IInv

LEMMA DeleteIInv ==
  ASSUME IInv, NEW p \in Processors, NEW d \in Docs, Delete(p, d)
  PROVE  IInv'
<1>1. /\ TypeOK /\ job[p].pc = "idle" /\ d \in used
      /\ events \in Seq(Event) /\ events' = Logged(events, "chunk_deleted", d)
      /\ UNCHANGED <<used, left, overwritten, crashes>>
  <2>1. <<d, 1>> \in Chunks /\ text[<<d, 1>>] # 0
    BY IndexConstants DEF Delete, Chunks
  <2> QED
    BY <2>1 DEF Delete, CanStart, IInv, TypeOK, OfUsedIds
<1>2. /\ job' \in [Processors -> Job]
      /\ \A q \in Processors : job'[q].items = job[q].items /\ job'[q].read = job[q].read
      /\ \A q \in Processors \ {p} : job'[q] = job[q]
      /\ job'[p] = [pc |-> "begin", items |-> {}, read |-> {}, seen |-> NoText]
      /\ job'[p].items = {} /\ job'[p].read = {} /\ \A c \in Chunks : job'[p].seen[c] = 0
  <2>1. /\ NoText \in [Chunks -> Version] /\ \A c \in Chunks : NoText[c] = 0
        /\ job' = [job EXCEPT ![p] = [pc |-> "begin", items |-> {}, read |-> {}, seen |-> NoText]]
    BY NoJobFacts DEF Delete, Beginning
  <2> QED
    BY <2>1, <1>1, Fresh
<1>3. /\ text' \in [Chunks -> Version] /\ embedding' \in [Chunks -> Version]
      /\ \A c \in Chunks : /\ text'[c] = IF c[1] = d THEN 0 ELSE text[c]
                           /\ embedding'[c] = IF c[1] = d THEN 0 ELSE embedding[c]
  BY IndexConstants DEF Delete, IInv, TypeOK, Version
<1>4. /\ events' \in Seq(Event) /\ DOMAIN events \subseteq DOMAIN events'
      /\ \A i \in DOMAIN events : events'[i] = events[i]
      /\ \A i \in DOMAIN events' \ DOMAIN events :
           events'[i].chunk[1] = d /\ events'[i].kind = "chunk_deleted" /\ events'[i].status = "pending"
  <2>1. Grown(events', events, "chunk_deleted", d)
    BY <1>1, LoggedFacts
  <2> QED
    BY <2>1 DEF Grown
<1>5. \A i \in DOMAIN events : events[i].chunk \in Chunks
  BY <1>1, EventParts
<1>6. TypeOK'
  BY <1>1, <1>2, <1>3, <1>4 DEF TypeOK
<1>7. HeldInLog'
  BY <1>2, <1>4 DEF IInv, HeldInLog
<1>8. OfUsedIds'
  <2>1. \A c \in Chunks : text'[c] # 0 => c[1] \in used'
    BY <1>1, <1>3 DEF IInv, OfUsedIds
  <2>2. \A i \in DOMAIN events' : events'[i].chunk[1] \in used'
    BY <1>1, <1>4 DEF IInv, OfUsedIds
  <2>3. \A q \in Processors, c \in Chunks : job'[q].seen[c] # 0 => c[1] \in used'
    BY <1>1, <1>2 DEF IInv, OfUsedIds
  <2> QED
    BY <2>1, <2>2, <2>3 DEF OfUsedIds
<1>9. SeenIsPast'
  BY <1>2, <1>3 DEF IInv, SeenIsPast, Version
<1>10. WorkDone'
  <2> SUFFICES ASSUME NEW q \in Processors, NEW i \in job'[q].read
               PROVE  LET c == events'[i].chunk IN
                      /\ job'[q].seen[c] # 0
                      /\ i \notin job'[q].items => text'[c] = 0 \/ embedding'[c] # 0
    BY DEF WorkDone
  <2>1. q # p /\ job'[q] = job[q] /\ i \in DOMAIN events
    BY <1>2 DEF IInv, HeldInLog
  <2> QED
    BY <2>1, <1>1, <1>3, <1>4, <1>5 DEF IInv, WorkDone
<1>11. Carried'
  <2> SUFFICES ASSUME NEW c \in Chunks, text'[c] # 0
               PROVE  \E i \in DOMAIN events' : events'[i].chunk = c /\ Carries(i)'
    BY DEF Carried
  <2>1. c[1] # d
    BY <1>3
  <2>2. PICK i \in DOMAIN events : events[i].chunk = c /\ Carries(i)
    BY <2>1, <1>3 DEF IInv, Carried
  <2> QED
    <3>1. /\ events'[i] = events[i] /\ text'[c] = text[c] /\ embedding'[c] = embedding[c]
          /\ i \in DOMAIN events'
      BY <2>1, <2>2, <1>3, <1>4
    <3>2. \A q \in Processors : i \in job'[q].items => job'[q].seen[c] = text[c]
      BY <2>2, <1>2 DEF Carries
    <3> QED
      BY <2>2, <3>1, <3>2, <1>1 DEF Carries
<1>12. ProcessedIsEmbedded'
  BY <1>1, <1>3, <1>4, <1>5, SMTT(20) DEF IInv, ProcessedIsEmbedded
<1>13. PendingIsHeld'
  <2>1. job'[p].pc = "begin"
    BY <1>2
  <2> QED
    BY <2>1 DEF PendingIsHeld, Free
<1> QED
  BY <1>6, <1>7, <1>8, <1>9, <1>10, <1>11, <1>12, <1>13 DEF IInv

\* Nothing but the processor's own place changes.
LEMMA StartIInv ==
  ASSUME IInv, NEW p \in Processors, Process(p) \/ Reindex(p)
  PROVE  IInv'
<1>1. /\ TypeOK /\ job[p].pc = "idle" /\ text \in [Chunks -> Version]
      /\ UNCHANGED <<text, embedding, events, used, left, overwritten, crashes>>
  BY DEF Process, Reindex, CanStart, IInv, TypeOK
<1>2. PICK pc \in {"begin", "reindex"}, seen \in {NoText, text} :
        job' = [job EXCEPT ![p] = [pc |-> pc, items |-> {}, read |-> {}, seen |-> seen]]
  BY NoJobFacts DEF Process, Reindex, Beginning, NoJob
<1>3. seen \in [Chunks -> Version]
  BY <1>1, <1>2, NoJobFacts
<1>4. /\ job' \in [Processors -> Job]
      /\ \A q \in Processors : job'[q].items = job[q].items /\ job'[q].read = job[q].read
      /\ \A q \in Processors \ {p} : job'[q] = job[q]
      /\ job'[p].items = {} /\ job'[p].read = {} /\ job'[p].seen = seen
  BY <1>1, <1>2, <1>3, Fresh
<1>5. \A c \in Chunks : seen[c] \in {0, text[c]} /\ text[c] \in Nat
  BY <1>1, <1>2, NoJobFacts DEF Version
<1>6. TypeOK'
  BY <1>1, <1>4 DEF TypeOK
<1>7. HeldInLog'
  BY <1>1, <1>4 DEF IInv, HeldInLog
<1>8. OfUsedIds'
  BY <1>1, <1>4, <1>5 DEF IInv, OfUsedIds
<1>9. SeenIsPast'
  BY <1>1, <1>4, <1>5 DEF IInv, SeenIsPast
<1>10. WorkDone'
  BY <1>1, <1>4 DEF IInv, WorkDone
<1>11. Carried'
  <2> SUFFICES ASSUME NEW i, Carries(i) PROVE Carries(i)'
    BY <1>1 DEF IInv, Carried
  <2> QED
    BY <1>1, <1>4 DEF Carries
<1>12. ProcessedIsEmbedded'
  BY <1>1 DEF IInv, ProcessedIsEmbedded
<1>13. PendingIsHeld'
  <2>1. Free
    BY DEF Process, Reindex, CanStart
  <2> QED
    BY <2>1, <1>1, <1>4 DEF IInv, PendingIsHeld, Pending
<1> QED
  BY <1>6, <1>7, <1>8, <1>9, <1>10, <1>11, <1>12, <1>13 DEF IInv

-----------------------------------------------------------------------------
(* Requests that go on *)

\* A processor drops work: its job ends or loses some items.
Drops(new, old) ==
  /\ new.items \subseteq old.items
  /\ new.read \in {{}, old.read} /\ (new.read = {} => new.items = {})
  /\ new.pc \in {"idle", old.pc} /\ (new.pc # "embed" => new.read = {})
  /\ \A c \in Chunks : new.seen[c] \in {0, old.seen[c]}
  /\ new.read # {} => new.seen = old.seen

LEMMA NoJobDrops ==
  ASSUME NEW old
  PROVE  Drops(NoJob, old)
<1>1. /\ NoJob.items = {} /\ NoJob.read = {} /\ NoJob.pc = "idle"
      /\ \A c \in Chunks : NoJob.seen[c] = 0
  BY NoJobFacts DEF NoJob
<1> QED
  BY <1>1 DEF Drops

LEMMA BatchDrops ==
  ASSUME IInv, NEW p \in Processors, job[p].pc = "embed", NEW b, b # job[p].items,
         b \subseteq job[p].items
  PROVE  /\ Drops([job[p] EXCEPT !.items = job[p].items \ b], job[p])
         /\ [job[p] EXCEPT !.items = job[p].items \ b] \in Job
         /\ [job[p] EXCEPT !.items = job[p].items \ b].items = job[p].items \ b
<1> DEFINE new == [job[p] EXCEPT !.items = job[p].items \ b]
<1>1. job[p] \in Job /\ job[p].items \in SUBSET Nat
  BY JobParts DEF IInv
<1>2. /\ new \in Job /\ new.items = job[p].items \ b /\ new.read = job[p].read
      /\ new.seen = job[p].seen /\ new.pc = "embed"
  BY <1>1 DEF Job
<1>3. new.read # {}
  BY <1>2 DEF IInv, HeldInLog
<1> QED
  BY <1>2, <1>3 DEF Drops

\* What such a step owes to the rest of the invariant is told by the log, the
\* embeddings and the chunks it overwrote.
DropStep(p, b, status, chunks) ==
  /\ job' \in [Processors -> Job] /\ Drops(job'[p], job[p])
  /\ \A q \in Processors \ {p} : job'[q] = job[q]
  /\ b \subseteq job[p].items /\ job[p].items \ b \subseteq job'[p].items \cup left'
  /\ job'[p].read # {} => job'[p].items = job[p].items \ b
  /\ MarkedAs(events', events, b, status) /\ left \subseteq left' /\ left' \in SUBSET Nat
  /\ embedding' \in [Chunks -> Version]
  /\ \A c \in Chunks :
       embedding'[c] = IF c \in chunks /\ text[c] # 0 THEN job[p].seen[c] ELSE embedding[c]
  /\ \A c \in chunks : job[p].seen[c] # 0
  /\ overwritten' \in SUBSET Chunks /\ overwritten \subseteq overwritten'
  /\ \A c \in chunks : c \in overwritten' \/ embedding[c] <= embedding'[c]
  /\ status = "failed" => job'[p].read = {}
  /\ UNCHANGED <<text, used>> /\ crashes' \in Nat

LEMMA DropIInv ==
  ASSUME IInv, Free, NEW p \in Processors, NEW b, NEW chunks \in SUBSET Chunks,
         NEW status \in {"processed", "failed"}, DropStep(p, b, status, chunks),
         status = "processed" => \A i \in b : events[i].chunk \in chunks
  PROVE  IInv'
<1>1. /\ TypeOK /\ text \in [Chunks -> Version] /\ embedding \in [Chunks -> Version]
      /\ embedding' \in [Chunks -> Version] /\ events' \in Seq(Event) /\ events \in Seq(Event)
      /\ DOMAIN events' = DOMAIN events /\ UNCHANGED <<text, used>>
      /\ overwritten \subseteq overwritten'
  BY DEF DropStep, MarkedAs, IInv, TypeOK
<1>2. \A i \in DOMAIN events :
        /\ events[i].chunk \in Chunks
        /\ events'[i].chunk = events[i].chunk /\ events'[i].kind = events[i].kind
        /\ events'[i].status = IF i \in b THEN status ELSE events[i].status
  BY <1>1, EventParts DEF DropStep, MarkedAs
<1>3. \A q \in Processors :
        /\ job'[q].items \subseteq job[q].items /\ job'[q].read \in {{}, job[q].read}
        /\ job'[q].read = {} => job'[q].items = {} \/ job'[q] = job[q]
        /\ \A c \in Chunks : job'[q].seen[c] \in {0, job[q].seen[c]}
        /\ job'[q].read # {} => job'[q].seen = job[q].seen
  BY DEF DropStep, Drops
<1>4. \A c \in Chunks : text[c] \in Nat /\ embedding[c] \in Nat /\ embedding'[c] \in Nat
  BY <1>1 DEF Version
<1>5. \A c \in Chunks : embedding[c] # 0 => embedding'[c] # 0
  BY DEF DropStep
<1>6. TypeOK'
  BY <1>1 DEF TypeOK, DropStep
<1>7. HeldInLog'
  <2>1. \A q \in Processors : job'[q].pc # "embed" => job'[q].items = {} /\ job'[q].read = {}
    BY DEF DropStep, Drops, IInv, HeldInLog
  <2>2. \A q \in Processors : job'[q].items \subseteq job'[q].read
    BY <1>3 DEF IInv, HeldInLog
  <2>3. \A q \in Processors : job'[q].read \subseteq DOMAIN events'
    BY <1>1, <1>3 DEF IInv, HeldInLog
  <2> QED
    BY <2>1, <2>2, <2>3 DEF HeldInLog
<1>8. OfUsedIds'
  BY <1>1, <1>2, <1>3 DEF IInv, OfUsedIds
<1>9. SeenIsPast'
  <2> SUFFICES ASSUME NEW q \in Processors, NEW c \in Chunks, text[c] # 0
               PROVE  job'[q].seen[c] <= text[c]
    BY <1>1 DEF SeenIsPast
  <2>1. job[q].seen[c] <= text[c] /\ job'[q].seen[c] \in {0, job[q].seen[c]}
    BY <1>3 DEF IInv, SeenIsPast
  <2> QED
    BY <2>1, <1>4
<1>10. ProcessedIsEmbedded'
  <2> SUFFICES ASSUME NEW i \in DOMAIN events, events'[i].status = "processed",
                      events[i].kind # "chunk_deleted", text[events[i].chunk] # 0
               PROVE  embedding'[events[i].chunk] # 0
    BY <1>1, <1>2 DEF ProcessedIsEmbedded
  <2>1. CASE i \in b
    BY <2>1, <1>2 DEF DropStep
  <2>2. CASE i \notin b
    BY <2>2, <1>2, <1>5 DEF IInv, ProcessedIsEmbedded
  <2> QED
    BY <2>1, <2>2
<1>11. WorkDone'
  <2> SUFFICES ASSUME NEW q \in Processors, NEW i \in job'[q].read,
                      NEW c, c = events[i].chunk
               PROVE  /\ job'[q].seen[c] # 0
                      /\ i \notin job'[q].items => text[c] = 0 \/ embedding'[c] # 0
    <3>1. \A q \in Processors : job'[q].read \subseteq DOMAIN events
      BY <1>3 DEF IInv, HeldInLog
    <3> QED
      BY <3>1, <1>1, <1>2 DEF WorkDone
  <2>1. /\ i \in job[q].read /\ job'[q].seen = job[q].seen /\ i \in DOMAIN events /\ c \in Chunks
    BY <1>2, <1>3 DEF IInv, HeldInLog
  <2>2. job[q].seen[c] # 0 /\ (i \notin job[q].items => text[c] = 0 \/ embedding[c] # 0)
    BY <2>1 DEF IInv, WorkDone
  <2>3. ASSUME i \notin job'[q].items, i \in job[q].items
        PROVE  text[c] = 0 \/ embedding'[c] # 0
    <3>1. q = p /\ i \in b /\ job'[p].read # {}
      BY <2>3 DEF DropStep
    <3>2. CASE status = "processed"
      BY <3>1, <3>2, <2>1 DEF DropStep
    <3>3. CASE status = "failed"
      BY <3>1, <3>3 DEF DropStep
    <3> QED
      BY <3>2, <3>3
  <2> QED
    BY <2>1, <2>2, <2>3, <1>5
<1>12. Carried'
  <2> SUFFICES ASSUME NEW c \in Chunks, text[c] # 0
               PROVE  \E i \in DOMAIN events' : events'[i].chunk = c /\ Carries(i)'
    BY <1>1 DEF Carried
  <2>1. PICK i \in DOMAIN events : events[i].chunk = c /\ Carries(i)
    BY DEF IInv, Carried
  <2>2. \A q \in Processors : i \in job'[q].items => job'[q].seen[c] = text[c]
    <3>1. \A q \in Processors : i \in job'[q].items => job'[q].seen = job[q].seen
      BY <1>3
    <3> QED
      BY <3>1, <2>1, <1>3 DEF Carries
  <2>3. ASSUME events'[i].status = "processed" PROVE c \in overwritten' \/ embedding'[c] = text[c]
    <3>1. CASE i \in b
      <4>1. c \in chunks /\ embedding'[c] = job[p].seen[c]
        BY <2>1, <2>3, <3>1, <1>2 DEF DropStep
      <4> QED
        BY <4>1, <3>1, <2>1 DEF DropStep, Carries
    <3>2. CASE i \notin b
      <4>1. c \in overwritten \/ embedding[c] = text[c]
        BY <2>1, <2>3, <3>2, <1>2 DEF Carries
      <4>2. CASE embedding[c] = text[c] /\ embedding'[c] # embedding[c]
        <5>1. c \in chunks /\ embedding'[c] = job[p].seen[c] /\ job[p].seen[c] <= text[c]
          BY <4>2 DEF DropStep, IInv, SeenIsPast
        <5> QED
          BY <5>1, <4>2, <1>4 DEF DropStep
      <4> QED
        BY <4>1, <4>2, <1>1
    <3> QED
      BY <3>1, <3>2
  <2> QED
    BY <2>1, <2>2, <2>3, <1>1, <1>2 DEF Carries
<1>13. PendingIsHeld'
  <2> SUFFICES ASSUME NEW i \in DOMAIN events, events'[i].status = "pending"
               PROVE  i \in left' \/ \E q \in Processors : i \in job'[q].items
    BY <1>1 DEF PendingIsHeld, Pending
  <2>1. i \notin b /\ events[i].status = "pending"
    BY <1>2
  <2>2. i \in left \/ \E q \in Processors : i \in job[q].items
    BY <2>1 DEF IInv, PendingIsHeld, Pending
  <2>3. CASE i \in left
    BY <2>3 DEF DropStep
  <2>4. ASSUME NEW q \in Processors, i \in job[q].items
        PROVE  i \in left' \/ \E r \in Processors : i \in job'[r].items
    BY <2>1, <2>4 DEF DropStep
  <2> QED
    BY <2>2, <2>3, <2>4
<1> QED
  BY <1>6, <1>7, <1>8, <1>9, <1>10, <1>11, <1>12, <1>13 DEF IInv

-----------------------------------------------------------------------------
LEMMA EmbedIInv ==
  ASSUME IInv, NEW p \in Processors, Embed(p)
  PROVE  IInv'
<1>1. PICK b \in SUBSET job[p].items :
        LET chunks == {events[i].chunk : i \in b} IN
        /\ Free /\ job[p].pc = "embed" /\ Batch(job[p].items, b)
        /\ embedding' = Embedded(chunks, job[p].seen)
        /\ events' = Marked(events, b, "processed")
        /\ overwritten' = overwritten \cup {c \in chunks : embedding'[c] < embedding[c]}
        /\ job' = [job EXCEPT ![p] =
                     IF b = job[p].items THEN NoJob ELSE [@ EXCEPT !.items = job[p].items \ b]]
        /\ UNCHANGED <<text, used, left, crashes>>
  BY DEF Embed
<1> DEFINE chunks == {events[i].chunk : i \in b}
<1> DEFINE new == IF b = job[p].items THEN NoJob ELSE [job[p] EXCEPT !.items = job[p].items \ b]
<1>2. /\ TypeOK /\ events \in Seq(Event) /\ overwritten \in SUBSET Chunks
      /\ job \in [Processors -> Job] /\ job[p].seen \in [Chunks -> Version]
      /\ left \in SUBSET Nat /\ crashes \in Nat /\ embedding \in [Chunks -> Version]
  BY JobParts DEF IInv, TypeOK
<1>3. \A i \in b : i \in job[p].read /\ i \in DOMAIN events /\ events[i].chunk \in Chunks
  BY <1>2, EventParts DEF IInv, HeldInLog
<1>4. chunks \in SUBSET Chunks
  BY <1>3
<1>5. \A c \in chunks : job[p].seen[c] # 0
  BY <1>3 DEF IInv, WorkDone
<1>6. /\ new \in Job /\ Drops(new, job[p]) /\ job[p].items \ b \subseteq new.items
      /\ new.read # {} => new.items = job[p].items \ b
  <2>1. CASE b = job[p].items
    BY <2>1, NoJobDrops, NoJobFacts DEF NoJob
  <2>2. CASE b # job[p].items
    BY <2>2, <1>1, BatchDrops
  <2> QED
    BY <2>1, <2>2
<1>7. /\ job' \in [Processors -> Job] /\ job'[p] = new
      /\ \A q \in Processors \ {p} : job'[q] = job[q]
  <2>1. job' = [job EXCEPT ![p] = new]
    BY <1>1
  <2> HIDE DEF new
  <2> QED
    BY <2>1, <1>2, <1>6
<1>8. /\ embedding' \in [Chunks -> Version]
      /\ \A c \in Chunks :
           embedding'[c] = IF c \in chunks /\ text[c] # 0 THEN job[p].seen[c] ELSE embedding[c]
  <2>1. embedding' = Embedded(chunks, job[p].seen)
    BY <1>1
  <2> QED
    BY <2>1, <1>2, EmbeddedFacts
<1>9. \A c \in chunks : c \in overwritten' \/ embedding[c] <= embedding'[c]
  <2> SUFFICES ASSUME NEW c \in chunks, ~(embedding'[c] < embedding[c])
               PROVE  embedding[c] <= embedding'[c]
    BY <1>1
  <2>1. embedding[c] \in Nat /\ embedding'[c] \in Nat
    BY <1>2, <1>4, <1>8 DEF Version
  <2> QED
    BY <2>1
<1>10. MarkedAs(events', events, b, "processed")
  BY <1>1, <1>2, MarkedFacts DEF Status
<1>11. overwritten' \in SUBSET Chunks /\ overwritten \subseteq overwritten'
  BY <1>1, <1>2, <1>4
<1>12. DropStep(p, b, "processed", chunks)
  <2> HIDE DEF new, chunks
  <2> QED
    BY <1>1, <1>2, <1>5, <1>6, <1>7, <1>8, <1>9, <1>10, <1>11 DEF DropStep
<1>13. \A i \in b : events[i].chunk \in chunks
  OBVIOUS
<1> QED
  BY <1>1, <1>4, <1>12, <1>13, DropIInv

\* A step that ends the job and embeds nothing.
LEMMA GiveUp ==
  ASSUME IInv, Free, NEW p \in Processors, NEW b \in SUBSET job[p].items,
         MarkedAs(events', events, b, "failed"),
         left' = left \cup (job[p].items \ b), job' = [job EXCEPT ![p] = NoJob],
         UNCHANGED <<text, embedding, used, overwritten, crashes>>
  PROVE  IInv'
<1>1. /\ TypeOK /\ job \in [Processors -> Job] /\ job[p].items \in SUBSET Nat
      /\ left \in SUBSET Nat /\ embedding \in [Chunks -> Version] /\ overwritten \in SUBSET Chunks
      /\ crashes \in Nat
  BY JobParts DEF IInv, TypeOK
<1>2. /\ job' \in [Processors -> Job] /\ job'[p] = NoJob
      /\ \A q \in Processors \ {p} : job'[q] = job[q]
  BY <1>1, NoJobFacts
<1>3. NoJob.read = {}
  BY DEF NoJob
<1>4. DropStep(p, b, "failed", {})
  BY <1>1, <1>2, <1>3, NoJobDrops DEF DropStep
<1> QED
  BY <1>4, DropIInv

LEMMA EmbedFailsIInv ==
  ASSUME IInv, NEW p \in Processors, EmbedFails(p)
  PROVE  IInv'
<1>1. PICK b \in SUBSET job[p].items :
        /\ Free /\ events' = Marked(events, b, "failed")
        /\ left' = left \cup (job[p].items \ b) /\ job' = [job EXCEPT ![p] = NoJob]
        /\ UNCHANGED <<text, embedding, used, overwritten, crashes>>
  BY DEF EmbedFails
<1>2. MarkedAs(events', events, b, "failed")
  BY <1>1, MarkedFacts DEF Status, IInv, TypeOK
<1> QED
  BY <1>1, <1>2, GiveUp

LEMMA ReindexEndsIInv ==
  ASSUME IInv, NEW p \in Processors, ReindexEnds(p)
  PROVE  IInv'
<1> DEFINE chunks == {c \in Chunks : job[p].seen[c] # 0}
<1>1. /\ Free /\ job[p].pc = "reindex" /\ job' = [job EXCEPT ![p] = NoJob]
      /\ UNCHANGED <<text, events, used, left, crashes>>
  BY DEF ReindexEnds
<1>2. /\ TypeOK /\ events \in Seq(Event) /\ overwritten \in SUBSET Chunks
      /\ job \in [Processors -> Job] /\ job[p].seen \in [Chunks -> Version]
      /\ left \in SUBSET Nat /\ crashes \in Nat /\ embedding \in [Chunks -> Version]
      /\ job[p].items = {} /\ job[p].read = {}
  BY <1>1, JobParts DEF IInv, TypeOK, HeldInLog
<1>3. MarkedAs(events', events, {}, "failed") /\ MarkedAs(events', events, {}, "processed")
  BY <1>1, <1>2 DEF MarkedAs
<1>4. CASE UNCHANGED <<embedding, overwritten>>
  <2>1. left' = left \cup (job[p].items \ {})
    BY <1>1, <1>2
  <2> QED
    BY <1>1, <1>3, <1>4, <2>1, GiveUp
<1>5. CASE /\ embedding' = Embedded(chunks, job[p].seen)
           /\ overwritten' = overwritten \cup {c \in chunks : embedding'[c] < embedding[c]}
  <2>1. /\ embedding' \in [Chunks -> Version]
        /\ \A c \in Chunks :
             embedding'[c] = IF c \in chunks /\ text[c] # 0 THEN job[p].seen[c] ELSE embedding[c]
    BY <1>2, <1>5, EmbeddedFacts
  <2>2. \A c \in chunks : c \in overwritten' \/ embedding[c] <= embedding'[c]
    BY <1>2, <1>5, <2>1 DEF Version
  <2>3. /\ job' \in [Processors -> Job] /\ job'[p] = NoJob
        /\ \A q \in Processors \ {p} : job'[q] = job[q]
    BY <1>1, <1>2, NoJobFacts
  <2>4. NoJob.read = {}
    BY DEF NoJob
  <2>5. overwritten' \in SUBSET Chunks /\ overwritten \subseteq overwritten'
    BY <1>2, <1>5
  <2>6. \A c \in chunks : job[p].seen[c] # 0
    OBVIOUS
  <2>7. DropStep(p, {}, "processed", chunks)
    <3> HIDE DEF chunks
    <3> QED
      BY <1>1, <1>2, <1>3, <2>1, <2>2, <2>3, <2>4, <2>5, <2>6, NoJobDrops DEF DropStep
  <2> QED
    BY <1>1, <2>7, DropIInv
<1> QED
  BY <1>4, <1>5 DEF ReindexEnds

-----------------------------------------------------------------------------
(* Marks without an embedding, edits and crashes *)

\* Some events that need no embedding are marked processed.
SkipStep(ids) ==
  /\ ids \subseteq Skipped(events, text) /\ MarkedAs(events', events, ids, "processed")
  /\ UNCHANGED <<text, embedding, used, overwritten>>

LEMMA SkippedNeedNothing ==
  ASSUME NEW i \in DOMAIN events, i \in Skipped(events, text)
  PROVE  events[i].kind = "chunk_deleted" \/ text[events[i].chunk] = 0
BY DEF Skipped, Due, Pending

LEMMA SkipFacts ==
  ASSUME IInv, NEW ids, SkipStep(ids)
  PROVE  /\ ProcessedIsEmbedded'
         /\ events' \in Seq(Event) /\ DOMAIN events' = DOMAIN events
         /\ \A i \in DOMAIN events :
              /\ events[i].chunk \in Chunks
              /\ events'[i].chunk = events[i].chunk /\ events'[i].kind = events[i].kind
              /\ events'[i].status = IF i \in ids THEN "processed" ELSE events[i].status
<1>1. events \in Seq(Event)
  BY DEF IInv, TypeOK
<1>2. /\ events' \in Seq(Event) /\ DOMAIN events' = DOMAIN events
      /\ \A i \in DOMAIN events :
           /\ events[i].chunk \in Chunks
           /\ events'[i].chunk = events[i].chunk /\ events'[i].kind = events[i].kind
           /\ events'[i].status = IF i \in ids THEN "processed" ELSE events[i].status
  BY <1>1, EventParts DEF SkipStep, MarkedAs
<1>3. ProcessedIsEmbedded'
  <2> SUFFICES ASSUME NEW i \in DOMAIN events, events'[i].status = "processed",
                      events[i].kind # "chunk_deleted", text[events[i].chunk] # 0
               PROVE  embedding[events[i].chunk] # 0
    BY <1>2 DEF ProcessedIsEmbedded, SkipStep
  <2>1. i \notin ids
    BY SkippedNeedNothing DEF SkipStep
  <2> QED
    BY <2>1, <1>2 DEF IInv, ProcessedIsEmbedded
<1> QED
  BY <1>2, <1>3

\* A text's event is never skipped.
LEMMA SkipCarried ==
  ASSUME IInv, NEW ids, SkipStep(ids),
         \A q \in Processors, i \in DOMAIN events :
           i \in job'[q].items => \/ i \in job[q].items /\ job'[q].seen = job[q].seen
                                 \/ job'[q].seen = text
  PROVE  Carried'
<1> SUFFICES ASSUME NEW c \in Chunks, text[c] # 0
             PROVE  \E i \in DOMAIN events' : events'[i].chunk = c /\ Carries(i)'
  BY DEF Carried, SkipStep
<1>1. PICK i \in DOMAIN events : events[i].chunk = c /\ Carries(i)
  BY DEF IInv, Carried
<1>2. i \notin ids
  BY <1>1, SkippedNeedNothing DEF SkipStep, Carries
<1>3. \A q \in Processors : i \in job'[q].items => job'[q].seen[c] = text[c]
  BY <1>1 DEF Carries
<1> QED
  BY <1>1, <1>2, <1>3, SkipFacts DEF Carries, SkipStep

LEMMA BeginIInv ==
  ASSUME IInv, NEW p \in Processors, Begin(p)
  PROVE  IInv'
<1> DEFINE due == Due(events, text)
<1> DEFINE new == IF due = {} THEN NoJob
                  ELSE [pc |-> "embed", items |-> due, read |-> due, seen |-> text]
<1>1. /\ job[p].pc = "begin" /\ events' = Marked(events, Skipped(events, text), "processed")
      /\ job' = [job EXCEPT ![p] = new]
      /\ UNCHANGED <<text, embedding, used, left, overwritten, crashes>>
  BY DEF Begin
<1>2. /\ TypeOK /\ job \in [Processors -> Job] /\ text \in [Chunks -> Version]
      /\ events \in Seq(Event)
  BY DEF IInv, TypeOK
<1>3. SkipStep(Skipped(events, text))
  BY <1>1, <1>2, MarkedFacts DEF Status, SkipStep
<1>4. /\ events' \in Seq(Event) /\ DOMAIN events' = DOMAIN events /\ ProcessedIsEmbedded'
      /\ \A i \in DOMAIN events :
           /\ events[i].chunk \in Chunks /\ events'[i].chunk = events[i].chunk
           /\ events'[i].status = IF i \in Skipped(events, text) THEN "processed" ELSE events[i].status
  BY <1>3, SkipFacts
<1>5. /\ due \subseteq DOMAIN events /\ due \in SUBSET Nat
      /\ \A i \in due : text[events[i].chunk] # 0
  BY <1>2, EventParts DEF Due, Pending
<1>6. /\ new \in Job /\ new.items = due /\ new.read = due
      /\ \A c \in Chunks : new.seen[c] \in {0, text[c]}
      /\ due # {} => new.seen = text
      /\ new.pc # "embed" => due = {}
  <2>1. CASE due = {}
    BY <2>1, NoJobFacts DEF NoJob
  <2>2. CASE due # {}
    BY <2>2, <1>2, <1>5 DEF Job
  <2> QED
    BY <2>1, <2>2
<1> HIDE DEF new
<1>7. /\ job' \in [Processors -> Job] /\ job'[p] = new
      /\ \A q \in Processors \ {p} : job'[q] = job[q]
  BY <1>1, <1>2, <1>6
<1>8. TypeOK'
  BY <1>1, <1>2, <1>4, <1>7 DEF TypeOK
<1>9. HeldInLog'
  BY <1>4, <1>5, <1>6, <1>7 DEF IInv, HeldInLog
<1>10. OfUsedIds'
  <2>1. \A q \in Processors, c \in Chunks : job'[q].seen[c] # 0 => c[1] \in used
    BY <1>6, <1>7 DEF IInv, OfUsedIds
  <2>2. \A i \in DOMAIN events : events'[i].chunk[1] \in used
    BY <1>4 DEF IInv, OfUsedIds
  <2> QED
    BY <2>1, <2>2, <1>1, <1>4 DEF IInv, OfUsedIds
<1>11. SeenIsPast'
  <2> SUFFICES ASSUME NEW q \in Processors, NEW c \in Chunks, text[c] # 0
               PROVE  job'[q].seen[c] <= text[c]
    BY <1>1 DEF SeenIsPast
  <2>1. text[c] \in Nat
    BY <1>2 DEF Version
  <2> QED
    BY <2>1, <1>6, <1>7 DEF IInv, SeenIsPast
<1>12. WorkDone'
  <2> SUFFICES ASSUME NEW q \in Processors, NEW i \in job'[q].read,
                      NEW c, c = events'[i].chunk
               PROVE  /\ job'[q].seen[c] # 0
                      /\ i \notin job'[q].items => text[c] = 0 \/ embedding[c] # 0
    BY <1>1 DEF WorkDone
  <2>1. i \in DOMAIN events /\ c = events[i].chunk
    BY <1>4, <1>5, <1>6, <1>7 DEF IInv, HeldInLog
  <2>2. CASE q = p
    <3>1. i \in due /\ job'[q].items = due /\ job'[q].seen = text
      BY <2>2, <1>6, <1>7
    <3> QED
      BY <3>1, <2>1, <1>5
  <2>3. CASE q # p
    BY <2>1, <2>3, <1>7 DEF IInv, WorkDone
  <2> QED
    BY <2>2, <2>3
<1>13. Carried'
  <2>1. \A q \in Processors, i \in DOMAIN events :
          i \in job'[q].items => \/ i \in job[q].items /\ job'[q].seen = job[q].seen
                                \/ job'[q].seen = text
    BY <1>6, <1>7
  <2> QED
    BY <2>1, <1>3, SkipCarried
<1>14. PendingIsHeld'
  <2> SUFFICES ASSUME NEW i \in DOMAIN events, events'[i].status = "pending"
               PROVE  i \in job'[p].items
    BY <1>4 DEF PendingIsHeld, Pending
  <2>1. i \notin Skipped(events, text) /\ events[i].status = "pending"
    BY <1>4
  <2>2. i \in due
    BY <2>1 DEF Skipped, Pending
  <2> QED
    BY <2>2, <1>6, <1>7
<1> QED
  BY <1>4, <1>8, <1>9, <1>10, <1>11, <1>12, <1>13, <1>14 DEF IInv

LEMMA CrashIInv ==
  ASSUME IInv, Crash
  PROVE  IInv'
<1>1. PICK n \in 0..Len(events) :
        events' = Marked(events, Skipped(events, text) \cap 1..n, "processed")
  BY DEF Crash
<1> DEFINE held == UNION {job[p].items : p \in Processors}
<1> DEFINE found == IF Free THEN {} ELSE Pending(events')
<1>2. /\ left' = left \cup held \cup found
      /\ job' = [p \in Processors |-> NoJob] /\ crashes' = crashes + 1
      /\ UNCHANGED <<text, embedding, used, overwritten>>
  BY Zenon DEF Crash
<1>3. /\ TypeOK /\ events \in Seq(Event) /\ left \in SUBSET Nat
      /\ \A p \in Processors : job[p].items \in SUBSET Nat
  BY JobParts DEF IInv, TypeOK
<1> DEFINE ids == Skipped(events, text) \cap 1..n
<1>4. SkipStep(ids)
  BY <1>1, <1>2, <1>3, MarkedFacts DEF Status, SkipStep
<1> HIDE DEF ids
<1>5. /\ events' \in Seq(Event) /\ DOMAIN events' = DOMAIN events /\ ProcessedIsEmbedded'
      /\ \A i \in DOMAIN events :
           /\ events[i].chunk \in Chunks /\ events'[i].chunk = events[i].chunk
           /\ events'[i].status = IF i \in ids THEN "processed" ELSE events[i].status
  BY <1>4, SkipFacts
<1>6. /\ job' \in [Processors -> Job]
      /\ \A q \in Processors : /\ job'[q].items = {} /\ job'[q].read = {}
                               /\ \A c \in Chunks : job'[q].seen[c] = 0
  BY <1>2, NoJobFacts DEF NoJob
<1>7. left' \in SUBSET Nat
  <2>1. Pending(events') \in SUBSET Nat
    BY <1>5 DEF Pending
  <2>2. held \in SUBSET Nat
    BY <1>3
  <2>3. found \in SUBSET Nat
    BY <2>1
  <2> HIDE DEF held, found
  <2> QED
    BY <2>2, <2>3, <1>2, <1>3
<1>8. TypeOK'
  BY <1>2, <1>3, <1>5, <1>6, <1>7 DEF TypeOK
<1>9. HeldInLog'
  BY <1>6 DEF HeldInLog
<1>10. OfUsedIds'
  BY <1>2, <1>5, <1>6 DEF IInv, OfUsedIds
<1>11. SeenIsPast'
  <2> SUFFICES ASSUME NEW q \in Processors, NEW c \in Chunks
               PROVE  job'[q].seen[c] <= text[c]
    BY <1>2 DEF SeenIsPast
  <2>1. text[c] \in Nat
    BY <1>3 DEF TypeOK, Version
  <2> QED
    BY <2>1, <1>6
<1>12. WorkDone'
  BY <1>6 DEF WorkDone
<1>13. Carried'
  BY <1>4, <1>6, SkipCarried
<1>14. PendingIsHeld'
  <2> SUFFICES ASSUME NEW i \in DOMAIN events, events'[i].status = "pending"
               PROVE  i \in left'
    BY <1>5 DEF PendingIsHeld, Pending
  <2>1. CASE Free
    <3>1. events[i].status = "pending"
      BY <1>5
    <3>2. i \in left \/ \E p \in Processors : i \in job[p].items
      BY <2>1, <3>1 DEF IInv, PendingIsHeld, Pending
    <3> QED
      BY <3>2, <1>2
  <2>2. CASE ~Free
    <3>1. i \in Pending(events')
      BY <1>5 DEF Pending
    <3>2. i \in found
      BY <2>2, <3>1
    <3> HIDE DEF held, found
    <3> QED
      BY <3>2, <1>2
  <2> QED
    BY <2>1, <2>2
<1> QED
  BY <1>5, <1>8, <1>9, <1>10, <1>11, <1>12, <1>13, <1>14 DEF IInv

LEMMA EditIInv ==
  ASSUME IInv, NEW c \in Chunks, Edit(c)
  PROVE  IInv'
<1> DEFINE e == [kind |-> "chunk_text_updated", chunk |-> c, status |-> "pending"]
<1>0. PICK last \in Nat : last = Len(events) + 1
  BY DEF IInv, TypeOK
<1>1. /\ text[c] \in 1..(MaxVersion - 1) /\ text' = [text EXCEPT ![c] = @ + 1]
      /\ events' = Append(events, e) /\ left' = left \cup {last}
      /\ UNCHANGED <<embedding, job, used, overwritten, crashes>>
  BY <1>0 DEF Edit
<1>2. /\ TypeOK /\ events \in Seq(Event) /\ text \in [Chunks -> Version] /\ left \in SUBSET Nat
      /\ MaxVersion \in Nat
  BY IndexConstants DEF IInv, TypeOK
<1>3. /\ text' \in [Chunks -> Version] /\ text'[c] = text[c] + 1 /\ text[c] \in Nat
      /\ \A k \in Chunks \ {c} : text'[k] = text[k]
      /\ text[c] # 0 /\ text'[c] # 0
  BY <1>1, <1>2 DEF Version
<1>4. /\ events' \in Seq(Event) /\ last \in DOMAIN events' /\ last \notin DOMAIN events
      /\ DOMAIN events' = DOMAIN events \cup {last} /\ last \in Nat /\ events'[last] = e
      /\ \A i \in DOMAIN events : events'[i] = events[i]
  <2>1. e \in Event
    BY DEF Event
  <2> HIDE DEF e
  <2> QED
    BY <1>0, <1>1, <1>2, <2>1
<1>5. \A i \in DOMAIN events : events[i].chunk \in Chunks
  BY <1>2, EventParts
<1>6. \A q \in Processors : last \notin job[q].read /\ last \notin job[q].items
  BY <1>4 DEF IInv, HeldInLog
<1>7. TypeOK'
  BY <1>1, <1>2, <1>3, <1>4 DEF TypeOK
<1>8. HeldInLog'
  BY <1>1, <1>4 DEF IInv, HeldInLog
<1>9. OfUsedIds'
  <2>1. \A k \in Chunks : text'[k] # 0 => k[1] \in used
    BY <1>3 DEF IInv, OfUsedIds
  <2>2. \A i \in DOMAIN events' : events'[i].chunk[1] \in used
    BY <1>3, <1>4 DEF IInv, OfUsedIds
  <2> QED
    BY <2>1, <2>2, <1>1 DEF IInv, OfUsedIds
<1>10. SeenIsPast'
  <2> SUFFICES ASSUME NEW q \in Processors, NEW k \in Chunks, text'[k] # 0
               PROVE  job[q].seen[k] <= text'[k]
    BY <1>1 DEF SeenIsPast
  <2>1. text[k] # 0 /\ job[q].seen[k] <= text[k] /\ text[k] <= text'[k]
    BY <1>2, <1>3 DEF IInv, SeenIsPast, Version
  <2>2. job[q].seen[k] \in Nat /\ text[k] \in Nat /\ text'[k] \in Nat
    BY <1>2, <1>3, JobParts DEF Version
  <2> QED
    BY <2>1, <2>2
<1>11. WorkDone'
  <2> SUFFICES ASSUME NEW q \in Processors, NEW i \in job[q].read,
                      NEW k, k = events'[i].chunk
               PROVE  /\ job[q].seen[k] # 0
                      /\ i \notin job[q].items => text'[k] = 0 \/ embedding[k] # 0
    BY <1>1 DEF WorkDone
  <2>1. i \in DOMAIN events /\ k = events[i].chunk /\ k \in Chunks
    BY <1>4, <1>5 DEF IInv, HeldInLog
  <2>2. job[q].seen[k] # 0 /\ (i \notin job[q].items => text[k] = 0 \/ embedding[k] # 0)
    BY <2>1 DEF IInv, WorkDone
  <2> QED
    BY <2>1, <2>2, <1>3
<1>12. Carried'
  <2> SUFFICES ASSUME NEW k \in Chunks, text'[k] # 0
               PROVE  \E i \in DOMAIN events' : events'[i].chunk = k /\ Carries(i)'
    BY DEF Carried
  <2>1. CASE k = c
    <3>1. events'[last].chunk = c /\ Carries(last)'
      BY <1>1, <1>4, <1>6 DEF Carries
    <3> QED
      BY <2>1, <3>1, <1>4
  <2>2. CASE k # c
    <3>1. PICK i \in DOMAIN events : events[i].chunk = k /\ Carries(i)
      BY <2>2, <1>3 DEF IInv, Carried
    <3>2. events'[i] = events[i] /\ text'[k] = text[k] /\ i \in DOMAIN events'
      BY <2>2, <3>1, <1>3, <1>4
    <3> QED
      BY <3>1, <3>2, <1>1 DEF Carries
  <2> QED
    BY <2>1, <2>2
<1>13. ProcessedIsEmbedded'
  <2> SUFFICES ASSUME NEW i \in DOMAIN events', events'[i].status = "processed",
                      events'[i].kind # "chunk_deleted", text'[events'[i].chunk] # 0
               PROVE  embedding[events'[i].chunk] # 0
    BY <1>1 DEF ProcessedIsEmbedded
  <2>1. i # last
    BY <1>4
  <2>2. i \in DOMAIN events /\ events'[i] = events[i] /\ text[events[i].chunk] # 0
    BY <2>1, <1>3, <1>4, <1>5
  <2> QED
    BY <2>2 DEF IInv, ProcessedIsEmbedded
<1>14. PendingIsHeld'
  BY <1>1, <1>4 DEF IInv, PendingIsHeld, Pending, Free
<1> QED
  BY <1>7, <1>8, <1>9, <1>10, <1>11, <1>12, <1>13, <1>14 DEF IInv

-----------------------------------------------------------------------------
(* Theorems *)

LEMMA StutterIInv ==
  ASSUME IInv, UNCHANGED vars
  PROVE  IInv'
<1>1. UNCHANGED <<text, embedding, events, job, used, left, overwritten, crashes>>
  BY DEF vars
<1>2. (TypeOK /\ HeldInLog /\ OfUsedIds /\ SeenIsPast /\ WorkDone)'
  BY <1>1 DEF IInv, TypeOK, HeldInLog, OfUsedIds, SeenIsPast, WorkDone
<1>3. (Carried /\ ProcessedIsEmbedded /\ PendingIsHeld)'
  BY <1>1 DEF IInv, Carried, Carries, ProcessedIsEmbedded, PendingIsHeld, Pending, Free
<1> QED
  BY <1>2, <1>3 DEF IInv

LEMMA NextIInv == IInv /\ [Next]_vars => IInv'
<1> SUFFICES ASSUME IInv, [Next]_vars PROVE IInv'
  OBVIOUS
<1>1. ASSUME NEW p \in Processors, NEW d \in Docs, Ingest(p, d) PROVE IInv'
  BY <1>1, IngestIInv
<1>2. ASSUME NEW p \in Processors, NEW d \in Docs, Delete(p, d) PROVE IInv'
  BY <1>2, DeleteIInv
<1>3. ASSUME NEW p \in Processors, Process(p) \/ Reindex(p) PROVE IInv'
  BY <1>3, StartIInv
<1>4. ASSUME NEW p \in Processors, Answer(p) PROVE IInv'
  BY <1>4, BeginIInv, EmbedIInv, EmbedFailsIInv, ReindexEndsIInv DEF Answer
<1>5. ASSUME NEW c \in Chunks, Edit(c) PROVE IInv'
  BY <1>5, EditIInv
<1>6. CASE Crash
  BY <1>6, CrashIInv
<1>7. CASE UNCHANGED vars
  BY <1>7, StutterIInv
<1> QED
  BY <1>1, <1>2, <1>3, <1>4, <1>5, <1>6, <1>7 DEF Next

LEMMA InvariantHolds == Spec => []IInv
BY InitIInv, NextIInv, PTL DEF Spec

\* Rows, vectors, the log and the jobs keep their types whatever overlaps,
\* fails or dies.
THEOREM TypeCorrect == Spec => []TypeOK
<1>1. IInv => TypeOK
  BY DEF IInv
<1> QED
  BY <1>1, InvariantHolds, PTL

\* process_pending_index_events: an event marked processed has its embedding
\* or its chunk is gone.
THEOREM ProcessedMeansEmbedded == Spec => []ProcessedIsEmbedded
<1>1. IInv => ProcessedIsEmbedded
  BY DEF IInv
<1> QED
  BY <1>1, InvariantHolds, PTL

\* No pending event is lost: a processor holds it, or a failed batch, a crash or
\* an edit left it for the next one.
THEOREM NoEventForgotten == Spec => []PendingIsHeld
<1>1. IInv => PendingIsHeld
  BY DEF IInv
<1> QED
  BY <1>1, InvariantHolds, PTL

\* The log keeps the vectors fresh: once the events of a chunk are processed it
\* has the embedding of its present text, unless a slower processor wrote an
\* older one over it.
THEOREM LogKeepsFresh == Spec => []FreshUnlessOverwritten
<1>1. ASSUME IInv PROVE FreshUnlessOverwritten
  <2> SUFFICES ASSUME NEW c \in Chunks \ overwritten, text[c] # 0,
                      \A i \in DOMAIN events :
                        events[i].chunk = c => events[i].status = "processed"
               PROVE  embedding[c] = text[c]
    BY DEF FreshUnlessOverwritten
  <2>1. PICK i \in DOMAIN events : events[i].chunk = c /\ Carries(i)
    BY <1>1 DEF IInv, Carried
  <2> QED
    BY <2>1 DEF Carries
<1> QED
  BY <1>1, InvariantHolds, PTL

\* When the last batch of an upload or a delete is written, everything it had
\* read is searchable or gone.
THEOREM AnswerAfterWrite == Spec => ReadAfterWrite
<1> DEFINE Done == \A p \in Processors :
                     Embed(p) /\ job'[p].pc = "idle"
                     => \A i \in job[p].read : \/ text'[events[i].chunk] = 0
                                               \/ embedding'[events[i].chunk] # 0
<1>1. ASSUME IInv PROVE Done
  <2> SUFFICES ASSUME NEW p \in Processors, Embed(p), job'[p].pc = "idle",
                      NEW i \in job[p].read, NEW c, c = events[i].chunk
               PROVE  text'[c] = 0 \/ embedding'[c] # 0
    OBVIOUS
  <2>1. PICK b \in SUBSET job[p].items :
          /\ job[p].pc = "embed" /\ text' = text
          /\ embedding' = Embedded({events[k].chunk : k \in b}, job[p].seen)
          /\ job' = [job EXCEPT ![p] =
                       IF b = job[p].items THEN NoJob ELSE [@ EXCEPT !.items = job[p].items \ b]]
    BY DEF Embed
  <2>2. /\ TypeOK /\ job \in [Processors -> Job] /\ job[p] \in Job /\ events \in Seq(Event)
        /\ job[p].seen \in [Chunks -> Version]
    BY <1>1, JobParts DEF IInv, TypeOK
  <2>3. b = job[p].items
    <3> SUFFICES ASSUME b # job[p].items PROVE FALSE
      OBVIOUS
    <3>1. job'[p] = [job[p] EXCEPT !.items = job[p].items \ b]
      BY <2>1, <2>2
    <3>2. job'[p].pc = "embed"
      BY <3>1, <2>1, <2>2 DEF Job
    <3> QED
      BY <3>2
  <2>4. i \in DOMAIN events /\ c \in Chunks
    BY <1>1, <2>2, EventParts DEF IInv, HeldInLog
  <2>5. job[p].seen[c] # 0 /\ (i \notin b => text[c] = 0 \/ embedding[c] # 0)
    BY <1>1, <2>3 DEF IInv, WorkDone
  <2>6. embedding'[c] = IF c \in {events[k].chunk : k \in b} /\ text[c] # 0
                        THEN job[p].seen[c] ELSE embedding[c]
    BY <2>1, <2>2, <2>4, EmbeddedFacts
  <2> QED
    BY <2>1, <2>5, <2>6
<1>2. ReadAfterWrite <=> [][Done]_vars
  BY DEF ReadAfterWrite
<1> HIDE DEF Done
<1>3. IInv /\ [Next]_vars => [Done]_vars
  BY <1>1
<1> QED
  BY <1>2, <1>3, InvariantHolds, PTL DEF Spec

=============================================================================

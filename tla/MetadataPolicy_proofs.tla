------------------------ MODULE MetadataPolicy_proofs ------------------------
(* Proofs about MetadataPolicy, for every value of its constants. *)
EXTENDS MetadataPolicy, TLAPS

\* Nothing is committed before the write.
Uncommitted(rq) ==
  /\ rq.pc = "idle" => rq = Idle
  /\ rq.pc \in {"idle", "found", "insert", "write", "counted"} => ~rq.committed

\* What a request between its read and its write was allowed to do.
Allowed(rq) ==
  /\ rq.pc \in {"found", "write"} => rq.op \in {"update", "delete"} /\ rq.caller \in Callers
                                     /\ rq.id \in Ids
  /\ rq.pc = "insert" => rq.op = "create" /\ rq.caller \in Callers /\ rq.row \in Row
                         /\ MayCreate(rq.caller, rq.row)
  /\ rq.pc = "write" /\ rq.op = "update" => MayUpdate(rq.caller, rq.row, rq.patch)
  /\ rq.pc = "write" /\ rq.op = "delete" => MayDelete(rq.caller, rq.confirmed)
  /\ rq.pc = "counted" => rq.op = "seed"

\* The row such a request read, or the rows a seed merged, are still the ones
\* stored, unless somebody else committed a write to their ids.
ReadIsStored(rq, rows) ==
  /\ rq.pc = "write" => rq.row \in Row /\ (rq.overlapped \/ rows[rq.id] = rq.row)
  /\ rq.pc = "refresh" =>
       rq.id \in Ids /\ rq.committed /\ (rq.overlapped \/ rows[rq.id] # NoRow)
  /\ rq.pc = "counted" =>
       \/ rq.overlapped
       \/ \A i \in DOMAIN SeedRows : rq.seen[i] \in {NoRow, Unread} \/ rows[i] = rq.seen[i]

ReplyTrue(rq) ==
  rq.pc = "done" =>
    /\ TaskStatus(rq.code) = "blocked" => ~rq.committed
    /\ rq.overlapped \/ (rq.committed <=> TaskStatus(rq.code) = "completed")

Knows(rq, rows) ==
  rq \in Request /\ Uncommitted(rq) /\ Allowed(rq) /\ ReadIsStored(rq, rows) /\ ReplyTrue(rq)

CatalogueType ==
  /\ datasets \in [Ids -> Row \cup {NoRow}]
  /\ lineage \in SUBSET (Ids \X Ids) /\ raced \in SUBSET lineage

IInv ==
  /\ CatalogueType /\ CatalogueConsistent
  /\ req \in [Requests -> Request]
  /\ \A r \in Requests : Knows(req[r], datasets)

LEMMA IInvImplies == IInv => TypeOK /\ RepliesTrue
BY DEF IInv, CatalogueType, TypeOK, RepliesTrue, Knows, ReplyTrue

-----------------------------------------------------------------------------
(* Records *)

LEMMA IdleType == Idle \in Request
BY ConstantsOK DEF Idle, Request, Untouched, Patch, Codes

LEMMA AnsweredType ==
  ASSUME NEW rq \in Request, NEW code \in Codes
  PROVE  /\ Answered(rq, code) \in Request
         /\ Answered(rq, code).pc = "done" /\ Answered(rq, code).code = code
         /\ Answered(rq, code).committed = rq.committed
         /\ Answered(rq, code).overlapped = rq.overlapped
<1>1. rq.committed \in BOOLEAN /\ rq.overlapped \in BOOLEAN
  BY DEF Request
<1> QED
  BY <1>1, IdleType, ZenonT(40) DEF Answered, Idle, Request

\* An answer is known to be right when it tells whether the write took effect.
LEMMA AnsweredKnows ==
  ASSUME NEW rq \in Request, NEW code \in Codes, NEW rows,
         code = "denied" => ~rq.committed,
         rq.overlapped \/ (rq.committed <=> code = "ok")
  PROVE  Knows(Answered(rq, code), rows)
BY AnsweredType DEF Knows, Uncommitted, Allowed, ReadIsStored, ReplyTrue, TaskStatus

LEMMA WrittenIsRow ==
  ASSUME NEW rq \in Request, rq.row \in Row, NEW stored \in Row
  PROVE  /\ Written(rq, stored) \in Row
         /\ \A f \in {"name", "team", "level"} :
              Written(rq, stored)[f] =
                IF rq.patch[f] \notin {Same, rq.row[f]} THEN rq.patch[f] ELSE stored[f]
<1>1. rq.patch \in Patch
  BY DEF Request
<1>2. DOMAIN stored = {"name", "team", "level"}
  BY DEF Row
<1>3. Written(rq, stored) = [f \in {"name", "team", "level"} |->
         IF rq.patch[f] \notin {Same, rq.row[f]} THEN rq.patch[f] ELSE stored[f]]
  BY <1>2 DEF Written
<1>4. /\ rq.patch["name"] \in Names \cup {Same} /\ stored["name"] \in Names
      /\ rq.patch["team"] \in Teams \cup {Same} /\ stored["team"] \in Teams
      /\ rq.patch["level"] \in Levels \cup {Same} /\ stored["level"] \in Levels
  BY <1>1 DEF Patch, Row
<1> QED
  BY <1>3, <1>4 DEF Row

-----------------------------------------------------------------------------
(* Steps *)

\* What a step of one request leaves of another one.
Bystander(q) ==
  \/ /\ req'[q] = req[q]
     /\ req[q].pc \in {"write", "refresh"} => datasets'[req[q].id] = datasets[req[q].id]
     /\ req[q].pc = "counted" =>
          \A i \in DOMAIN SeedRows : req[q].seen[i] = Unread \/ datasets'[i] = datasets[i]
  \/ req[q].pc \notin {"idle", "done"} /\ req'[q] = [req[q] EXCEPT !.overlapped = TRUE]

LEMMA StepKnows ==
  ASSUME IInv, NEW r \in Requests, NEW new, Knows(new, datasets'),
         req' \in [Requests -> Request], req'[r] = new,
         \A q \in Requests \ {r} : Bystander(q)
  PROVE  \A q \in Requests : Knows(req'[q], datasets')
<1> SUFFICES ASSUME NEW q \in Requests \ {r}
             PROVE  Knows(req'[q], datasets')
  OBVIOUS
<1>1. Knows(req[q], datasets) /\ req[q] \in Request
  BY DEF IInv, Knows
<1>2. CASE /\ req'[q] = req[q]
           /\ req[q].pc \in {"write", "refresh"} => datasets'[req[q].id] = datasets[req[q].id]
           /\ req[q].pc = "counted" =>
                \A i \in DOMAIN SeedRows : req[q].seen[i] = Unread \/ datasets'[i] = datasets[i]
  BY <1>1, <1>2 DEF Knows, ReadIsStored
<1>3. CASE req[q].pc \notin {"idle", "done"} /\ req'[q] = [req[q] EXCEPT !.overlapped = TRUE]
  <2>1. /\ req'[q].overlapped /\ req'[q].pc = req[q].pc /\ req'[q].op = req[q].op
        /\ req'[q].caller = req[q].caller /\ req'[q].id = req[q].id
        /\ req'[q].row = req[q].row /\ req'[q].patch = req[q].patch
        /\ req'[q].confirmed = req[q].confirmed /\ req'[q].committed = req[q].committed
    BY <1>1, <1>3 DEF Request
  <2> QED
    BY <2>1, <1>1, <1>3 DEF Knows, Uncommitted, Allowed, ReadIsStored, ReplyTrue
<1> QED
  BY <1>2, <1>3 DEF Bystander

\* A step that leaves the catalogue alone.
LEMMA LocalStep ==
  ASSUME IInv, NEW r \in Requests, NEW new, Knows(new, datasets),
         req' = [req EXCEPT ![r] = new], UNCHANGED catalogue
  PROVE  IInv'
<1>1. /\ req' \in [Requests -> Request] /\ req'[r] = new
      /\ \A q \in Requests \ {r} : req'[q] = req[q]
  BY DEF IInv, Knows
<1>2. datasets' = datasets
  BY DEF catalogue
<1>3. \A q \in Requests : Knows(req'[q], datasets')
  <2>1. \A q \in Requests \ {r} : Bystander(q)
    BY <1>1, <1>2 DEF Bystander
  <2> QED
    BY <1>1, <1>2, <2>1, StepKnows
<1> QED
  BY <1>1, <1>3 DEF catalogue, IInv, CatalogueType, CatalogueConsistent, Stored

\* A commit of r on some rows leaves r as new and marks the others that go by
\* them, and other seeds.
Marks(r, changed, new) ==
  /\ DOMAIN req' = Requests /\ req' = [q \in Requests |-> req'[q]] /\ req'[r] = new
  /\ \A q \in Requests \ {r} :
       \/ req'[q] = Touched(changed)[q]
       \/ req[q].pc = "counted" /\ req'[q] = [req[q] EXCEPT !.overlapped = TRUE]
  /\ \A j \in Ids \ changed : datasets'[j] = datasets[j]

LEMMA CommitKnows ==
  ASSUME IInv, NEW r \in Requests, NEW changed \in SUBSET Ids, NEW new, Knows(new, datasets'),
         Marks(r, changed, new)
  PROVE  /\ req' \in [Requests -> Request]
         /\ \A q \in Requests : Knows(req'[q], datasets')
<1>1. \A q \in Requests : req[q] \in Request /\ Knows(req[q], datasets)
  BY DEF IInv, Knows
<1>2. \A q \in Requests \ {r} :
        \/ /\ req'[q] = [req[q] EXCEPT !.overlapped = TRUE]
           /\ req[q].pc = "counted" \/ \E i \in changed : GoesBy(req[q], i)
        \/ req'[q] = req[q] /\ \A i \in changed : ~GoesBy(req[q], i)
  BY DEF Touched, Marks
<1>3. \A q \in Requests : [req[q] EXCEPT !.overlapped = TRUE] \in Request
  <2> SUFFICES ASSUME NEW rq \in Request PROVE [rq EXCEPT !.overlapped = TRUE] \in Request
    BY <1>1
  <2> QED
    BY DEF Request
<1>4. req' \in [Requests -> Request]
  <2>1. \A q \in Requests : req'[q] \in Request
    BY <1>1, <1>2, <1>3 DEF Knows, Marks
  <2> QED
    BY <2>1 DEF Marks
<1>5. ASSUME NEW q \in Requests \ {r}
      PROVE  Bystander(q)
  <2>1. Knows(req[q], datasets) /\ DOMAIN SeedRows \subseteq Ids
    BY <1>1, ConstantsOK
  <2>2. CASE /\ req'[q] = [req[q] EXCEPT !.overlapped = TRUE]
             /\ req[q].pc = "counted" \/ \E i \in changed : GoesBy(req[q], i)
    <3>1. req[q].pc \notin {"idle", "done"}
      BY <2>1, <2>2 DEF Knows, Uncommitted, Idle, Ids, NoId, GoesBy
    <3> QED
      BY <2>2, <3>1 DEF Bystander
  <2>3. CASE req'[q] = req[q] /\ \A i \in changed : ~GoesBy(req[q], i)
    <3>1. req[q].pc \in {"write", "refresh"} => req[q].id \in Ids \ changed
      BY <2>1, <2>3 DEF Knows, Allowed, ReadIsStored, GoesBy
    <3>2. req[q].pc = "counted" =>
            \A i \in DOMAIN SeedRows : req[q].seen[i] = Unread \/ i \in Ids \ changed
      BY <2>1, <2>3 DEF GoesBy
    <3> QED
      BY <2>3, <3>1, <3>2 DEF Bystander, Marks
  <2> QED
    BY <1>2, <2>2, <2>3
<1> QED
  BY <1>4, <1>5, StepKnows DEF Marks

LEMMA RowCommitKnows ==
  ASSUME IInv, NEW r \in Requests, NEW i \in Ids, NEW new, Knows(new, datasets'),
         req' = [Touched({i}) EXCEPT ![r] = new],
         \A j \in Ids \ {i} : datasets'[j] = datasets[j]
  PROVE  /\ req' \in [Requests -> Request] /\ req'[r] = new
         /\ \A q \in Requests : Knows(req'[q], datasets')
<1>1. Marks(r, {i}, new)
  BY DEF Touched, Marks
<1>2. {i} \in SUBSET Ids /\ req'[r] = new
  BY <1>1 DEF Marks
<1> QED
  BY <1>1, <1>2, CommitKnows

-----------------------------------------------------------------------------
(* The invariant holds initially and in every step. *)

LEMMA InitIInv == Init => IInv
<1> SUFFICES ASSUME Init
             PROVE  IInv
  OBVIOUS
<1>1. CatalogueType /\ CatalogueConsistent
  BY ConstantsOK DEF Init, CatalogueType, CatalogueConsistent, Seeded, Stored
<1>2. req \in [Requests -> Request]
  BY IdleType DEF Init
<1>3. Knows(Idle, datasets)
  BY IdleType DEF Knows, Uncommitted, Allowed, ReadIsStored, ReplyTrue, Idle
<1> QED
  BY <1>1, <1>2, <1>3 DEF Init, IInv

LEMMA CreateStartKeeps ==
  ASSUME IInv, NEW r \in Requests, NEW c \in Callers, NEW row \in NewRows, CreateStart(r, c, row)
  PROVE  IInv'
<1> DEFINE rq == [Idle EXCEPT !.op = "create", !.caller = c, !.row = row]
           inserting == [rq EXCEPT !.pc = "insert"]
<1>1. row \in Row
  BY ConstantsOK
<1>2. /\ rq \in Request /\ ~rq.committed
      /\ inserting \in Request /\ ~inserting.committed
  BY <1>1, IdleType DEF Request, Idle
<1>3. \A code \in {"denied", "invalid", "conflict"} : Knows(Answered(rq, code), datasets)
  BY <1>2, AnsweredKnows DEF Codes
<1>4. ASSUME MayCreate(c, row)
      PROVE  Knows(inserting, datasets)
  BY <1>1, <1>2, <1>4 DEF Knows, Uncommitted, Allowed, ReadIsStored, ReplyTrue, Idle
<1>5. \E new : Knows(new, datasets) /\ req' = [req EXCEPT ![r] = new]
  BY <1>3, <1>4 DEF CreateStart
<1> QED
  BY <1>5, LocalStep DEF CreateStart

LEMMA InsertConflictsKeeps ==
  ASSUME IInv, NEW r \in Requests, InsertConflicts(r)
  PROVE  IInv'
<1>1. Knows(req[r], datasets) /\ req[r] \in Request /\ ~req[r].committed
  BY DEF IInv, Knows, Uncommitted, InsertConflicts
<1>2. Knows(Answered(req[r], "error"), datasets)
  BY <1>1, AnsweredKnows DEF Codes
<1> QED
  BY <1>2, LocalStep DEF InsertConflicts

LEMMA RefreshKeeps ==
  ASSUME IInv, NEW r \in Requests, Refresh(r)
  PROVE  IInv'
<1> DEFINE code == IF req[r].id \in Stored THEN "ok" ELSE "error"
<1>1. Knows(req[r], datasets) /\ req[r] \in Request
  BY DEF IInv, Knows
<1>2. req[r].committed /\ (req[r].overlapped \/ req[r].id \in Stored)
  BY <1>1 DEF Knows, ReadIsStored, Stored, Refresh
<1>3. Knows(Answered(req[r], code), datasets)
  BY <1>1, <1>2, AnsweredKnows DEF Codes
<1> QED
  BY <1>3, LocalStep DEF Refresh

\* What the endpoint decides: an answer that says so, or a write it allows.
LEMMA DecidedKnows ==
  ASSUME IInv, NEW rq \in Request, rq.caller \in Callers, rq.id \in Ids,
         rq.op \in {"update", "delete"}, ~rq.committed
  PROVE  Knows(Decided(rq), datasets)
<1> DEFINE row == datasets[rq.id]
           allowed == IF rq.op = "update" THEN MayUpdate(rq.caller, row, rq.patch)
                                          ELSE MayDelete(rq.caller, rq.confirmed)
           writing == [rq EXCEPT !.pc = "write", !.row = row]
<1>1. row \in Row \cup {NoRow}
  BY DEF IInv, CatalogueType
<1>2. \A code \in {"missing", "denied", "invalid"} : Knows(Answered(rq, code), datasets)
  BY AnsweredKnows DEF Codes
<1>3. ASSUME row # NoRow, allowed
      PROVE  Knows(writing, datasets)
  <2>1. /\ writing \in Request /\ writing.pc = "write" /\ writing.row = row
        /\ writing.op = rq.op /\ writing.caller = rq.caller /\ writing.id = rq.id
        /\ writing.patch = rq.patch /\ writing.confirmed = rq.confirmed
        /\ writing.committed = rq.committed
    BY <1>1 DEF Request
  <2> HIDE DEF writing
  <2> QED
    BY <2>1, <1>1, <1>3 DEF Knows, Uncommitted, Allowed, ReadIsStored, ReplyTrue
<1>4. \/ \E code \in {"missing", "denied", "invalid"} : Decided(rq) = Answered(rq, code)
      \/ row # NoRow /\ allowed /\ Decided(rq) = writing
  BY DEF Decided
<1> QED
  BY <1>2, <1>3, <1>4

LEMMA AgentFindKeeps ==
  ASSUME IInv, NEW r \in Requests, NEW c \in Callers, NEW i \in Ids,
         NEW op \in {"update", "delete"}, AgentFind(r, c, i, op)
  PROVE  IInv'
<1>1. PICK confirmed \in BOOLEAN, patch \in Patches :
        req' = [req EXCEPT ![r] =
          [Idle EXCEPT !.pc = "found", !.op = op, !.caller = c, !.id = i,
                       !.confirmed = confirmed, !.patch = patch]]
  BY DEF AgentFind
<1> DEFINE new == [Idle EXCEPT !.pc = "found", !.op = op, !.caller = c, !.id = i,
                               !.confirmed = confirmed, !.patch = patch]
<1>2. new \in Request
  BY ConstantsOK, IdleType DEF Request
<1>3. Knows(new, datasets)
  BY <1>2 DEF Knows, Uncommitted, Allowed, ReadIsStored, ReplyTrue, Idle
<1> QED
  BY <1>1, <1>3, LocalStep DEF AgentFind

LEMMA AskKeeps ==
  ASSUME IInv, NEW r \in Requests, NEW c \in Callers, NEW i \in Ids,
         NEW op \in {"update", "delete"}, Ask(r, c, i, op)
  PROVE  IInv'
<1>1. PICK confirmed \in BOOLEAN, patch \in Patches :
        req' = [req EXCEPT ![r] =
          Decided([Idle EXCEPT !.op = op, !.caller = c, !.id = i,
                               !.confirmed = confirmed, !.patch = patch])]
  BY DEF Ask
<1> DEFINE rq == [Idle EXCEPT !.op = op, !.caller = c, !.id = i,
                              !.confirmed = confirmed, !.patch = patch]
<1>2. rq \in Request
  BY ConstantsOK, IdleType DEF Request
<1>3. rq.caller = c /\ rq.id = i /\ rq.op = op /\ ~rq.committed
  BY DEF Idle
<1> HIDE DEF rq
<1>4. Knows(Decided(rq), datasets)
  BY <1>2, <1>3, DecidedKnows
<1> QED
  BY <1>1, <1>4, LocalStep DEF Ask, rq

LEMMA AskFoundKeeps ==
  ASSUME IInv, NEW r \in Requests, AskFound(r)
  PROVE  IInv'
<1>1. Knows(req[r], datasets)
  BY DEF IInv
<1>2. Knows(Decided(req[r]), datasets)
  BY <1>1, DecidedKnows DEF Knows, Uncommitted, Allowed, AskFound
<1> QED
  BY <1>2, LocalStep DEF AskFound

LEMMA UpdateFailsKeeps ==
  ASSUME IInv, NEW r \in Requests, UpdateFails(r)
  PROVE  IInv'
<1>1. Knows(req[r], datasets) /\ req[r] \in Request /\ ~req[r].committed
  BY DEF IInv, Knows, Uncommitted, UpdateFails
<1>2. Knows(Answered(req[r], "error"), datasets)
  BY <1>1, AnsweredKnows DEF Codes
<1> QED
  BY <1>2, LocalStep DEF UpdateFails

LEMMA SeedCountKeeps ==
  ASSUME IInv, NEW r \in Requests, SeedCount(r)
  PROVE  IInv'
<1> DEFINE new == [Idle EXCEPT !.pc = "counted", !.op = "seed"]
<1>1. new \in Request
  BY IdleType DEF Request
<1>2. Knows(new, datasets)
  BY <1>1 DEF Knows, Uncommitted, Allowed, ReadIsStored, ReplyTrue, Idle
<1> QED
  BY <1>2, LocalStep DEF SeedCount

LEMMA SeedFailsKeeps ==
  ASSUME IInv, NEW r \in Requests, SeedFails(r)
  PROVE  IInv'
<1>1. Knows(req[r], datasets) /\ req[r] \in Request /\ ~req[r].committed
  BY DEF IInv, Knows, Uncommitted, SeedFails
<1>2. Knows(Answered(req[r], "error"), datasets)
  BY <1>1, AnsweredKnows DEF Codes
<1> QED
  BY <1>2, LocalStep DEF SeedFails

LEMMA RespondKeeps ==
  ASSUME IInv, NEW r \in Requests, Respond(r)
  PROVE  IInv'
<1>1. Knows(Idle, datasets)
  BY IdleType DEF Knows, Uncommitted, Allowed, ReadIsStored, ReplyTrue, Idle
<1> QED
  BY <1>1, LocalStep DEF Respond

\* A new row takes a free id: no request and no edge knows it yet.
LEMMA InsertKeeps ==
  ASSUME IInv, NEW r \in Requests, Insert(r)
  PROVE  /\ IInv'
         /\ \A i \in Ids : datasets'[i] # datasets[i] =>
              /\ datasets[i] = NoRow /\ datasets'[i] = req[r].row
              /\ ~req[r].committed /\ req'[r].committed
<1>1. PICK i \in Ids :
        /\ \A j \in Stored : j < i
        /\ datasets' = [datasets EXCEPT ![i] = req[r].row]
        /\ req' = [Touched({i}) EXCEPT ![r] =
             [Idle EXCEPT !.pc = "refresh", !.id = i, !.committed = TRUE]]
  BY DEF Insert
<1> DEFINE new == [Idle EXCEPT !.pc = "refresh", !.id = i, !.committed = TRUE]
<1>2. /\ req[r].row \in Row /\ ~req[r].committed /\ req[r].row # NoRow
      /\ ~NameTaken(req[r].row.name, NoId) /\ lineage' = lineage /\ raced' = raced
  BY ConstantsOK DEF IInv, Knows, Uncommitted, Allowed, Insert
<1>3. i \notin Stored /\ datasets[i] = NoRow
  BY <1>1 DEF Ids, Stored
<1>4. /\ datasets' \in [Ids -> Row \cup {NoRow}] /\ datasets'[i] = req[r].row
      /\ \A j \in Ids \ {i} : datasets'[j] = datasets[j]
  BY <1>1, <1>2 DEF IInv, CatalogueType
<1>5. new \in Request /\ new.committed
  BY IdleType DEF Request
<1>6. Knows(new, datasets')
  BY <1>2, <1>4, <1>5 DEF Knows, Uncommitted, Allowed, ReadIsStored, ReplyTrue, Idle
<1>7. /\ req' \in [Requests -> Request] /\ req'[r] = new
      /\ \A q \in Requests : Knows(req'[q], datasets')
  BY <1>1, <1>4, <1>6, RowCommitKnows
<1>8. CatalogueConsistent'
  <2>1. \A j \in Stored : datasets[j].name # req[r].row.name
    BY <1>2 DEF NameTaken, Stored, Ids, NoId
  <2>2. Stored' = Stored \cup {i}
    BY <1>2, <1>4 DEF Stored
  <2> QED
    BY <1>2, <1>3, <1>4, <2>1, <2>2 DEF IInv, CatalogueConsistent, Stored
<1>9. CatalogueType'
  BY <1>2, <1>4 DEF IInv, CatalogueType
<1> QED
  BY <1>2, <1>3, <1>4, <1>5, <1>7, <1>8, <1>9 DEF IInv

\* An update keeps the row's id and the team of the row it lands on, and
\* checks a name it sets.
LEMMA UpdateKeeps ==
  ASSUME IInv, NEW r \in Requests, Update(r)
  PROVE  /\ IInv'
         /\ req[r].id \in Ids /\ ~req[r].committed /\ req'[r].committed
         /\ datasets[req[r].id] \in Row /\ req[r].row \in Row
         /\ datasets'[req[r].id] = Written(req[r], datasets[req[r].id])
         /\ \A j \in Ids \ {req[r].id} : datasets'[j] = datasets[j]
<1> DEFINE i == req[r].id
           new == [Idle EXCEPT !.pc = "refresh", !.id = i, !.committed = TRUE,
                               !.overlapped = req[r].overlapped]
<1>1. /\ req[r] \in Request /\ i \in Ids /\ req[r].row \in Row /\ ~req[r].committed
      /\ i \in Stored /\ lineage' = lineage /\ raced' = raced
  BY DEF IInv, Knows, Uncommitted, Allowed, ReadIsStored, Update, Refused
<1>2. datasets[i] \in Row /\ NoRow \notin Row
  BY <1>1, ConstantsOK DEF IInv, CatalogueType, Stored
<1>3. Written(req[r], datasets[i]) \in Row
  BY <1>1, <1>2, WrittenIsRow
<1>4. /\ datasets' \in [Ids -> Row \cup {NoRow}] /\ datasets'[i] = Written(req[r], datasets[i])
      /\ \A j \in Ids \ {i} : datasets'[j] = datasets[j]
  BY <1>1, <1>3 DEF IInv, CatalogueType, Update
<1>5. new \in Request /\ new.committed /\ new.pc = "refresh" /\ new.id = i
  <2>1. req[r].overlapped \in BOOLEAN
    BY <1>1 DEF Request
  <2> QED
    BY <1>1, <2>1, IdleType DEF Request
<1>6. Knows(new, datasets')
  BY <1>2, <1>1, <1>3, <1>4, <1>5 DEF Knows, Uncommitted, Allowed, ReadIsStored, ReplyTrue
<1>7. req' = [Touched({i}) EXCEPT ![r] = new]
  BY DEF Update
<1> HIDE DEF new
<1>8. /\ req' \in [Requests -> Request] /\ req'[r] = new
      /\ \A q \in Requests : Knows(req'[q], datasets')
  BY <1>1, <1>4, <1>6, <1>7, RowCommitKnows
<1>9. CatalogueConsistent'
  <2>1. Stored' = Stored
    BY <1>1, <1>2, <1>3, <1>4 DEF Stored
  <2>2. \A j \in Stored : datasets'[j].name = datasets'[i].name => i = j
    <3> SUFFICES ASSUME NEW j \in Stored \ {i}
                 PROVE  datasets[j].name # Written(req[r], datasets[i]).name
      BY <1>4 DEF Stored
    <3>1. datasets[j].name # datasets[i].name
      BY <1>1 DEF IInv, CatalogueConsistent
    <3>2. ~Refused(req[r])
      BY DEF Update
    <3>3. /\ Written(req[r], datasets[i]) \in Row /\ datasets[i] \in Row
          /\ Written(req[r], datasets[i])["name"] =
               IF req[r].patch["name"] \notin {Same, req[r].row["name"]}
               THEN req[r].patch["name"] ELSE datasets[i]["name"]
      BY <1>1, <1>2, WrittenIsRow
    <3>4. CASE req[r].patch.name \notin {Same, req[r].row.name}
      BY <3>2, <3>3, <3>4 DEF Refused, NameTaken
    <3>5. CASE req[r].patch.name \in {Same, req[r].row.name}
      BY <3>1, <3>3, <3>5
    <3> QED
      BY <3>4, <3>5
  <2> QED
    BY <1>1, <1>4, <2>1, <2>2 DEF IInv, CatalogueConsistent, Stored
<1>10. CatalogueType'
  BY <1>1, <1>4 DEF IInv, CatalogueType
<1> QED
  BY <1>1, <1>2, <1>4, <1>5, <1>8, <1>9, <1>10 DEF IInv

\* A delete takes the edges of the id with the row.
LEMMA DeleteKeeps ==
  ASSUME IInv, NEW r \in Requests, Delete(r)
  PROVE  /\ IInv'
         /\ \A i \in Ids : datasets'[i] # datasets[i] => ~req[r].committed /\ req'[r].committed
<1> DEFINE i == req[r].id
           rq == [req[r] EXCEPT !.committed = i \in Stored]
           new == Answered(rq, "ok")
<1>1. /\ req[r] \in Request /\ i \in Ids /\ ~req[r].committed /\ req[r].row \in Row
      /\ req[r].overlapped \/ datasets[i] = req[r].row
  BY DEF IInv, Knows, Uncommitted, Allowed, ReadIsStored, Delete
<1>2. rq \in Request /\ rq.overlapped = req[r].overlapped /\ rq.committed = (i \in Stored)
  <2>1. CASE i \in Stored
    <3>1. rq = [req[r] EXCEPT !.committed = TRUE]
      BY <2>1
    <3> QED
      BY <2>1, <3>1, <1>1 DEF Request
  <2>2. CASE i \notin Stored
    <3>1. (i \in Stored) = FALSE
      BY <2>2
    <3>2. rq = [req[r] EXCEPT !.committed = FALSE]
      BY <3>1, Zenon
    <3> QED
      BY <2>2, <3>2, <1>1 DEF Request
  <2> QED
    BY <2>1, <2>2
<1>3. rq.overlapped \/ rq.committed
  BY <1>1, <1>2, ConstantsOK DEF Stored
<1> HIDE DEF rq
<1>4. Knows(new, datasets') /\ new.committed = rq.committed
  BY <1>2, <1>3, AnsweredKnows, AnsweredType DEF Codes
<1>5. /\ datasets' \in [Ids -> Row \cup {NoRow}] /\ datasets'[i] = NoRow
      /\ \A j \in Ids \ {i} : datasets'[j] = datasets[j]
  BY <1>1 DEF IInv, CatalogueType, Delete
<1>6. req' = [Touched({i}) EXCEPT ![r] = new]
  BY DEF Delete, rq
<1> HIDE DEF new
<1>7. /\ req' \in [Requests -> Request] /\ req'[r] = new
      /\ \A q \in Requests : Knows(req'[q], datasets')
  BY <1>1, <1>4, <1>5, <1>6, RowCommitKnows
<1>8. Stored' = Stored \ {i}
  BY <1>5 DEF Stored
<1>9. lineage' = {e \in lineage : e[1] # i /\ e[2] # i} /\ raced' = raced \cap lineage'
  BY DEF Delete, EdgesWithout
<1>10. CatalogueConsistent'
  BY <1>5, <1>8, <1>9 DEF IInv, CatalogueConsistent, Stored
<1>11. CatalogueType'
  BY <1>5, <1>9 DEF IInv, CatalogueType
<1>12. \A j \in Ids : datasets'[j] # datasets[j] => ~req[r].committed /\ req'[r].committed
  BY <1>1, <1>2, <1>4, <1>5, <1>7 DEF Stored
<1> QED
  BY <1>7, <1>10, <1>11, <1>12 DEF IInv

LEMMA MergeRowKeeps ==
  ASSUME IInv, NEW r \in Requests, MergeRow(r)
  PROVE  IInv'
<1>1. PICK i \in DOMAIN SeedRows : req' = [req EXCEPT ![r].seen[i] = datasets[i]]
  BY DEF MergeRow
<1> DEFINE new == [req[r] EXCEPT !.seen[i] = datasets[i]]
<1>2. Knows(req[r], datasets) /\ req[r] \in Request /\ req[r].pc = "counted"
  BY DEF IInv, Knows, MergeRow
<1>3. i \in Ids /\ datasets[i] \in Row \cup {NoRow}
  BY ConstantsOK DEF IInv, CatalogueType
<1>4. /\ new \in Request /\ new.pc = "counted" /\ new.op = req[r].op
      /\ new.committed = req[r].committed /\ new.overlapped = req[r].overlapped
      /\ \A k \in DOMAIN SeedRows : new.seen[k] = IF k = i THEN datasets[i] ELSE req[r].seen[k]
  BY <1>2, <1>3 DEF Request
<1>5. req' = [req EXCEPT ![r] = new]
  BY <1>1
<1> HIDE DEF new
<1>6. Knows(new, datasets)
  BY <1>2, <1>4 DEF Knows, Uncommitted, Allowed, ReadIsStored, ReplyTrue
<1> QED
  BY <1>5, <1>6, LocalStep DEF MergeRow

LEMMA MergeEdgeKeeps ==
  ASSUME IInv, NEW r \in Requests, MergeEdge(r)
  PROVE  IInv'
<1>1. PICK e \in SeedEdges :
        req' = [req EXCEPT ![r].edges[e] = IF e \in lineage THEN "found" ELSE "absent"]
  BY DEF MergeEdge
<1> DEFINE found == IF e \in lineage THEN "found" ELSE "absent"
           new == [req[r] EXCEPT !.edges[e] = found]
<1>2. Knows(req[r], datasets) /\ req[r] \in Request /\ req[r].pc = "counted"
  BY DEF IInv, Knows, MergeEdge
<1>3. found \in {"unread", "found", "absent"}
  OBVIOUS
<1> HIDE DEF found
<1>4. /\ new \in Request /\ new.pc = "counted" /\ new.op = req[r].op
      /\ new.committed = req[r].committed /\ new.overlapped = req[r].overlapped
      /\ new.seen = req[r].seen
  BY <1>2, <1>3 DEF Request
<1>5. req' = [req EXCEPT ![r] = new]
  BY <1>1 DEF found
<1> HIDE DEF new
<1>6. Knows(new, datasets)
  BY <1>2, <1>4 DEF Knows, Uncommitted, Allowed, ReadIsStored, ReplyTrue
<1> QED
  BY <1>5, <1>6, LocalStep DEF MergeEdge

\* What a seed leaves: its rows where it inserts, rows where it updates, and
\* its own name on every row it inserts or renames.
LEMMA SeedWrites ==
  ASSUME IInv, NEW r \in Requests, Seed(r)
  PROVE  /\ datasets' \in [Ids -> Row \cup {NoRow}]
         /\ Stored' = Stored \cup InsertedRows(req[r])
         /\ \A i \in Ids \ (InsertedRows(req[r]) \cup UpdatedRows(req[r])) :
              datasets'[i] = datasets[i]
         /\ \A i \in Renamed(req[r]) \cup InsertedRows(req[r]) :
              datasets'[i].name = SeedRows[i].name
         /\ \A i \in Stored \ Renamed(req[r]) :
              i \notin InsertedRows(req[r]) /\ datasets'[i].name = datasets[i].name
<1> DEFINE rq == req[r]
<1>1. /\ rq \in Request /\ DOMAIN SeedRows \subseteq Ids
      /\ \A i \in DOMAIN SeedRows : SeedRows[i] \in Row
      /\ NoRow \notin Row /\ Unread \notin Row
  BY ConstantsOK DEF IInv
<1>2. /\ \A i \in DOMAIN SeedRows : rq.seen[i] \in Row \cup {NoRow}
      /\ InsertedRows(rq) \cap Stored = {} /\ UpdatedRows(rq) \subseteq Stored
  BY <1>1 DEF Request, Seed, Merged, RowsMerged, FlushRefused
<1>3. \A i \in UpdatedRows(rq) : i \in Ids /\ rq.seen[i] \in Row /\ datasets[i] \in Row
  BY <1>1, <1>2 DEF UpdatedRows, IInv, CatalogueType, Stored
<1>4. ASSUME NEW i \in UpdatedRows(rq)
      PROVE  /\ Reseeded(rq, i) \in Row
             /\ Reseeded(rq, i).name =
                  IF rq.seen[i].name # SeedRows[i].name THEN SeedRows[i].name ELSE datasets[i].name
  <2>1. SeedRows[i] \in Row /\ datasets[i] \in Row
    BY <1>1, <1>3 DEF UpdatedRows
  <2>2. DOMAIN SeedRows[i] = {"name", "team", "level"}
    BY <2>1 DEF Row
  <2>3. Reseeded(rq, i) = [f \in {"name", "team", "level"} |->
          IF rq.seen[i][f] # SeedRows[i][f] THEN SeedRows[i][f] ELSE datasets[i][f]]
    BY <2>2 DEF Reseeded
  <2>4. /\ SeedRows[i]["name"] \in Names /\ datasets[i]["name"] \in Names
        /\ SeedRows[i]["team"] \in Teams /\ datasets[i]["team"] \in Teams
        /\ SeedRows[i]["level"] \in Levels /\ datasets[i]["level"] \in Levels
    BY <2>1 DEF Row
  <2> QED
    BY <2>3, <2>4 DEF Row
<1>5. datasets' = [i \in Ids |->
        IF i \in InsertedRows(rq) THEN SeedRows[i]
        ELSE IF i \in UpdatedRows(rq) THEN Reseeded(rq, i) ELSE datasets[i]]
  BY DEF Seed
<1>6. InsertedRows(rq) \subseteq DOMAIN SeedRows /\ InsertedRows(rq) \cap UpdatedRows(rq) = {}
  BY DEF InsertedRows, UpdatedRows
<1>7. datasets' \in [Ids -> Row \cup {NoRow}]
  BY <1>1, <1>4, <1>5, <1>6 DEF IInv, CatalogueType
<1>8. Stored' = Stored \cup InsertedRows(rq)
  BY <1>1, <1>2, <1>4, <1>5, <1>6 DEF Stored
<1>9. \A i \in Ids \ (InsertedRows(rq) \cup UpdatedRows(rq)) : datasets'[i] = datasets[i]
  BY <1>5
<1>10. \A i \in Renamed(rq) \cup InsertedRows(rq) : datasets'[i].name = SeedRows[i].name
  BY <1>1, <1>4, <1>5, <1>6 DEF Renamed, UpdatedRows
<1>11. \A i \in Stored \ Renamed(rq) :
         i \notin InsertedRows(rq) /\ datasets'[i].name = datasets[i].name
  BY <1>2, <1>4, <1>5 DEF Renamed, Stored
<1> QED
  BY <1>7, <1>8, <1>9, <1>10, <1>11

\* A seed whose rows nobody touched inserts edges between stored rows.
LEMMA SeedKeepsCatalogue ==
  ASSUME IInv, NEW r \in Requests, Seed(r)
  PROVE  CatalogueConsistent' /\ CatalogueType'
<1> DEFINE rq == req[r]
           Named == Renamed(rq) \cup InsertedRows(rq)
<1>1. /\ rq \in Request /\ Knows(rq, datasets) /\ DOMAIN SeedRows \subseteq Ids
      /\ SeedEdges \subseteq (DOMAIN SeedRows) \X (DOMAIN SeedRows)
      /\ Named \subseteq DOMAIN SeedRows
  BY ConstantsOK DEF IInv, Knows, Renamed, UpdatedRows, InsertedRows
<1>2. /\ lineage' = lineage \cup InsertedEdges(rq)
      /\ raced' = raced \cup (IF rq.overlapped THEN InsertedEdges(rq) ELSE {})
      /\ InsertedEdges(rq) \subseteq SeedEdges
  BY DEF Seed, InsertedEdges
<1>3. CatalogueType'
  BY <1>1, <1>2, SeedWrites DEF IInv, CatalogueType
<1>4. ASSUME NEW i \in Stored', NEW j \in Stored', datasets'[i].name = datasets'[j].name
      PROVE  i = j
  <2>1. /\ i \in Named => datasets'[i].name = SeedRows[i].name
        /\ j \in Named => datasets'[j].name = SeedRows[j].name
        /\ i \notin Named => i \in Stored /\ datasets'[i].name = datasets[i].name
        /\ j \notin Named => j \in Stored /\ datasets'[j].name = datasets[j].name
    BY SeedWrites
  <2>2. CASE i \in Named /\ j \in Named
    BY <1>1, <1>4, <2>1, <2>2, ConstantsOK
  <2>3. CASE i \notin Named /\ j \notin Named
    BY <1>4, <2>1, <2>3 DEF IInv, CatalogueConsistent
  <2>4. CASE i \in Named /\ j \notin Named
    BY <1>4, <2>1, <2>4 DEF Seed, FlushRefused, NamesClash
  <2>5. CASE i \notin Named /\ j \in Named
    BY <1>4, <2>1, <2>5 DEF Seed, FlushRefused, NamesClash
  <2> QED
    BY <2>2, <2>3, <2>4, <2>5
<1>5. ASSUME NEW e \in lineage' \ raced'
      PROVE  e[1] \in Stored' /\ e[2] \in Stored'
  <2>1. CASE e \in lineage \ raced
    BY <2>1, SeedWrites DEF IInv, CatalogueConsistent
  <2>2. CASE e \in InsertedEdges(rq) /\ ~rq.overlapped
    <3>1. e[1] \in DOMAIN SeedRows /\ e[2] \in DOMAIN SeedRows
      BY <1>1, <1>2, <2>2
    <3>2. ASSUME NEW i \in DOMAIN SeedRows
          PROVE  i \in Stored'
      <4>1. rq.seen[i] = NoRow \/ rq.seen[i] = datasets[i]
        BY <1>1, <2>2 DEF Knows, ReadIsStored, Seed, Merged, RowsMerged
      <4>2. rq.seen[i] = NoRow => i \in InsertedRows(rq)
        BY DEF InsertedRows
      <4>3. rq.seen[i] # NoRow => i \in Stored
        BY <1>1, <4>1 DEF Stored
      <4> QED
        BY <4>2, <4>3, SeedWrites
    <3> QED
      BY <3>1, <3>2
  <2> QED
    BY <1>2, <2>1, <2>2
<1> QED
  BY <1>3, <1>4, <1>5 DEF CatalogueConsistent

\* Seeding marks those who go by the rows it writes, and the other seeds.
LEMMA SeedKeeps ==
  ASSUME IInv, NEW r \in Requests, Seed(r)
  PROVE  IInv' /\ req[r].op = "seed" /\ ~req[r].committed /\ req'[r].committed
<1> DEFINE rq == [req[r] EXCEPT !.committed = TRUE]
           new == Answered(rq, "ok")
           changed == InsertedRows(req[r]) \cup UpdatedRows(req[r])
<1>1. req[r] \in Request /\ ~req[r].committed /\ req[r].op = "seed"
  BY DEF IInv, Knows, Uncommitted, Allowed, Seed
<1>2. rq \in Request /\ rq.committed
  BY <1>1 DEF Request
<1>3. changed \in SUBSET Ids
  BY ConstantsOK DEF InsertedRows, UpdatedRows
<1>4. Marks(r, changed, new) /\ req'[r] = new
  BY SeedWrites DEF Seed, Marks
<1> HIDE DEF rq, changed
<1>5. Knows(new, datasets') /\ new \in Request /\ new.committed
  BY <1>2, AnsweredKnows, AnsweredType DEF Codes, Knows
<1> HIDE DEF new
<1>7. req' \in [Requests -> Request] /\ \A q \in Requests : Knows(req'[q], datasets')
  BY <1>3, <1>4, <1>5, CommitKnows
<1> QED
  BY <1>1, <1>4, <1>5, <1>7, SeedKeepsCatalogue DEF IInv

LEMMA NextIInv == IInv /\ [Next]_vars => IInv'
<1> SUFFICES ASSUME IInv, [Next]_vars
             PROVE  IInv'
  OBVIOUS
<1>1. CASE UNCHANGED vars
  BY <1>1 DEF vars, catalogue, IInv, CatalogueType, CatalogueConsistent, Stored
<1>2. ASSUME NEW r \in Requests, NEW c \in Callers, NEW row \in NewRows, CreateStart(r, c, row)
      PROVE  IInv'
  BY <1>2, CreateStartKeeps
<1>3. ASSUME NEW r \in Requests, NEW c \in Callers, NEW i \in Ids, NEW op \in {"update", "delete"},
             AgentFind(r, c, i, op) \/ Ask(r, c, i, op)
      PROVE  IInv'
  BY <1>3, AgentFindKeeps, AskKeeps
<1>4. ASSUME NEW r \in Requests,
             AskFound(r) \/ InsertConflicts(r) \/ Refresh(r) \/ UpdateFails(r) \/ SeedCount(r)
               \/ MergeRow(r) \/ MergeEdge(r) \/ SeedFails(r) \/ Respond(r)
      PROVE  IInv'
  BY <1>4, AskFoundKeeps, InsertConflictsKeeps, RefreshKeeps, UpdateFailsKeeps, SeedCountKeeps,
     MergeRowKeeps, MergeEdgeKeeps, SeedFailsKeeps, RespondKeeps
<1>5. ASSUME NEW r \in Requests, Insert(r) \/ Update(r) \/ Delete(r) \/ Seed(r)
      PROVE  IInv'
  BY <1>5, InsertKeeps, UpdateKeeps, DeleteKeeps, SeedKeeps
<1> QED
  BY <1>1, <1>2, <1>3, <1>4, <1>5 DEF Next

LEMMA SpecIInv == Spec => []IInv
BY InitIInv, NextIInv, PTL DEF Spec

\* In every reachable state the variables have their types.
THEOREM TypeCorrect == Spec => []TypeOK
BY SpecIInv, IInvImplies, PTL

\* However creates, renames, deletes and seeding interleave, no two datasets
\* share a name, and every lineage edge joins two stored datasets but those that
\* a seed inserted after another commit on a row it had merged.
THEOREM CatalogueStaysConsistent == Spec => []CatalogueConsistent
<1>1. IInv => CatalogueConsistent
  BY DEF IInv
<1> QED
  BY <1>1, SpecIInv, PTL

\* A blocked request changed nothing, and a task is reported completed exactly
\* when its write took effect, unless another write came in between.
THEOREM RepliesAreTrue == Spec => []RepliesTrue
BY SpecIInv, IInvImplies, PTL

\* An update lands where its caller may write, unless the row changed after the
\* policy looked at it; even then it neither moves the row to another team nor
\* makes it sensitive.
LEMMA UpdateIsLawful ==
  ASSUME IInv, NEW r \in Requests, Update(r)
  PROVE  Lawful(req[r], datasets[req[r].id], datasets'[req[r].id])
<1> DEFINE rq == req[r]
           old == datasets[rq.id]
           new == datasets'[rq.id]
<1>1. /\ rq \in Request /\ rq.pc = "write" /\ rq.op = "update"
      /\ MayUpdate(rq.caller, rq.row, rq.patch)
      /\ rq.overlapped \/ old = rq.row
  BY DEF IInv, Knows, Allowed, ReadIsStored, Update
<1>2. old \in Row /\ rq.row \in Row /\ new = Written(rq, old)
  BY UpdateKeeps
<1>3. /\ new \in Row
      /\ new["team"] = IF rq.patch["team"] \notin {Same, rq.row["team"]}
                       THEN rq.patch["team"] ELSE old["team"]
      /\ new["level"] = IF rq.patch["level"] \notin {Same, rq.row["level"]}
                        THEN rq.patch["level"] ELSE old["level"]
  BY <1>1, <1>2, WrittenIsRow
<1>4. CASE IsAdmin(rq.caller)
  BY <1>1, <1>4 DEF Lawful
<1>5. CASE ~IsAdmin(rq.caller)
  <2>1. /\ Role[rq.caller] = "editor" /\ rq.row.team = Team[rq.caller]
        /\ rq.patch.team \in {Same, rq.row.team}
        /\ rq.row.level # "sensitive" /\ rq.patch.level # "sensitive"
    BY <1>1, <1>5 DEF MayUpdate
  <2>2. old # NoRow /\ new.team = old.team
    BY <1>2, <1>3, <2>1, ConstantsOK
  <2>3. rq.patch \in Patch /\ new.level \in Levels
    BY <1>1, <1>3 DEF Request, Row
  <2>4. new.level \in {old.level, "open", "unlisted"}
    BY <1>3, <2>1, <2>3 DEF Patch, Levels
  <2>5. rq.overlapped \/ (old.team = Team[rq.caller] /\ old.level # "sensitive")
    BY <1>1, <2>1
  <2> QED
    BY <1>1, <2>1, <2>2, <2>4, <2>5 DEF Lawful
<1> QED
  BY <1>4, <1>5

\* What one step of one request may do to the catalogue.
LawfulStep ==
  \A i \in Ids : datasets'[i] # datasets[i] =>
    \E r \in Requests :
      ~req[r].committed /\ req'[r].committed /\ Lawful(req[r], datasets[i], datasets'[i])

LEMMA NextIsLawful == IInv /\ [Next]_vars => LawfulStep
<1> SUFFICES ASSUME IInv, [Next]_vars, NEW i \in Ids, datasets'[i] # datasets[i]
             PROVE  \E r \in Requests : ~req[r].committed /\ req'[r].committed
                                          /\ Lawful(req[r], datasets[i], datasets'[i])
  BY DEF LawfulStep
<1>1. PICK r \in Requests : Insert(r) \/ Update(r) \/ Delete(r) \/ Seed(r)
  BY ZenonT(40) DEF Next, vars, CreateStart, AgentFind, Ask, AskFound, InsertConflicts, Refresh, UpdateFails,
         SeedCount, MergeRow, MergeEdge, SeedFails, Respond, catalogue
<1>2. CASE Insert(r)
  <2>1. req[r].op = "create" /\ MayCreate(req[r].caller, req[r].row)
    BY <1>2 DEF Insert, IInv, Knows, Allowed
  <2> QED
    BY <1>2, <2>1, InsertKeeps DEF Lawful, MayCreate, IsAdmin
<1>3. CASE Update(r)
  BY <1>3, UpdateKeeps, UpdateIsLawful
<1>4. CASE Delete(r)
  <2>1. req[r].op = "delete" /\ MayDelete(req[r].caller, req[r].confirmed)
    BY <1>4 DEF Delete, IInv, Knows, Allowed
  <2> QED
    BY <1>4, <2>1, DeleteKeeps DEF Lawful, MayDelete
<1>5. CASE Seed(r)
  BY <1>5, SeedKeeps DEF Lawful
<1> QED
  BY <1>1, <1>2, <1>3, <1>4, <1>5

\* Every change of the catalogue is lawful for the caller whose request made it.
THEOREM PolicyIsKept == Spec => PolicyHolds
<1>1. IInv /\ [Next]_vars => [LawfulStep]_vars
  BY NextIsLawful
<1>2. Spec => [][LawfulStep]_vars
  BY <1>1, SpecIInv, PTL DEF Spec
<1> QED
  BY <1>2 DEF PolicyHolds, LawfulStep

=============================================================================

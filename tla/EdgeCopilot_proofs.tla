-------------------------- MODULE EdgeCopilot_proofs --------------------------
(* Proofs about EdgeCopilot, for every value of its constants. *)
EXTENDS EdgeCopilot, FiniteSetTheorems, WellFoundedInduction, TLAPS

\* A request from the moment it has loaded its session until it ends.
Holding == {"answering", "row", "step", "save"} \cup Confirming

\* What a request knows at each of its stops.
Shape(rq) ==
  /\ rq.pc \in Budgeting \cup {"insert_document", "chunks"} => rq.op = "upload"
  /\ rq.pc \in Budgeting => rq.user \in Users /\ rq.due # <<>>
  /\ rq.pc = "lookup" => rq.op \in {"select", "delete"}
  /\ rq.pc \in {"delete_chunks", "delete_document"} => rq.op = "delete"
  /\ rq.op \in {"upload", "select", "delete"} => rq.doc \in Docs /\ rq.action = NoAction
  /\ rq.op = "select" => rq.session \in Sessions
  /\ rq.pc \in Holding \cup {"load"} => rq.session \in Sessions /\ rq.op # "none"
  /\ rq.pc \in Holding => rq.ctx \in Context
  /\ rq.pc \in {"answering", "row", "step"} \cup Confirming => rq.op = "chat"
  /\ rq.pc = "answering" => rq.action = NoAction
  /\ rq.pc \in {"row", "step"} => rq.action \in rq.ctx.pending
  /\ rq.pc \in Confirming => rq.action \in Actions \ rq.ctx.pending
  /\ rq.pc \in {"idle", "done"} => rq.op \in {"none", "chat"} /\ rq.action = NoAction

Typed == TypeOK /\ \A r \in Requests : Shape(req[r])

-----------------------------------------------------------------------------
(* Documents *)

Uploads(r, d) ==
  req[r].pc \in Budgeting \cup {"insert_document", "chunks"} /\ req[r].doc = d

Deletes(r, d) == req[r].pc \in {"delete_chunks", "delete_document"} /\ req[r].doc = d

\* A document is uploaded by the one request that drew its id, and listed or
\* being deleted only after that request has inserted it.
OneUpload ==
  \A d \in Docs :
    /\ d \in documents => d \in past.used
    /\ \A q \in Requests : Deletes(q, d) => d \in past.used
    /\ \A r \in Requests : Uploads(r, d) =>
         /\ d \in past.used
         /\ \A q \in Requests \ {r} : ~Uploads(q, d)
         /\ req[r].pc # "chunks" =>
              /\ d \notin documents /\ chunks[d] = 0 /\ req[r].stored = 0
              /\ \A q \in Requests : ~Deletes(q, d)
    /\ d \notin past.used => chunks[d] = 0

\* The rows of a listed document are those its upload has stored so far.
Accounted ==
  \A d \in documents :
    \/ d \in past.broken
    \/ \E q \in Requests : req[q].pc = "delete_document" /\ req[q].doc = d
    \/ \E q \in Requests :
         req[q].pc = "chunks" /\ req[q].doc = d /\ chunks[d] = req[q].stored
    \/ /\ \A q \in Requests : ~Uploads(q, d)
       /\ chunks[d] = ChunksOf[d]

\* An upload that stores chunks has some left.
Unfinished ==
  \A r \in Requests : req[r].pc = "chunks" => req[r].stored < ChunksOf[req[r].doc]

Whole == OneUpload /\ Accounted /\ Unfinished

-----------------------------------------------------------------------------
(* Actions *)

\* The request holds a copy of its session with the action, or works on it.
Carries(q, a) ==
  req[q].pc \in Holding /\ (req[q].action = a \/ a \in req[q].ctx.pending)

Proposing(q, a) ==
  req[q].pc \in {"row", "step", "save"} /\ req[q].action = a /\ a \in req[q].ctx.pending

\* Before an action is proposed there is nothing of it.
FreshUnknown ==
  \A a \in Actions \ past.used :
    /\ \A s \in Sessions : a \notin sessions[s].pending
    /\ \A q \in Requests : ~Carries(q, a)
    /\ workflow[a].status = "none" /\ past.attempts[a] = 0

\* An action belongs to one session.
OneHome ==
  \A a \in Actions : \E h \in Sessions \cup {NoSession} :
    /\ \A s \in Sessions : a \in sessions[s].pending => s = h
    /\ \A q \in Requests : Carries(q, a) => req[q].session = h

\* Until it has saved, nobody but the proposing request knows of its action.
ProposerAlone ==
  \A a \in Actions, q \in Requests : Proposing(q, a) =>
    /\ past.attempts[a] = 0
    /\ \A s \in Sessions : a \notin sessions[s].pending
    /\ \A p \in Requests \ {q} : ~Carries(p, a)
    /\ req[q].pc = "row" => workflow[a].status = "none"
    /\ req[q].pc # "row" => workflow[a].session = req[q].session

\* Nothing of an action is done before its first execution.
Untried ==
  \A a \in Actions : past.attempts[a] = 0 =>
    /\ writes[a] = 0 /\ workflow[a].closings = 0 /\ Under(a) = {}
    /\ workflow[a].status \in {"none", "awaiting_review"}

\* An action that can be confirmed again has spent fewer excuses than it has.
SpareExcuse ==
  \A a \in Actions :
    (\E s \in Sessions : a \in sessions[s].pending) /\ Under(a) = {} =>
      past.attempts[a] <= past.excuses[a]

\* Where executions of an action do not overlap, one of them closes its row.
ClosedOnce ==
  \A a \in Actions \ past.overlapped :
    /\ \A p, q \in Under(a) : p = q
    /\ workflow[a].closings <= 1
    /\ workflow[a].status = "awaiting_review" => workflow[a].closings = 0
    /\ \A q \in Under(a) :
         /\ req[q].pc = "close" => workflow[a].status = "awaiting_review"
         /\ req[q].pc = "record" => workflow[a].closings = 0

\* What an execution has done when it comes to write the row.
Result ==
  \A q \in Requests :
    LET a == req[q].action IN
    /\ req[q].pc \in {"find_row", "close"} /\ req[q].ok => tool[a] = "search" \/ writes[a] > 0
    /\ req[q].pc = "history" => tool[a] = "status" /\ writes[a] > 0
    /\ req[q].pc = "record" => workflow[a].status \in {"completed", "failed"}

\* The same for an action that was executed once.
FirstResult ==
  \A a \in Actions : past.attempts[a] = 1 =>
    /\ \A p, q \in Under(a) : p = q
    /\ \A q \in Under(a) :
         /\ req[q].pc = "tool" =>
              writes[a] = 0 /\ workflow[a].status \in {"none", "awaiting_review"}
         /\ req[q].pc \in {"find_row", "close"} /\ ~req[q].ok =>
              writes[a] = 0 \/ tool[a] = "status"

Confirmed ==
  /\ FreshUnknown /\ OneHome /\ ProposerAlone /\ Untried
  /\ SpareExcuse /\ RepeatsExplained /\ ProposalKept

Audited == ClosedOnce /\ Result /\ FirstResult /\ AuditTrue

-----------------------------------------------------------------------------
(* Budgets *)

InFlight == {"check_user", "add_global"}

Charging(r, b) == Head(req[r].due).bucket = b

\* Where uploads do not race, what was found to fit still fits.
StillFits ==
  \A b \in Buckets \ past.raced :
    /\ usage[b][Global] <= limits[b]
    /\ \A r \in Requests : req[r].pc \in InFlight /\ Charging(r, b) =>
         usage[b][Global] + Head(req[r].due).amount <= limits[b]

\* Sums are counted in tokens: n units of a request are n pairs.
Tokens(S, n, f) == {t \in S \X (1..n) : t[2] <= f[t[1]]}
Total(S, n, f) == Cardinality(Tokens(S, n, f))

\* The most one upload adds to a counter.
Most(b) == IF b = "upload" THEN 1
           ELSE CHOOSE n \in {ChunksOf[d] : d \in Docs} : \A d \in Docs : ChunksOf[d] <= n

Amount == [q \in Requests |-> Head(req[q].due).amount]

\* Requests that have read a counter of b and not yet added to it, and those
\* that have added to the counter of everybody but not yet to that of u.
Pend(b) == {q \in Requests : req[q].pc \in InFlight /\ Charging(q, b)}
Behind(b, u) ==
  {q \in Requests : req[q].pc = "add_user" /\ Charging(q, b) /\ req[q].user = u}

Bounded(due) == \A i \in 1..Len(due) : due[i].amount <= Most(due[i].bucket)

DuesBounded == \A q \in Requests : req[q].pc \in Budgeting => Bounded(req[q].due)

\* What is counted and what will be stays within what the others may add.
Overshoot ==
  \A b \in Buckets :
    usage[b][Global] + Total(Pend(b), Most(b), Amount)
      <= limits[b] + (Cardinality(Requests) - 1) * Most(b)

\* What a user is charged, or will be, everybody has been charged.
Covered ==
  \A b \in Buckets, u \in Users :
    usage[b][u] + Total(Behind(b, u), Most(b), Amount) <= usage[b][Global]

Budgeted == DuesBounded /\ StillFits /\ Overshoot /\ Covered

IInv == Typed /\ Whole /\ Confirmed /\ Audited /\ Budgeted

-----------------------------------------------------------------------------
(* What requests know *)

LEMMA EndedType ==
  ASSUME NEW rq \in Request, NEW code \in {"none", "ok", "refused", "error"}
  PROVE  /\ Ended(rq, code) \in Request /\ Shape(Ended(rq, code))
         /\ Ended(rq, code).pc = "done" /\ Ended(rq, code).action = NoAction
         /\ Ended(rq, code).doc = NoDoc /\ Ended(rq, code).stored = 0
<1>1. Idle \in Request
  BY DEF Idle, Request, Budgeting, Confirming
<1>2. EmptyContext \in Context
  BY DEF EmptyContext, Context
<1> DEFINE c == IF rq.ctx = NoContext THEN NoContext ELSE EmptyContext
<1>3. c \in Context \cup {NoContext}
  BY <1>2
<1>4. Ended(rq, code) = IF rq.op = "chat"
        THEN [Idle EXCEPT !.pc = "done", !.code = code, !.op = "chat", !.ctx = c]
        ELSE [Idle EXCEPT !.pc = "done", !.code = code]
  BY DEF Ended
<1> HIDE DEF c
<1>5. Ended(rq, code) \in Request
  <2> DEFINE i0 == [Idle EXCEPT !.pc = "done"]
             i1 == [i0 EXCEPT !.code = code]
             i2 == [i1 EXCEPT !.op = "chat"]
             i3 == [i2 EXCEPT !.ctx = c]
  <2>0. i0 \in Request
    BY <1>1 DEF Request
  <2> HIDE DEF i0
  <2>1. i1 \in Request
    BY <2>0 DEF Request
  <2>2. Ended(rq, code) = IF rq.op = "chat" THEN i3 ELSE i1
    BY <1>4 DEF i0
  <2> HIDE DEF i1
  <2>3. i2 \in Request
    BY <2>1 DEF Request
  <2> HIDE DEF i2
  <2>4. i3 \in Request
    BY <2>3, <1>3 DEF Request
  <2> QED
    BY <2>1, <2>2, <2>4
<1>6. /\ Ended(rq, code).pc = "done" /\ Ended(rq, code).action = NoAction
      /\ Ended(rq, code).op \in {"none", "chat"}
      /\ Ended(rq, code).doc = NoDoc /\ Ended(rq, code).stored = 0
  BY <1>1, <1>4 DEF Request, Idle
<1>7. Shape(Ended(rq, code))
  BY <1>6 DEF Shape, Holding, Budgeting, Confirming
<1> QED
  BY <1>5, <1>6, <1>7

\* Only the request that moves changes.
LEMMA MovedOnly ==
  ASSUME req \in [Requests -> Request], NEW r \in Requests, NEW n, Moves(r, n)
  PROVE  /\ req'[r] = n
         /\ \A q \in Requests \ {r} : req'[q] = req[q]
         /\ \A q \in Requests : req'[q] = IF q = r THEN n ELSE req[q]
BY DEF Moves

LEMMA MoveTyped ==
  ASSUME Typed, NEW r \in Requests, NEW n \in Request, Shape(n), Moves(r, n)
  PROVE  req' \in [Requests -> Request] /\ \A q \in Requests : Shape(req'[q])
<1>1. req \in [Requests -> Request] /\ \A q \in Requests : Shape(req[q])
  BY DEF Typed, TypeOK
<1>2. req' \in [Requests -> Request]
  BY <1>1 DEF Moves
<1>3. \A q \in Requests : req'[q] = IF q = r THEN n ELSE req[q]
  BY <1>1 DEF Moves
<1> QED
  BY <1>1, <1>2, <1>3

StoreTyped ==
  /\ sessions \in [Sessions -> Context]
  /\ documents \in SUBSET Docs
  /\ chunks \in [Docs -> Nat]
  /\ workflow \in [Actions -> Workflow]
  /\ writes \in [Actions -> Nat]
  /\ usage \in [Buckets -> [Users \cup {Global} -> Nat]]

\* What a step is to be shown: its request moves to a request of the right
\* shape, and the rest keeps its type.
Sound(r) ==
  /\ \E n \in Request : Shape(n) /\ Moves(r, n)
  /\ limits' = limits
  /\ tool' \in [Actions -> Kinds \cup {"none"}]
  /\ StoreTyped'
  /\ past' \in Past

LEMMA SoundTyped ==
  ASSUME Typed, NEW r \in Requests, Sound(r)
  PROVE  Typed'
<1>1. PICK n \in Request : Shape(n) /\ Moves(r, n)
  BY DEF Sound
<1>2. req' \in [Requests -> Request] /\ \A q \in Requests : Shape(req'[q])
  BY <1>1, MoveTyped
<1>3. limits' \in [chat: Nat, upload: Nat, openai: Nat, files: SUBSET Docs]
  BY DEF Typed, TypeOK, Sound
<1> QED
  BY <1>2, <1>3 DEF Sound, StoreTyped, Typed, TypeOK

LEMMA StoreKept ==
  ASSUME Typed, UNCHANGED store
  PROVE  StoreTyped'
BY DEF Typed, TypeOK, StoreTyped, store

LEMMA ChargesType ==
  ASSUME Typed, NEW d \in Docs
  PROVE  Charges(d) \in Seq(Charge)
<1>1. /\ limits["upload"] \in Nat /\ limits["openai"] \in Nat /\ ChunksOf[d] \in Nat
  BY ConstantsOK DEF Typed, TypeOK
<1>2. \A b \in Buckets, m \in Nat : Charged(b, m) \in Seq(Charge)
  <2> TAKE b \in Buckets, m \in Nat
  <2>1. [bucket |-> b, amount |-> m] \in Charge
    BY DEF Charge
  <2> QED
    BY <2>1 DEF Charged
<1> QED
  BY <1>1, <1>2 DEF Charges, Buckets

\* A request arrives.
LEMMA ArriveSound ==
  ASSUME Typed, NEW r \in Requests, Arrive(r)
  PROVE  Sound(r)
<1>0. Idle \in Request /\ past \in Past /\ tool \in [Actions -> Kinds \cup {"none"}]
  BY DEF Idle, Request, Budgeting, Confirming, Typed, TypeOK
<1>1. CASE Malformed(r)
  <2>1. Ended(Idle, "refused") \in Request /\ Shape(Ended(Idle, "refused"))
    BY <1>0, EndedType
  <2> QED
    BY <1>0, <1>1, <2>1, StoreKept DEF Malformed, Sound
<1>2. ASSUME NEW s \in Sessions, NEW a \in Actions \cup {NoAction}, Chat(r, s, a)
      PROVE  Sound(r)
  <2> DEFINE rq == [Idle EXCEPT !.op = "chat", !.session = s, !.action = a]
             n == IF HasBudget(a) THEN Ended(rq, "error") ELSE [rq EXCEPT !.pc = "load"]
  <2>1. rq \in Request
    BY <1>0 DEF Request
  <2>2. Ended(rq, "error") \in Request /\ Shape(Ended(rq, "error"))
    BY <2>1, EndedType
  <2>3. [rq EXCEPT !.pc = "load"] \in Request
    BY <2>1 DEF Request
  <2>4. Shape([rq EXCEPT !.pc = "load"])
    BY <1>0 DEF Shape, Request, Holding, Confirming, Budgeting
  <2>5. n \in Request /\ Shape(n)
    BY <2>2, <2>3, <2>4
  <2>6. Moves(r, n) /\ past.arrivals < MaxArrivals /\ past' = Arriving /\ UNCHANGED <<limits, tool, store>>
    BY <1>2 DEF Chat
  <2>7. past' \in Past
    BY <1>0, <2>6, ConstantsOK DEF Past, Arriving
  <2> QED
    BY <1>0, <2>5, <2>6, <2>7, StoreKept DEF Sound
<1>3. ASSUME NEW s \in Sessions \cup {NoSession}, NEW d \in Docs, NEW u \in Users, Upload(r, s, u, d)
      PROVE  Sound(r)
  <2> DEFINE c == Charges(d)
             p == IF c = <<>> THEN "insert_document" ELSE "check_global"
             n == [Idle EXCEPT !.op = "upload", !.session = s, !.user = u, !.doc = d,
                     !.due = c, !.pc = p]
  <2>1. c \in Seq(Charge)
    BY ChargesType
  <2>2. /\ Moves(r, n) /\ past.arrivals < MaxArrivals /\ UNCHANGED <<limits, tool, store>>
        /\ past' = [Arriving EXCEPT !.used = @ \cup {d}]
    BY <1>3 DEF Upload
  <2>3. past' \in Past
    <3>1. Arriving \in Past
      BY <1>0, <2>2, ConstantsOK DEF Past, Arriving
    <3> QED
      BY <2>2, <3>1 DEF Past
  <2>4. p \in {"insert_document", "check_global"} /\ (p = "check_global" => c # <<>>)
    OBVIOUS
  <2> HIDE DEF c, p
  <2>5. n \in Request
    BY <1>0, <2>1, <2>4, ZenonT(40) DEF Request, Budgeting
  <2>6. /\ n.pc = p /\ n.op = "upload" /\ n.user = u /\ n.doc = d /\ n.due = c
        /\ n.action = NoAction
    BY <1>0 DEF Request, Idle
  <2>7. Shape(n)
    BY <2>4, <2>6 DEF Shape, Holding, Confirming, Budgeting
  <2> QED
    BY <1>0, <2>2, <2>3, <2>5, <2>7, StoreKept DEF Sound
<1>4. ASSUME NEW s \in Sessions \cup {NoSession}, NEW d \in Docs, NEW op \in {"select", "delete"},
             SelectOrDelete(r, s, d, op)
      PROVE  Sound(r)
  <2> DEFINE n == [Idle EXCEPT !.pc = "lookup", !.op = op, !.session = s, !.doc = d]
  <2>1. /\ Moves(r, n) /\ past.arrivals < MaxArrivals /\ past' = Arriving
        /\ UNCHANGED <<limits, tool, store>> /\ (op = "select" => s # NoSession)
    BY <1>4 DEF SelectOrDelete
  <2>2. n \in Request
    BY <1>0, ZenonT(40) DEF Request
  <2>3. Shape(n)
    BY <1>0, <2>1 DEF Shape, Request, Idle, Holding, Confirming, Budgeting
  <2>4. past' \in Past
    BY <1>0, <2>1, ConstantsOK DEF Past, Arriving
  <2> QED
    BY <1>0, <2>1, <2>2, <2>3, <2>4, StoreKept DEF Sound
<1> QED
  BY <1>1, <1>2, <1>3, <1>4 DEF Arrive

PCs == {"idle", "insert_document", "chunks", "lookup", "delete_chunks",
        "delete_document", "load", "answering", "row", "step", "save",
        "done"} \cup Budgeting \cup Confirming

\* A request that only moves on keeps the rest of what it knows.
LEMMA OnlyMoves ==
  ASSUME NEW rq \in Request, NEW p \in PCs
  PROVE  LET n == [rq EXCEPT !.pc = p] IN
         /\ n \in Request
         /\ n.pc = p /\ n.op = rq.op /\ n.session = rq.session /\ n.user = rq.user
         /\ n.action = rq.action /\ n.doc = rq.doc /\ n.due = rq.due
         /\ n.stored = rq.stored /\ n.ctx = rq.ctx /\ n.ok = rq.ok
BY DEF Request, PCs

LEMMA RequestTyped ==
  ASSUME Typed, NEW r \in Requests
  PROVE  /\ req[r] \in Request /\ Shape(req[r])
         /\ past \in Past /\ tool \in [Actions -> Kinds \cup {"none"}]
         /\ StoreTyped
BY DEF Typed, TypeOK, StoreTyped

LEMMA HandleDocumentSound ==
  ASSUME Typed, NEW r \in Requests, HandleDocument(r)
  PROVE  Sound(r)
<1>0. /\ req[r] \in Request /\ Shape(req[r])
      /\ past \in Past /\ tool \in [Actions -> Kinds \cup {"none"}]
      /\ StoreTyped
  BY RequestTyped
<1>g. ASSUME NEW p \in {"check_user", "add_global", "add_user", "chunks", "delete_chunks",
                        "delete_document", "load"},
             \/ (req[r].pc \in Budgeting /\ p \in Budgeting)
             \/ (req[r].pc = "insert_document" /\ p = "chunks")
             \/ (req[r].pc = "lookup" /\ req[r].op = "select" /\ p = "load")
             \/ (req[r].pc = "lookup" /\ req[r].op # "select" /\ p = "delete_chunks")
             \/ (req[r].pc = "delete_chunks" /\ p = "delete_document")
      PROVE  Goto(r, p) \in Request /\ Shape(Goto(r, p))
  <2>1. p \in PCs
    BY DEF PCs, Budgeting
  <2>2. /\ Goto(r, p) \in Request
        /\ Goto(r, p).pc = p /\ Goto(r, p).op = req[r].op /\ Goto(r, p).session = req[r].session
        /\ Goto(r, p).user = req[r].user /\ Goto(r, p).action = req[r].action /\ Goto(r, p).doc = req[r].doc
        /\ Goto(r, p).due = req[r].due /\ Goto(r, p).ctx = req[r].ctx
    BY <1>0, <2>1, OnlyMoves DEF Goto
  <2>3. Shape(Goto(r, p))
    BY <1>0, <1>g, <2>2 DEF Shape, Holding, Confirming, Budgeting
  <2> QED
    BY <2>2, <2>3
<1>e. \A code \in {"none", "ok", "refused", "error"} :
        Ended(req[r], code) \in Request /\ Shape(Ended(req[r], code))
  BY <1>0, EndedType
<1>a. ASSUME req[r].pc \in {"chunks", "delete_document"}
      PROVE  AfterDocument(r) \in Request /\ Shape(AfterDocument(r))
  <2>1. CASE req[r].session = NoSession
    BY <1>e, <2>1 DEF AfterDocument
  <2>2. CASE req[r].session # NoSession
    <3> DEFINE g == [req[r] EXCEPT !.pc = "load"]
               n == [g EXCEPT !.stored = 0]
    <3>1. AfterDocument(r) = n
      BY <2>2 DEF AfterDocument, Goto
    <3>2. /\ g \in Request /\ g.pc = "load" /\ g.op = req[r].op /\ g.session = req[r].session
          /\ g.action = req[r].action /\ g.doc = req[r].doc
      BY <1>0, OnlyMoves DEF PCs
    <3> HIDE DEF g
    <3>3. /\ n \in Request /\ n.pc = "load" /\ n.op = req[r].op /\ n.session = req[r].session
          /\ n.action = req[r].action /\ n.doc = req[r].doc
      BY <3>2 DEF Request
    <3>4. req[r].session \in Sessions
      BY <1>0, <2>2 DEF Request
    <3> HIDE DEF n
    <3>5. Shape(n)
      BY <1>0, <1>a, <3>3, <3>4 DEF Shape, Holding, Confirming, Budgeting
    <3> QED
      BY <3>1, <3>3, <3>5
  <2> QED
    BY <2>1, <2>2
<1>1. ASSUME NEW p \in {"check_global", "check_user"}, NEW k,
             NEW next \in {"check_user", "add_global"}, Check(r, p, k, next)
      PROVE  Sound(r)
  <2>1. req[r].pc \in Budgeting /\ next \in Budgeting
    BY <1>1 DEF Check, At, Budgeting
  <2>2. \E n \in Request : Shape(n) /\ Moves(r, n)
    BY <1>1, <1>g, <1>e, <2>1 DEF Check
  <2>3. limits' = limits /\ tool' = tool /\ past' = past /\ UNCHANGED store
    BY <1>1 DEF Check
  <2> QED
    BY <1>0, <2>2, <2>3, StoreKept DEF Sound
<1>c. req[r].pc \in Budgeting => /\ Head(req[r].due) \in Charge
                                 /\ Tail(req[r].due) \in Seq(Charge)
  BY <1>0 DEF Shape, Request
<1>u. ASSUME req[r].pc \in Budgeting, NEW k \in Users \cup {Global}, Counted(r, k)
      PROVE  usage' \in [Buckets -> [Users \cup {Global} -> Nat]]
  <2>1. Head(req[r].due).bucket \in Buckets /\ Head(req[r].due).amount \in Nat
    BY <1>u, <1>c DEF Charge
  <2> DEFINE b == Head(req[r].due).bucket
             m == Head(req[r].due).amount
  <2>2. usage' = [usage EXCEPT ![b][k] = @ + m]
    BY <1>u DEF Counted
  <2> HIDE DEF b, m
  <2>3. usage[b] \in [Users \cup {Global} -> Nat] /\ usage[b][k] + m \in Nat
    <3>1. b \in Buckets /\ m \in Nat
      BY <2>1 DEF b, m
    <3>2. usage[b] \in [Users \cup {Global} -> Nat]
      BY <1>0, <3>1 DEF StoreTyped
    <3>3. usage[b][k] \in Nat
      BY <3>2, <1>u
    <3> QED
      BY <3>1, <3>2, <3>3
  <2>4. [usage[b] EXCEPT ![k] = @ + m] \in [Users \cup {Global} -> Nat]
    BY <2>3
  <2>5. usage' = [usage EXCEPT ![b] = [usage[b] EXCEPT ![k] = @ + m]]
    BY <2>2
  <2> QED
    BY <1>0, <2>4, <2>5 DEF StoreTyped
<1>2. CASE AddGlobal(r)
  <2>1. req[r].pc = "add_global" /\ req[r].pc \in Budgeting
    BY <1>2 DEF AddGlobal, At, Budgeting
  <2>2. usage' \in [Buckets -> [Users \cup {Global} -> Nat]]
    BY <1>2, <1>u, <2>1 DEF AddGlobal
  <2>3. Moves(r, Goto(r, "add_user"))
    BY <1>2 DEF AddGlobal
  <2>4. Goto(r, "add_user") \in Request /\ Shape(Goto(r, "add_user"))
    BY <1>g, <2>1 DEF Budgeting
  <2>5. Head(req[r].due).bucket \in Buckets
    BY <1>c, <2>1 DEF Charge
  <2>6. past' \in Past
    BY <1>0, <1>2, <2>5 DEF AddGlobal, Past
  <2>7. StoreTyped'
    BY <1>0, <1>2, <2>2 DEF AddGlobal, StoreTyped
  <2> QED
    BY <1>0, <1>2, <2>3, <2>4, <2>6, <2>7 DEF Sound, AddGlobal
<1>3. CASE AddUser(r)
  <2> DEFINE rest == Tail(req[r].due)
             p == IF rest = <<>> THEN "insert_document" ELSE "check_global"
             g == [req[r] EXCEPT !.due = rest]
             n == [g EXCEPT !.pc = p]
  <2>1. req[r].pc = "add_user" /\ req[r].pc \in Budgeting
    BY <1>3 DEF AddUser, At, Budgeting
  <2>2. req[r].user \in Users
    BY <1>0, <2>1 DEF Shape
  <2>3. usage' \in [Buckets -> [Users \cup {Global} -> Nat]]
    BY <1>3, <1>u, <2>1, <2>2 DEF AddUser
  <2>4. Moves(r, n)
    BY <1>3 DEF AddUser
  <2>5. rest \in Seq(Charge) /\ (p = "check_global" => rest # <<>>)
        /\ p \in {"insert_document", "check_global"}
    BY <1>c, <2>1
  <2> HIDE DEF rest, p
  <2>6. /\ g \in Request /\ g.due = rest /\ g.op = req[r].op /\ g.session = req[r].session
        /\ g.user = req[r].user /\ g.action = req[r].action /\ g.doc = req[r].doc
    BY <1>0, <2>5 DEF Request
  <2> HIDE DEF g
  <2>7. /\ n \in Request /\ n.pc = p /\ n.due = rest /\ n.op = req[r].op
        /\ n.session = req[r].session /\ n.user = req[r].user /\ n.action = req[r].action
        /\ n.doc = req[r].doc
    BY <2>5, <2>6, OnlyMoves, ZenonT(40) DEF PCs, Budgeting
  <2> HIDE DEF n
  <2>8. Shape(n)
    BY <1>0, <2>1, <2>5, <2>7 DEF Shape, Holding, Confirming, Budgeting
  <2>9. StoreTyped'
    BY <1>0, <1>3, <2>3 DEF AddUser, StoreTyped
  <2> QED
    BY <1>0, <1>3, <2>4, <2>7, <2>8, <2>9 DEF Sound, AddUser
<1>d. req[r].pc \in {"insert_document", "chunks", "delete_chunks", "delete_document", "lookup"} =>
        req[r].doc \in Docs
  BY <1>0 DEF Shape
<1>4. CASE InsertDocument(r)
  <2>1. Goto(r, "chunks") \in Request /\ Shape(Goto(r, "chunks")) /\ Moves(r, Goto(r, "chunks"))
    BY <1>4, <1>g DEF InsertDocument, At
  <2>2. StoreTyped'
    BY <1>0, <1>4, <1>d DEF InsertDocument, StoreTyped, At
  <2> QED
    BY <1>0, <1>4, <2>1, <2>2 DEF InsertDocument, Sound
<1>5. CASE ChunkFails(r) \/ DeleteRefused(r)
  <2>1. /\ req[r].pc \in {"chunks", "delete_document"}
        /\ Moves(r, Ended(req[r], "error")) /\ UNCHANGED <<limits, tool, store>>
        /\ past' = [past EXCEPT !.broken = @ \cup {req[r].doc}]
    BY <1>5 DEF ChunkFails, DeleteRefused, At
  <2>2. past' \in Past
    BY <1>0, <1>d, <2>1 DEF Past
  <2> QED
    BY <1>0, <1>e, <2>1, <2>2, StoreKept DEF Sound
<1>6. CASE StoreChunk(r)
  <2> DEFINE n == [req[r] EXCEPT !.stored = @ + 1]
  <2>1. req[r].pc = "chunks"
    BY <1>6 DEF StoreChunk, At
  <2>2. /\ n \in Request /\ n.pc = "chunks" /\ n.op = req[r].op /\ n.session = req[r].session
        /\ n.action = req[r].action /\ n.doc = req[r].doc
    BY <1>0, <2>1 DEF Request
  <2>3. Moves(r, IF MoreChunks(r) THEN n ELSE AfterDocument(r))
    BY <1>6 DEF StoreChunk
  <2> HIDE DEF n
  <2>4. Shape(n)
    BY <1>0, <2>1, <2>2 DEF Shape, Holding, Confirming, Budgeting
  <2>5. \E m \in Request : Shape(m) /\ Moves(r, m)
    BY <1>a, <2>1, <2>2, <2>3, <2>4
  <2>6. StoreTyped'
    <3>1. chunks' = [chunks EXCEPT ![req[r].doc] = @ + 1] /\ req[r].doc \in Docs
      BY <1>6, <1>d, <2>1 DEF StoreChunk
    <3>2. chunks' \in [Docs -> Nat]
      BY <1>0, <3>1 DEF StoreTyped
    <3> QED
      BY <1>0, <1>6, <3>2 DEF StoreChunk, StoreTyped
  <2> QED
    BY <1>0, <1>6, <2>5, <2>6 DEF StoreChunk, Sound
<1>7. CASE Lookup(r)
  <2>1. req[r].pc = "lookup"
    BY <1>7 DEF Lookup, At
  <2>2. \E m \in Request : Shape(m) /\ Moves(r, m)
    BY <1>7, <1>g, <1>e, <2>1 DEF Lookup
  <2> QED
    BY <1>0, <1>7, <2>2, StoreKept DEF Lookup, Sound
<1>8. CASE DeleteChunks(r)
  <2>1. Goto(r, "delete_document") \in Request /\ Shape(Goto(r, "delete_document"))
        /\ Moves(r, Goto(r, "delete_document"))
    BY <1>8, <1>g DEF DeleteChunks, At
  <2>2. StoreTyped'
    BY <1>0, <1>8, <1>d DEF DeleteChunks, StoreTyped, At
  <2> QED
    BY <1>0, <1>8, <2>1, <2>2 DEF DeleteChunks, Sound
<1>9. CASE DeleteDocument(r)
  <2>1. AfterDocument(r) \in Request /\ Shape(AfterDocument(r)) /\ Moves(r, AfterDocument(r))
    BY <1>9, <1>a DEF DeleteDocument, At
  <2>2. StoreTyped'
    BY <1>0, <1>9, <1>d DEF DeleteDocument, StoreTyped, At
  <2> QED
    BY <1>0, <1>9, <2>1, <2>2 DEF DeleteDocument, Sound
<1>10. CASE LoadToChange(r)
  <2> DEFINE c == Changed(req[r], sessions[req[r].session])
             g == [req[r] EXCEPT !.pc = "save"]
             n == [g EXCEPT !.ctx = c]
  <2>1. /\ req[r].pc = "load" /\ req[r].op # "chat" /\ Moves(r, n)
        /\ UNCHANGED <<limits, tool, store, past>>
    BY <1>10 DEF LoadToChange, At
  <2>2. req[r].session \in Sessions /\ req[r].op # "none" /\ req[r].doc \in Docs
    BY <1>0, <2>1 DEF Shape, Request
  <2>3. sessions[req[r].session] \in Context
    BY <1>0, <2>2 DEF StoreTyped
  <2>4. c \in Context
    BY <2>2, <2>3 DEF Changed, Context
  <2> HIDE DEF c
  <2>5. /\ g \in Request /\ g.pc = "save" /\ g.op = req[r].op /\ g.session = req[r].session
        /\ g.action = req[r].action /\ g.doc = req[r].doc
    BY <1>0, OnlyMoves DEF PCs
  <2> HIDE DEF g
  <2>6. /\ n \in Request /\ n.pc = "save" /\ n.op = req[r].op /\ n.session = req[r].session
        /\ n.action = req[r].action /\ n.doc = req[r].doc /\ n.ctx = c
    BY <2>4, <2>5 DEF Request
  <2> HIDE DEF n
  <2>7. Shape(n)
    BY <1>0, <2>1, <2>2, <2>4, <2>6 DEF Shape, Holding, Confirming, Budgeting
  <2> QED
    BY <1>0, <2>1, <2>6, <2>7, StoreKept DEF Sound
<1> QED
  BY <1>1, <1>2, <1>3, <1>4, <1>5, <1>6, <1>7, <1>8, <1>9, <1>10 DEF HandleDocument

\* What a step that carries out a confirmed action does to the request.
Executes(r) ==
  \E n \in Request :
    /\ req[r].pc \in Confirming /\ Moves(r, n) /\ Shape(n)
    /\ n.pc \in Confirming \cup {"save"}
    /\ n.op = req[r].op /\ n.session = req[r].session /\ n.action = req[r].action
    /\ n.doc = req[r].doc /\ n.ctx = req[r].ctx

Executing(r) ==
  ToolFails(r) \/ ToolSearches(r) \/ ToolWrites(r) \/ HistoryWrites(r)
  \/ FindRow(r) \/ Close(r) \/ RecordStep(r)

LEMMA ExecutingMoves ==
  ASSUME Typed, NEW r \in Requests, Executing(r)
  PROVE  Executes(r)
<1>0. req[r] \in Request /\ Shape(req[r])
  BY RequestTyped
<1>1. req[r].pc \in Confirming
  BY DEF Executing, ToolFails, ToolSearches, ToolWrites, HistoryWrites, FindRow, Close,
         RecordStep, At, Confirming
<1>2. ASSUME NEW p \in Confirming \cup {"save"}, Moves(r, Goto(r, p))
      PROVE  Executes(r)
  <2> DEFINE n == Goto(r, p)
  <2>1. /\ n \in Request /\ n.pc = p /\ n.op = req[r].op /\ n.session = req[r].session
        /\ n.action = req[r].action /\ n.doc = req[r].doc /\ n.ctx = req[r].ctx
    BY <1>0, OnlyMoves DEF PCs, Goto
  <2> HIDE DEF n
  <2>2. Shape(n)
    BY <1>0, <1>1, <2>1 DEF Shape, Holding, Confirming, Budgeting
  <2> QED
    BY <1>1, <1>2, <2>1, <2>2 DEF Executes, n
<1>3. ASSUME NEW ok \in BOOLEAN, Moves(r, WithResult(r, ok))
      PROVE  Executes(r)
  <2> DEFINE g == [req[r] EXCEPT !.pc = "find_row"]
             n == [g EXCEPT !.ok = ok]
  <2>1. WithResult(r, ok) = n
    BY DEF WithResult
  <2>2. /\ g \in Request /\ g.pc = "find_row" /\ g.op = req[r].op /\ g.session = req[r].session
        /\ g.action = req[r].action /\ g.doc = req[r].doc /\ g.ctx = req[r].ctx
    BY <1>0, OnlyMoves DEF PCs, Confirming
  <2> HIDE DEF g
  <2>3. /\ n \in Request /\ n.pc = "find_row" /\ n.op = req[r].op /\ n.session = req[r].session
        /\ n.action = req[r].action /\ n.doc = req[r].doc /\ n.ctx = req[r].ctx
    BY <1>3, <2>2 DEF Request
  <2> HIDE DEF n
  <2>4. Shape(n)
    BY <1>0, <1>1, <2>3 DEF Shape, Holding, Confirming, Budgeting
  <2>5. "find_row" \in Confirming
    BY DEF Confirming
  <2> QED
    BY <1>1, <1>3, <2>1, <2>3, <2>4, <2>5 DEF Executes
<1>4. CASE ToolFails(r) \/ ToolSearches(r) \/ HistoryWrites(r)
  BY <1>3, <1>4 DEF ToolFails, ToolSearches, HistoryWrites
<1>5. CASE ToolWrites(r)
  BY <1>2, <1>3, <1>5 DEF ToolWrites, Confirming
<1>6. CASE FindRow(r) \/ Close(r) \/ RecordStep(r)
  BY <1>2, <1>6 DEF FindRow, Close, RecordStep, Confirming
<1> QED
  BY <1>4, <1>5, <1>6 DEF Executing

LEMMA ExecutingSound ==
  ASSUME Typed, NEW r \in Requests, Executing(r)
  PROVE  Sound(r)
<1>0. /\ req[r] \in Request /\ Shape(req[r])
      /\ past \in Past /\ tool \in [Actions -> Kinds \cup {"none"}]
      /\ StoreTyped
  BY RequestTyped
<1>1. /\ req[r].pc \in Confirming /\ req[r].action \in Actions
      /\ \E n \in Request : Shape(n) /\ Moves(r, n)
  <2>1. req[r].pc \in Confirming /\ \E n \in Request : Shape(n) /\ Moves(r, n)
    BY ExecutingMoves DEF Executes
  <2> QED
    BY <1>0, <2>1 DEF Shape
<1> DEFINE a == req[r].action
<1>2. a \in Actions
  BY <1>1
<1> HIDE DEF a
<1>3. workflow[a] \in Workflow /\ writes[a] \in Nat
  BY <1>0, <1>2 DEF StoreTyped
<1>4. CASE UNCHANGED <<limits, tool, store, past>>
  BY <1>0, <1>1, <1>4, StoreKept DEF Sound
<1>5. CASE ToolWrites(r)
  <2>1. /\ writes' = [writes EXCEPT ![a] = @ + 1]
        /\ UNCHANGED <<limits, tool, sessions, documents, chunks, workflow, usage, past>>
    BY <1>5 DEF ToolWrites, a
  <2>2. writes' \in [Actions -> Nat]
    <3>1. writes \in [Actions -> Nat]
      BY <1>0 DEF StoreTyped
    <3> QED
      BY <1>2, <1>3, <2>1, <3>1
  <2> QED
    BY <1>0, <1>1, <2>1, <2>2 DEF Sound, StoreTyped
<1>6. ASSUME NEW w \in Workflow, workflow' = [workflow EXCEPT ![a] = w],
             UNCHANGED <<limits, tool, sessions, documents, chunks, writes, usage, past>>
      PROVE  Sound(r)
  <2>1. workflow' \in [Actions -> Workflow]
    BY <1>0, <1>6 DEF StoreTyped
  <2> QED
    BY <1>0, <1>1, <1>6, <2>1 DEF Sound, StoreTyped
<1>7. CASE Close(r)
  <2> DEFINE o == Outcome(req[r])
             w == [workflow[a] EXCEPT !.status = o]
  <2>1. o \in Status
    BY DEF Outcome, Status
  <2>2. /\ workflow' = [workflow EXCEPT ![a] = w]
        /\ UNCHANGED <<limits, tool, sessions, documents, chunks, writes, usage, past>>
    BY <1>7 DEF Close, a
  <2> HIDE DEF o
  <2>3. w \in Workflow
    BY <1>3, <2>1 DEF Workflow
  <2> HIDE DEF w
  <2> QED
    BY <1>6, <2>2, <2>3
<1>8. CASE RecordStep(r)
  <2> DEFINE w == [workflow[a] EXCEPT !.closings = @ + 1]
  <2>1. /\ workflow' = [workflow EXCEPT ![a] = w]
        /\ UNCHANGED <<limits, tool, sessions, documents, chunks, writes, usage, past>>
    BY <1>8 DEF RecordStep, a
  <2>2. w \in Workflow
    BY <1>3 DEF Workflow
  <2> HIDE DEF w
  <2> QED
    BY <1>6, <2>1, <2>2
<1> QED
  BY <1>4, <1>5, <1>7, <1>8 DEF Executing, ToolFails, ToolSearches, HistoryWrites, FindRow

\* Only r moves: to p, working on a, with the context c.
Becomes(r, p, a, c) ==
  /\ \A q \in Requests \ {r} : req'[q] = req[q]
  /\ req'[r].pc = p /\ req'[r].op = req[r].op /\ req'[r].session = req[r].session
  /\ req'[r].action = a /\ req'[r].ctx = c

\* Only r moves, and has no session loaded afterwards.
Leaves(r) ==
  /\ \A q \in Requests \ {r} : req'[q] = req[q]
  /\ req'[r].pc \notin Holding \cup InFlight \cup {"chunks", "delete_document"}

LEMMA EndsAs ==
  ASSUME Typed, NEW r \in Requests, NEW code \in {"ok", "refused", "error"},
         Moves(r, Ended(req[r], code))
  PROVE  /\ Leaves(r) /\ req'[r].pc = "done" /\ req'[r].action = NoAction
         /\ \E n \in Request : Shape(n) /\ Moves(r, n)
<1>1. req \in [Requests -> Request]
  BY DEF Typed, TypeOK
<1>2. /\ Ended(req[r], code) \in Request /\ Shape(Ended(req[r], code))
      /\ Ended(req[r], code).pc = "done" /\ Ended(req[r], code).action = NoAction
  BY RequestTyped, EndedType
<1>3. req'[r] = Ended(req[r], code) /\ \A q \in Requests \ {r} : req'[q] = req[q]
  BY <1>1, MovedOnly
<1> QED
  BY <1>2, <1>3 DEF Leaves, Holding, Confirming, InFlight

\* A request that goes on with the session and the operation it has.
LEMMA GoesOnAs ==
  ASSUME Typed, NEW r \in Requests, NEW n \in Request, Shape(n), Moves(r, n),
         n.op = req[r].op, n.session = req[r].session
  PROVE  /\ Becomes(r, n.pc, n.action, n.ctx)
         /\ \E m \in Request : Shape(m) /\ Moves(r, m)
BY MovedOnly DEF Becomes, Typed, TypeOK

\* Moving on within a chat.
LEMMA ChatGoesOn ==
  ASSUME Typed, NEW r \in Requests, NEW p \in {"step", "save"}, Moves(r, Goto(r, p)),
         \/ (req[r].pc = "answering" /\ p = "save")
         \/ (req[r].pc = "row" /\ p = "step")
         \/ (req[r].pc = "step" /\ p = "save")
  PROVE  /\ Becomes(r, p, req[r].action, req[r].ctx)
         /\ \E m \in Request : Shape(m) /\ Moves(r, m)
<1>0. req[r] \in Request /\ Shape(req[r])
  BY RequestTyped
<1> DEFINE n == Goto(r, p)
<1>1. /\ n \in Request /\ n.pc = p /\ n.op = req[r].op /\ n.session = req[r].session
      /\ n.action = req[r].action /\ n.doc = req[r].doc /\ n.ctx = req[r].ctx
  BY <1>0, OnlyMoves DEF PCs, Goto
<1> HIDE DEF n
<1>2. Shape(n)
  BY <1>0, <1>1 DEF Shape, Holding, Confirming, Budgeting
<1>3. Moves(r, n)
  BY DEF n
<1>4. /\ Becomes(r, n.pc, n.action, n.ctx)
      /\ \E m \in Request : Shape(m) /\ Moves(r, m)
  BY <1>1, <1>2, <1>3, GoesOnAs
<1> QED
  BY <1>1, <1>4

LEMMA ReplySound ==
  ASSUME Typed, NEW r \in Requests, Reply(r)
  PROVE  Sound(r) /\ Becomes(r, "save", req[r].action, req[r].ctx)
<1>1. req[r].pc = "answering" /\ Moves(r, Goto(r, "save")) /\ UNCHANGED <<limits, tool, store, past>>
  BY DEF Reply, At
<1>2. /\ Becomes(r, "save", req[r].action, req[r].ctx)
      /\ \E m \in Request : Shape(m) /\ Moves(r, m)
  BY <1>1, ChatGoesOn
<1> QED
  BY <1>1, <1>2, RequestTyped, StoreKept DEF Sound

LEMMA InsertStepSound ==
  ASSUME Typed, NEW r \in Requests, InsertStep(r)
  PROVE  Sound(r) /\ Becomes(r, "save", req[r].action, req[r].ctx)
<1>1. req[r].pc = "step" /\ Moves(r, Goto(r, "save"))
      /\ UNCHANGED <<limits, tool, sessions, documents, chunks, writes, usage, past>>
      /\ workflow' = [workflow EXCEPT ![req[r].action].proposals = 1]
  BY DEF InsertStep, At
<1>2. /\ Becomes(r, "save", req[r].action, req[r].ctx)
      /\ \E m \in Request : Shape(m) /\ Moves(r, m)
  BY <1>1, ChatGoesOn
<1>3. workflow' \in [Actions -> Workflow]
  <2>1. workflow \in [Actions -> Workflow]
    BY RequestTyped DEF StoreTyped
  <2>2. \A w \in Workflow : [w EXCEPT !.proposals = 1] \in Workflow
    BY DEF Workflow
  <2> QED
    BY <1>1, <2>1, <2>2
<1> QED
  BY <1>1, <1>2, <1>3, RequestTyped DEF Sound, StoreTyped

LEMMA InsertRowSound ==
  ASSUME Typed, NEW r \in Requests, InsertRow(r)
  PROVE  Sound(r) /\ Becomes(r, "step", req[r].action, req[r].ctx)
<1> DEFINE w == [NoRow EXCEPT !.status = "awaiting_review", !.session = req[r].session,
                              !.source = req[r].doc]
<1>1. req[r].pc = "row" /\ Moves(r, Goto(r, "step"))
      /\ UNCHANGED <<limits, tool, sessions, documents, chunks, writes, usage, past>>
      /\ workflow' = [workflow EXCEPT ![req[r].action] = w]
  BY DEF InsertRow, At
<1>2. /\ Becomes(r, "step", req[r].action, req[r].ctx)
      /\ \E m \in Request : Shape(m) /\ Moves(r, m)
  BY <1>1, ChatGoesOn
<1>3. w \in Workflow
  <2>1. req[r].session \in Sessions \cup {NoSession} /\ req[r].doc \in Docs \cup {NoDoc}
    BY RequestTyped DEF Request
  <2>2. NoRow \in Workflow
    BY DEF NoRow, Workflow, Status
  <2> DEFINE w1 == [NoRow EXCEPT !.status = "awaiting_review"]
             w2 == [w1 EXCEPT !.session = req[r].session]
             w3 == [w2 EXCEPT !.source = req[r].doc]
  <2>3. w1 \in Workflow
    BY <2>2 DEF Workflow, Status
  <2>4. w = w3
    OBVIOUS
  <2> HIDE DEF w1
  <2>5. w2 \in Workflow
    BY <2>1, <2>3 DEF Workflow
  <2> HIDE DEF w2
  <2>6. w3 \in Workflow
    BY <2>1, <2>5 DEF Workflow
  <2> HIDE DEF w, w3
  <2> QED
    BY <2>4, <2>6
<1> HIDE DEF w
<1>4. workflow' \in [Actions -> Workflow]
  BY <1>1, <1>3, RequestTyped DEF StoreTyped
<1> QED
  BY <1>1, <1>2, <1>4, RequestTyped DEF Sound, StoreTyped

LEMMA LoadToAnswerSound ==
  ASSUME Typed, NEW r \in Requests, LoadToAnswer(r)
  PROVE  Sound(r) /\ Becomes(r, "answering", NoAction, sessions[req[r].session])
<1>0. /\ req[r] \in Request /\ Shape(req[r])
      /\ past \in Past /\ tool \in [Actions -> Kinds \cup {"none"}]
      /\ StoreTyped
  BY RequestTyped
<1> DEFINE c == sessions[req[r].session]
           g == [req[r] EXCEPT !.pc = "answering"]
           n == [g EXCEPT !.ctx = c]
<1>1. /\ req[r].pc = "load" /\ req[r].op = "chat" /\ req[r].action = NoAction
      /\ Moves(r, n) /\ UNCHANGED <<limits, tool, store, past>>
  BY DEF LoadToAnswer, At
<1>2. req[r].session \in Sessions /\ c \in Context
  BY <1>0, <1>1 DEF Shape, StoreTyped
<1> HIDE DEF c
<1>3. /\ g \in Request /\ g.pc = "answering" /\ g.op = "chat"
      /\ g.session = req[r].session /\ g.action = NoAction
  BY <1>0, <1>1, OnlyMoves DEF PCs
<1> HIDE DEF g
<1>4. /\ n \in Request /\ n.pc = "answering" /\ n.op = "chat"
      /\ n.session = req[r].session /\ n.action = NoAction /\ n.ctx = c
  BY <1>2, <1>3 DEF Request
<1> HIDE DEF n
<1>5. Shape(n)
  BY <1>0, <1>1, <1>2, <1>4 DEF Shape, Holding, Confirming, Budgeting
<1>6. /\ Becomes(r, n.pc, n.action, n.ctx)
      /\ \E m \in Request : Shape(m) /\ Moves(r, m)
  BY <1>1, <1>4, <1>5, GoesOnAs
<1>7. Sound(r)
  BY <1>0, <1>1, <1>6, StoreKept DEF Sound
<1> QED
  BY <1>4, <1>6, <1>7 DEF c

LEMMA LoadToChangeAs ==
  ASSUME Typed, NEW r \in Requests, LoadToChange(r)
  PROVE  \E c \in Context :
           /\ Becomes(r, "save", NoAction, c)
           /\ c.pending = sessions[req[r].session].pending
<1>0. /\ req[r] \in Request /\ Shape(req[r]) /\ StoreTyped
  BY RequestTyped
<1> DEFINE c == Changed(req[r], sessions[req[r].session])
           g == [req[r] EXCEPT !.pc = "save"]
           n == [g EXCEPT !.ctx = c]
<1>1. /\ req[r].pc = "load" /\ req[r].op # "chat" /\ Moves(r, n)
  BY DEF LoadToChange, At
<1>2. /\ req[r].session \in Sessions /\ req[r].op # "none" /\ req[r].doc \in Docs
      /\ req[r].action = NoAction
  BY <1>0, <1>1 DEF Shape, Request
<1>3. sessions[req[r].session] \in Context
  BY <1>0, <1>2 DEF StoreTyped
<1>4. c \in Context /\ c.pending = sessions[req[r].session].pending
  BY <1>2, <1>3 DEF Changed, Context
<1> HIDE DEF c
<1>5. /\ g \in Request /\ g.pc = "save" /\ g.op = req[r].op /\ g.session = req[r].session
      /\ g.action = NoAction
  BY <1>0, <1>2, OnlyMoves DEF PCs
<1> HIDE DEF g
<1>6. /\ n \in Request /\ n.pc = "save" /\ n.op = req[r].op /\ n.session = req[r].session
      /\ n.action = NoAction /\ n.ctx = c
  BY <1>4, <1>5 DEF Request
<1> HIDE DEF n
<1>7. Becomes(r, "save", NoAction, c)
  BY <1>1, <1>6, MovedOnly DEF Becomes, Typed, TypeOK
<1> QED
  BY <1>4, <1>7

LEMMA ProposeSound ==
  ASSUME Typed, NEW r \in Requests, NEW a \in Actions, NEW kind \in Kinds,
         NEW d \in Docs \cup {NoDoc}, Propose(r, a, kind, d)
  PROVE  Sound(r) /\ Becomes(r, "row", a, Proposed(req[r].ctx, a))
<1>0. /\ req[r] \in Request /\ Shape(req[r])
      /\ past \in Past /\ tool \in [Actions -> Kinds \cup {"none"}]
      /\ StoreTyped
  BY RequestTyped
<1> DEFINE e == IF d # NoDoc THEN d ELSE req[r].ctx.current
           c == Proposed(req[r].ctx, a)
           n1 == [req[r] EXCEPT !.pc = "row"]
           n2 == [n1 EXCEPT !.action = a]
           n3 == [n2 EXCEPT !.ctx = c]
           n == [n3 EXCEPT !.doc = e]
<1>1. /\ req[r].pc = "answering" /\ UNCHANGED <<limits, store>>
      /\ tool' = [tool EXCEPT ![a] = kind] /\ past' = [past EXCEPT !.used = @ \cup {a}]
  BY DEF Propose, At
<1>2. req[r].session \in Sessions /\ req[r].ctx \in Context /\ req[r].op = "chat"
  BY <1>0, <1>1 DEF Shape, Holding
<1>3. c \in Context /\ a \in c.pending /\ e \in Docs \cup {NoDoc}
  BY <1>2 DEF Proposed, Context
<1>4. n1 \in Request /\ n1.pc = "row" /\ n1.op = "chat" /\ n1.session = req[r].session
      /\ n1.ctx = req[r].ctx
  BY <1>0, <1>2, OnlyMoves DEF PCs
<1>5. Moves(r, n)
  <2>1. req' = [req EXCEPT ![r] = [req[r] EXCEPT !.pc = "row", !.action = a,
          !.ctx = Proposed(@, a), !.doc = e]]
    BY DEF Propose, Moves
  <2>2. n2.ctx = req[r].ctx
    BY <1>4 DEF Request
  <2>3. [req[r] EXCEPT !.pc = "row", !.action = a, !.ctx = Proposed(@, a), !.doc = e] = n
    BY <1>0 DEF Request
  <2> HIDE DEF n
  <2> QED
    BY <2>1, <2>3 DEF Moves
<1> HIDE DEF c, e, n1
<1>6. n2 \in Request /\ n2.pc = "row" /\ n2.op = "chat" /\ n2.session = req[r].session
      /\ n2.action = a
  BY <1>4 DEF Request
<1> HIDE DEF n2
<1>7. n3 \in Request /\ n3.pc = "row" /\ n3.op = "chat" /\ n3.session = req[r].session
      /\ n3.action = a /\ n3.ctx = c
  BY <1>3, <1>6 DEF Request
<1> HIDE DEF n3
<1>8. n \in Request /\ n.pc = "row" /\ n.op = "chat" /\ n.session = req[r].session
      /\ n.action = a /\ n.ctx = c
  BY <1>3, <1>7 DEF Request
<1> HIDE DEF n
<1>9. Shape(n)
  BY <1>2, <1>3, <1>8 DEF Shape, Holding, Confirming, Budgeting
<1>10. /\ Becomes(r, n.pc, n.action, n.ctx)
       /\ \E m \in Request : Shape(m) /\ Moves(r, m)
  BY <1>2, <1>5, <1>8, <1>9, GoesOnAs
<1>11. past' \in Past /\ tool' \in [Actions -> Kinds \cup {"none"}]
  BY <1>0, <1>1 DEF Past
<1>12. Sound(r)
  BY <1>1, <1>10, <1>11, StoreKept DEF Sound
<1> QED
  BY <1>8, <1>10, <1>12 DEF c

\* A confirmation that does not find its action in the session.
NotFound(r) ==
  /\ req[r].pc = "load" /\ req[r].action \in Actions
  /\ req[r].action \notin sessions[req[r].session].pending
  /\ Becomes(r, "save", NoAction, sessions[req[r].session])
  /\ past' = past

\* One that does, and takes it out of its copy of the session.
Found(r) ==
  LET a == req[r].action IN
  /\ req[r].pc = "load" /\ a \in Actions /\ req[r].op = "chat"
  /\ a \in sessions[req[r].session].pending
  /\ Becomes(r, "tool", a, Popped(sessions[req[r].session], a))
  /\ past' = [past EXCEPT !.attempts[a] = @ + 1,
       !.excuses[a] = @ + (IF Under(a) = {} THEN 0 ELSE 1),
       !.overlapped = @ \cup {x \in {a} : Under(a) # {}}]

LEMMA LoadToConfirmSound ==
  ASSUME Typed, NEW r \in Requests, LoadToConfirm(r)
  PROVE  Sound(r) /\ (NotFound(r) \/ Found(r))
<1>0. /\ req[r] \in Request /\ Shape(req[r])
      /\ past \in Past /\ tool \in [Actions -> Kinds \cup {"none"}]
      /\ StoreTyped
  BY RequestTyped
<1> DEFINE a == req[r].action
           s == sessions[req[r].session]
<1>1. req[r].pc = "load" /\ a # NoAction /\ UNCHANGED <<limits, tool, store>>
  BY DEF LoadToConfirm, At
<1>2. /\ req[r].session \in Sessions /\ req[r].op = "chat" /\ a \in Actions /\ s \in Context
  <2>1. req[r].session \in Sessions /\ req[r].op = "chat" /\ a \in Actions
    BY <1>0, <1>1 DEF Shape, Request
  <2> QED
    BY <1>0, <2>1 DEF StoreTyped
<1>3. CASE a \notin s.pending
  <2> DEFINE g == [req[r] EXCEPT !.pc = "save"]
             h == [g EXCEPT !.ctx = s]
             n == [h EXCEPT !.action = NoAction]
  <2>1. Moves(r, n) /\ past' = past
    BY <1>3 DEF LoadToConfirm
  <2>2. g \in Request /\ g.pc = "save" /\ g.op = "chat" /\ g.session = req[r].session
    BY <1>0, <1>2, OnlyMoves DEF PCs
  <2> HIDE DEF g
  <2>3. h \in Request /\ h.pc = "save" /\ h.op = "chat" /\ h.session = req[r].session
        /\ h.ctx = s
    BY <1>2, <2>2 DEF Request
  <2> HIDE DEF h
  <2>4. n \in Request /\ n.pc = "save" /\ n.op = "chat" /\ n.session = req[r].session
        /\ n.ctx = s /\ n.action = NoAction
    BY <2>3 DEF Request
  <2> HIDE DEF n
  <2>5. Shape(n)
    BY <1>2, <2>4 DEF Shape, Holding, Confirming, Budgeting
  <2>6. /\ Becomes(r, n.pc, n.action, n.ctx)
        /\ \E m \in Request : Shape(m) /\ Moves(r, m)
    BY <1>2, <2>1, <2>4, <2>5, GoesOnAs
  <2>7. NotFound(r)
    BY <1>1, <1>2, <1>3, <2>1, <2>4, <2>6 DEF NotFound
  <2>8. Sound(r)
    BY <1>0, <1>1, <2>1, <2>6, StoreKept DEF Sound
  <2> QED
    BY <2>7, <2>8
<1>4. CASE a \in s.pending
  <2> DEFINE c == Popped(s, a)
             g == [req[r] EXCEPT !.pc = "tool"]
             n == [g EXCEPT !.ctx = c]
  <2>1. /\ Moves(r, n)
        /\ past' = [past EXCEPT !.attempts[a] = @ + 1,
             !.excuses[a] = @ + (IF Under(a) = {} THEN 0 ELSE 1),
             !.overlapped = @ \cup {x \in {a} : Under(a) # {}}]
    BY <1>4 DEF LoadToConfirm
  <2>2. c \in Context /\ a \notin c.pending
    BY <1>2 DEF Popped, Context
  <2> HIDE DEF c
  <2>3. g \in Request /\ g.pc = "tool" /\ g.op = "chat" /\ g.session = req[r].session
        /\ g.action = a
    BY <1>0, <1>2, OnlyMoves DEF PCs, Confirming
  <2> HIDE DEF g
  <2>4. n \in Request /\ n.pc = "tool" /\ n.op = "chat" /\ n.session = req[r].session
        /\ n.action = a /\ n.ctx = c
    BY <2>2, <2>3 DEF Request
  <2> HIDE DEF n
  <2>5. Shape(n)
    BY <1>2, <2>2, <2>4 DEF Shape, Holding, Confirming, Budgeting
  <2>6. /\ Becomes(r, n.pc, n.action, n.ctx)
        /\ \E m \in Request : Shape(m) /\ Moves(r, m)
    BY <1>2, <2>1, <2>4, <2>5, GoesOnAs
  <2>7. Found(r)
    BY <1>1, <1>2, <1>4, <2>1, <2>4, <2>6 DEF Found, c
  <2>8. past' \in Past
    <3> DEFINE at == [past.attempts EXCEPT ![a] = @ + 1]
               m == IF Under(a) = {} THEN 0 ELSE 1
               ex == [past.excuses EXCEPT ![a] = @ + m]
               ov == past.overlapped \cup {x \in {a} : Under(a) # {}}
               p1 == [past EXCEPT !.attempts = at]
               p2 == [p1 EXCEPT !.excuses = ex]
               p3 == [p2 EXCEPT !.overlapped = ov]
    <3>1. past' = p3
      BY <1>0, <2>1 DEF Past
    <3>2. m \in Nat
      OBVIOUS
    <3> HIDE DEF m
    <3>3. at \in [Actions -> Nat] /\ ex \in [Actions -> Nat] /\ ov \in SUBSET Actions
      BY <1>0, <1>2, <3>2 DEF Past
    <3> HIDE DEF at, ex, ov
    <3>4. p1 \in Past
      BY <1>0, <3>3 DEF Past
    <3> HIDE DEF p1
    <3>5. p2 \in Past
      BY <3>3, <3>4 DEF Past
    <3> HIDE DEF p2
    <3>6. p3 \in Past
      BY <3>3, <3>5 DEF Past
    <3> HIDE DEF p3
    <3> QED
      BY <3>1, <3>6
  <2>9. Sound(r)
    BY <1>0, <1>1, <2>6, <2>8, StoreKept DEF Sound
  <2> QED
    BY <2>7, <2>9
<1> QED
  BY <1>3, <1>4

LEMMA SaveSound ==
  ASSUME Typed, NEW r \in Requests, Save(r)
  PROVE  Sound(r) /\ Leaves(r)
<1>0. /\ req[r] \in Request /\ Shape(req[r])
      /\ past \in Past /\ tool \in [Actions -> Kinds \cup {"none"}]
      /\ StoreTyped
  BY RequestTyped
<1> DEFINE ex == [a \in Actions |-> past.excuses[a] + IF a \in Revived(req[r]) THEN 1 ELSE 0]
           lo == past.lost \cup Dropped(req[r])
           p1 == [past EXCEPT !.lost = lo]
           p2 == [p1 EXCEPT !.excuses = ex]
<1>1. /\ req[r].pc = "save"
      /\ sessions' = [sessions EXCEPT ![req[r].session] = req[r].ctx]
      /\ Moves(r, Ended(req[r], "ok"))
      /\ UNCHANGED <<limits, tool, documents, chunks, workflow, writes, usage>>
  BY DEF Save, At
<1>2. past' = p2
  <2>1. past' = [past EXCEPT !.lost = @ \cup Dropped(req[r]),
       !.excuses = [a \in Actions |-> @[a] + IF a \in Revived(req[r]) THEN 1 ELSE 0]]
    BY DEF Save
  <2> QED
    BY <1>0, <2>1 DEF Past
<1>3. req[r].session \in Sessions /\ req[r].ctx \in Context
  BY <1>0, <1>1 DEF Shape, Holding
<1>4. sessions' \in [Sessions -> Context] /\ sessions[req[r].session] \in Context
  BY <1>0, <1>1, <1>3 DEF StoreTyped
<1>5. lo \in SUBSET Actions /\ ex \in [Actions -> Nat]
  <2>1. Dropped(req[r]) \in SUBSET Actions
    BY <1>4 DEF Dropped, Context
  <2>2. past.lost \in SUBSET Actions /\ past.excuses \in [Actions -> Nat]
    BY <1>0 DEF Past
  <2> QED
    BY <2>1, <2>2
<1> HIDE DEF lo, ex
<1>6. p1 \in Past
  BY <1>0, <1>5 DEF Past
<1> HIDE DEF p1
<1>7. p2 \in Past
  BY <1>5, <1>6 DEF Past
<1> HIDE DEF p2
<1>8. Leaves(r) /\ \E n \in Request : Shape(n) /\ Moves(r, n)
  BY <1>1, EndsAs
<1>9. Sound(r)
  BY <1>0, <1>1, <1>2, <1>4, <1>7, <1>8 DEF Sound, StoreTyped
<1> QED
  BY <1>8, <1>9

LEMMA AbortSound ==
  ASSUME Typed, NEW r \in Requests, Abort(r)
  PROVE  /\ Sound(r) /\ Leaves(r)
         /\ past'.attempts = past.attempts /\ past'.used = past.used
         /\ past'.overlapped = past.overlapped /\ past'.raced = past.raced
         /\ past'.excuses = [a \in Actions |-> past.excuses[a] + IF r \in Under(a) THEN 1 ELSE 0]
         /\ past'.lost = past.lost \cup {a \in {req[r].action} :
              a # NoAction /\ req[r].pc \in {"step", "save"} /\ a \in req[r].ctx.pending}
         /\ past'.broken = past.broken \cup {d \in {req[r].doc} :
              req[r].pc \in {"chunks", "delete_document"}}
<1>0. /\ req[r] \in Request /\ Shape(req[r])
      /\ past \in Past /\ tool \in [Actions -> Kinds \cup {"none"}]
      /\ StoreTyped
  BY RequestTyped
<1> DEFINE ex == [a \in Actions |-> past.excuses[a] + IF r \in Under(a) THEN 1 ELSE 0]
           lo == past.lost \cup {a \in {req[r].action} :
              a # NoAction /\ req[r].pc \in {"step", "save"} /\ a \in req[r].ctx.pending}
           br == past.broken \cup {d \in {req[r].doc} :
              req[r].pc \in {"chunks", "delete_document"}}
           ab == past.aborts + 1
           p1 == [past EXCEPT !.aborts = ab]
           p2 == [p1 EXCEPT !.broken = br]
           p3 == [p2 EXCEPT !.lost = lo]
           p4 == [p3 EXCEPT !.excuses = ex]
<1>1. /\ req[r].pc \notin {"idle", "done"} /\ past.aborts < MaxAborts
      /\ Moves(r, Ended(req[r], "error"))
      /\ UNCHANGED <<limits, tool, store>>
  BY DEF Abort
<1>2. past' = p4
  <2>1. past' = [past EXCEPT !.aborts = @ + 1,
       !.broken = @ \cup {d \in {req[r].doc} : req[r].pc \in {"chunks", "delete_document"}},
       !.lost = @ \cup {a \in {req[r].action} :
                          a # NoAction /\ req[r].pc \in {"step", "save"} /\ a \in req[r].ctx.pending},
       !.excuses = [a \in Actions |-> @[a] + IF r \in Under(a) THEN 1 ELSE 0]]
    BY DEF Abort
  <2> QED
    BY <1>0, <2>1 DEF Past
<1>3. /\ ab \in 0..MaxAborts /\ br \in SUBSET Docs /\ lo \in SUBSET Actions
      /\ ex \in [Actions -> Nat]
  <2>1. /\ past.aborts \in 0..MaxAborts /\ past.broken \in SUBSET Docs
        /\ past.lost \in SUBSET Actions /\ past.excuses \in [Actions -> Nat]
    BY <1>0 DEF Past
  <2>2. ab \in 0..MaxAborts
    BY <1>1, <2>1, ConstantsOK
  <2>3. br \in SUBSET Docs
    BY <1>0, <2>1 DEF Shape
  <2>4. lo \in SUBSET Actions
    BY <1>0, <2>1 DEF Request
  <2>5. ex \in [Actions -> Nat]
    BY <2>1
  <2> QED
    BY <2>2, <2>3, <2>4, <2>5
<1> HIDE DEF ab, br, lo, ex
<1>4. p1 \in Past /\ p1.attempts = past.attempts /\ p1.used = past.used
      /\ p1.overlapped = past.overlapped /\ p1.raced = past.raced
  BY <1>0, <1>3 DEF Past
<1> HIDE DEF p1
<1>5. p2 \in Past /\ p2.attempts = past.attempts /\ p2.used = past.used
      /\ p2.overlapped = past.overlapped /\ p2.raced = past.raced /\ p2.broken = br
  BY <1>3, <1>4 DEF Past
<1> HIDE DEF p2
<1>6. p3 \in Past /\ p3.attempts = past.attempts /\ p3.used = past.used
      /\ p3.overlapped = past.overlapped /\ p3.raced = past.raced /\ p3.broken = br
      /\ p3.lost = lo
  BY <1>3, <1>5 DEF Past
<1> HIDE DEF p3
<1>7. p4 \in Past /\ p4.attempts = past.attempts /\ p4.used = past.used
      /\ p4.overlapped = past.overlapped /\ p4.raced = past.raced /\ p4.broken = br
      /\ p4.lost = lo /\ p4.excuses = ex
  BY <1>3, <1>6 DEF Past
<1> HIDE DEF p4
<1>8. Leaves(r) /\ \E n \in Request : Shape(n) /\ Moves(r, n)
  BY <1>1, EndsAs
<1>9. Sound(r)
  BY <1>0, <1>1, <1>2, <1>7, <1>8, StoreKept DEF Sound
<1> QED
  BY <1>2, <1>7, <1>8, <1>9 DEF ex, lo, br

\* The other ways a request ends.
LEMMA EndSound ==
  ASSUME Typed, NEW r \in Requests, Respond(r) \/ AnswerFails(r) \/ RowRefused(r)
  PROVE  Sound(r) /\ Leaves(r)
<1>0. UNCHANGED <<limits, tool, store, past>>
  BY DEF Respond, AnswerFails, RowRefused
<1>1. Leaves(r) /\ \E n \in Request : Shape(n) /\ Moves(r, n)
  <2>1. CASE AnswerFails(r) \/ RowRefused(r)
    BY <2>1, EndsAs DEF AnswerFails, RowRefused
  <2>2. CASE Respond(r)
    <3>1. Idle \in Request /\ Shape(Idle)
      BY DEF Idle, Request, Shape, Holding, Budgeting, Confirming
    <3>2. Moves(r, Idle) /\ req \in [Requests -> Request]
      BY <2>2 DEF Respond, Typed, TypeOK
    <3>3. req'[r] = Idle /\ \A q \in Requests \ {r} : req'[q] = req[q]
      BY <3>2, MovedOnly
    <3> QED
      BY <3>1, <3>2, <3>3 DEF Leaves, Holding, Confirming, InFlight, Idle
  <2> QED
    BY <2>1, <2>2
<1> QED
  BY <1>0, <1>1, RequestTyped, StoreKept DEF Sound

LEMMA TypedStep ==
  ASSUME Typed, [Next]_vars
  PROVE  Typed'
<1>1. CASE UNCHANGED vars
  BY <1>1 DEF vars, Typed, TypeOK
<1>2. ASSUME NEW r \in Requests,
             Arrive(r) \/ HandleDocument(r) \/ HandleChat(r) \/ Save(r) \/ Abort(r) \/ Respond(r)
      PROVE  Typed'
  <2>1. ASSUME NEW a \in Actions, NEW kind \in Kinds, NEW d \in Docs \cup {NoDoc},
               Propose(r, a, kind, d)
        PROVE  Sound(r)
    BY <2>1, ProposeSound
  <2>2. HandleChat(r) => Sound(r)
    BY <2>1, LoadToAnswerSound, LoadToConfirmSound, ReplySound, EndSound, InsertRowSound,
       InsertStepSound, ExecutingSound DEF HandleChat, Executing
  <2>3. Sound(r)
    BY <1>2, <2>2, ArriveSound, HandleDocumentSound, SaveSound, AbortSound, EndSound
  <2> QED
    BY <2>3, SoundTyped
<1> QED
  BY <1>1, <1>2 DEF Next

-----------------------------------------------------------------------------
(* Documents: an upload's rows are accounted for *)

\* Only r moves, to p; it keeps the rest.
GoesTo(r, p) ==
  /\ \A q \in Requests \ {r} : req'[q] = req[q]
  /\ req'[r].pc = p /\ req'[r].op = req[r].op /\ req'[r].session = req[r].session
  /\ req'[r].user = req[r].user /\ req'[r].action = req[r].action /\ req'[r].doc = req[r].doc
  /\ req'[r].due = req[r].due /\ req'[r].stored = req[r].stored /\ req'[r].ctx = req[r].ctx
  /\ req'[r].ok = req[r].ok

LEMMA GotoGoes ==
  ASSUME Typed, NEW r \in Requests, NEW p \in PCs, Moves(r, Goto(r, p))
  PROVE  GoesTo(r, p)
<1>1. req \in [Requests -> Request] /\ req[r] \in Request
  BY DEF Typed, TypeOK
<1> DEFINE n == Goto(r, p)
<1>2. /\ n.pc = p /\ n.op = req[r].op /\ n.session = req[r].session /\ n.user = req[r].user
      /\ n.action = req[r].action /\ n.doc = req[r].doc /\ n.due = req[r].due
      /\ n.stored = req[r].stored /\ n.ctx = req[r].ctx /\ n.ok = req[r].ok
  BY <1>1, OnlyMoves DEF Goto
<1> HIDE DEF n
<1>3. Moves(r, n)
  BY DEF n
<1> QED
  BY <1>1, <1>2, <1>3, MovedOnly DEF GoesTo

DocumentPCs ==
  Budgeting \cup {"insert_document", "chunks", "delete_chunks", "delete_document"}

\* A step that has nothing to do with documents.
Quiet(r) ==
  /\ documents' = documents /\ chunks' = chunks /\ past'.broken = past.broken
  /\ past.used \subseteq past'.used
  /\ \A q \in Requests \ {r} : req'[q] = req[q]
  /\ req[r].pc \notin DocumentPCs /\ req'[r].pc \notin DocumentPCs

LEMMA QuietWhole ==
  ASSUME Typed, Whole, NEW r \in Requests, Quiet(r)
  PROVE  Whole'
<1>1. \A q \in Requests, d \in Docs :
        /\ Uploads(q, d)' <=> Uploads(q, d)
        /\ Deletes(q, d)' <=> Deletes(q, d)
        /\ q # r => req'[q] = req[q]
        /\ Uploads(q, d) => q # r
        /\ Deletes(q, d) => q # r
  BY DEF Quiet, Uploads, Deletes, DocumentPCs
<1>2. OneUpload'
  BY <1>1 DEF Whole, OneUpload, Quiet
<1>3. Accounted'
  <2> SUFFICES ASSUME NEW d \in documents
               PROVE  \/ d \in past'.broken
                      \/ \E q \in Requests : req'[q].pc = "delete_document" /\ req'[q].doc = d
                      \/ \E q \in Requests :
                           req'[q].pc = "chunks" /\ req'[q].doc = d /\ chunks'[d] = req'[q].stored
                      \/ (\A q \in Requests : ~Uploads(q, d)') /\ chunks'[d] = ChunksOf[d]
    BY DEF Accounted, Quiet
  <2>1. d \in Docs
    BY DEF Typed, TypeOK
  <2>2. CASE d \in past.broken
    BY <2>2 DEF Quiet
  <2>3. ASSUME NEW q \in Requests, req[q].pc = "delete_document", req[q].doc = d
        PROVE  req'[q].pc = "delete_document" /\ req'[q].doc = d
    BY <2>3 DEF Quiet, DocumentPCs
  <2>4. ASSUME NEW q \in Requests, req[q].pc = "chunks", req[q].doc = d,
               chunks[d] = req[q].stored
        PROVE  req'[q].pc = "chunks" /\ req'[q].doc = d /\ chunks'[d] = req'[q].stored
    BY <2>4 DEF Quiet, DocumentPCs
  <2>5. CASE (\A q \in Requests : ~Uploads(q, d)) /\ chunks[d] = ChunksOf[d]
    BY <1>1, <2>1, <2>5 DEF Quiet
  <2> QED
    BY <2>2, <2>3, <2>4, <2>5 DEF Whole, Accounted
<1>4. Unfinished'
  BY DEF Whole, Unfinished, Quiet, DocumentPCs
<1> QED
  BY <1>2, <1>3, <1>4 DEF Whole

\* A request that ends, or breaks off and says so.
LEMMA EndWhole ==
  ASSUME Typed, Whole, NEW r \in Requests, Leaves(r),
         req'[r].pc \notin DocumentPCs,
         documents' = documents, chunks' = chunks, past'.used = past.used,
         past.broken \subseteq past'.broken,
         req[r].pc \in {"chunks", "delete_document"} => req[r].doc \in past'.broken
  PROVE  Whole'
<1>1. \A q \in Requests : q # r => req'[q] = req[q]
  BY DEF Leaves
<1>2. \A q \in Requests, d \in Docs :
        /\ Uploads(q, d)' => Uploads(q, d) /\ q # r
        /\ Deletes(q, d)' => Deletes(q, d) /\ q # r
  BY <1>1 DEF Uploads, Deletes, DocumentPCs
<1>3. OneUpload'
  <2> SUFFICES ASSUME NEW d \in Docs
               PROVE  /\ d \in documents' => d \in past'.used
                      /\ \A q \in Requests : Deletes(q, d)' => d \in past'.used
                      /\ \A p \in Requests : Uploads(p, d)' =>
                           /\ d \in past'.used
                           /\ \A q \in Requests \ {p} : ~Uploads(q, d)'
                           /\ req'[p].pc # "chunks" =>
                                /\ d \notin documents' /\ chunks'[d] = 0 /\ req'[p].stored = 0
                                /\ \A q \in Requests : ~Deletes(q, d)'
                      /\ d \notin past'.used => chunks'[d] = 0
    BY DEF OneUpload
  <2> QED
    BY <1>1, <1>2 DEF Whole, OneUpload
<1>4. Accounted'
  <2> SUFFICES ASSUME NEW d \in documents
               PROVE  \/ d \in past'.broken
                      \/ \E q \in Requests : req'[q].pc = "delete_document" /\ req'[q].doc = d
                      \/ \E q \in Requests :
                           req'[q].pc = "chunks" /\ req'[q].doc = d /\ chunks'[d] = req'[q].stored
                      \/ (\A q \in Requests : ~Uploads(q, d)') /\ chunks'[d] = ChunksOf[d]
    BY DEF Accounted
  <2>1. d \in Docs
    BY DEF Typed, TypeOK
  <2>2. CASE d \in past.broken
    BY <2>2
  <2>3. ASSUME NEW q \in Requests, req[q].pc = "delete_document", req[q].doc = d
        PROVE  d \in past'.broken \/ (req'[q].pc = "delete_document" /\ req'[q].doc = d)
    BY <1>1, <2>3
  <2>4. ASSUME NEW q \in Requests, req[q].pc = "chunks", req[q].doc = d,
               chunks[d] = req[q].stored
        PROVE  \/ d \in past'.broken
               \/ req'[q].pc = "chunks" /\ req'[q].doc = d /\ chunks'[d] = req'[q].stored
    BY <1>1, <2>4
  <2>5. CASE (\A q \in Requests : ~Uploads(q, d)) /\ chunks[d] = ChunksOf[d]
    BY <1>2, <2>1, <2>5
  <2> QED
    BY <2>2, <2>3, <2>4, <2>5 DEF Whole, Accounted
<1>5. Unfinished'
  BY <1>1 DEF Whole, Unfinished, DocumentPCs
<1> QED
  BY <1>3, <1>4, <1>5 DEF Whole

LEMMA UploadWhole ==
  ASSUME Typed, Whole, NEW r \in Requests, NEW s \in Sessions \cup {NoSession},
         NEW u \in Users, NEW d \in Docs, Upload(r, s, u, d)
  PROVE  /\ Whole'
         /\ req'[r].pc \in {"insert_document", "check_global"}
         /\ \A q \in Requests \ {r} : req'[q] = req[q]
<1> DEFINE c == Charges(d)
           p == IF c = <<>> THEN "insert_document" ELSE "check_global"
           n == [Idle EXCEPT !.op = "upload", !.session = s, !.user = u, !.doc = d,
                   !.due = c, !.pc = p]
<1>1. /\ req[r].pc = "idle" /\ d \notin past.used /\ Moves(r, n)
      /\ UNCHANGED <<documents, chunks>>
      /\ past' = [Arriving EXCEPT !.used = @ \cup {d}]
  BY DEF Upload, At, store
<1>2. p \in {"insert_document", "check_global"}
  OBVIOUS
<1> HIDE DEF c, p
<1>3. n.pc = p /\ n.doc = d /\ n.stored = 0
  BY DEF Idle
<1> HIDE DEF n
<1>4. req'[r] = n /\ \A q \in Requests \ {r} : req'[q] = req[q]
  BY <1>1, MovedOnly DEF Typed, TypeOK
<1>5. past'.used = past.used \cup {d} /\ past'.broken = past.broken
  <2>1. past \in Past
    BY RequestTyped
  <2>2. Arriving.used = past.used /\ Arriving.broken = past.broken /\ Arriving \in [used: {past.used}, attempts: {past.attempts},
         excuses: {past.excuses}, lost: {past.lost}, overlapped: {past.overlapped},
         broken: {past.broken}, raced: {past.raced}, aborts: {past.aborts},
         arrivals: {past.arrivals + 1}]
    BY <2>1 DEF Arriving, Past
  <2> QED
    BY <1>1, <2>2
<1>6. \A e \in Docs, q \in Requests :
        /\ Uploads(q, e)' <=> (IF q = r THEN e = d ELSE Uploads(q, e))
        /\ Deletes(q, e)' <=> Deletes(q, e)
        /\ ~Uploads(r, e) /\ ~Deletes(r, e)
  BY <1>1, <1>2, <1>3, <1>4 DEF Uploads, Deletes, Budgeting
<1>7. OneUpload'
  <2> SUFFICES ASSUME NEW e \in Docs
               PROVE  /\ e \in documents => e \in past'.used
                      /\ \A q \in Requests : Deletes(q, e) => e \in past'.used
                      /\ \A x \in Requests : Uploads(x, e)' =>
                           /\ e \in past'.used
                           /\ \A q \in Requests \ {x} : ~Uploads(q, e)'
                           /\ req'[x].pc # "chunks" =>
                                /\ e \notin documents /\ chunks[e] = 0 /\ req'[x].stored = 0
                                /\ \A q \in Requests : ~Deletes(q, e)
                      /\ e \notin past'.used => chunks[e] = 0
    BY <1>1, <1>6 DEF OneUpload
  <2>1. CASE e # d
    BY <1>4, <1>5, <1>6, <2>1 DEF Whole, OneUpload
  <2>2. CASE e = d
    <3>1. /\ d \notin documents /\ chunks[d] = 0
          /\ \A q \in Requests : ~Deletes(q, d) /\ ~Uploads(q, d)
      BY <1>1 DEF Whole, OneUpload
    <3> QED
      BY <1>3, <1>4, <1>5, <1>6, <2>2, <3>1
  <2> QED
    BY <2>1, <2>2
<1>8. Accounted'
  <2> SUFFICES ASSUME NEW e \in documents
               PROVE  \/ e \in past'.broken
                      \/ \E q \in Requests : req'[q].pc = "delete_document" /\ req'[q].doc = e
                      \/ \E q \in Requests :
                           req'[q].pc = "chunks" /\ req'[q].doc = e /\ chunks[e] = req'[q].stored
                      \/ (\A q \in Requests : ~Uploads(q, e)') /\ chunks[e] = ChunksOf[e]
    BY <1>1 DEF Accounted
  <2>1. e \in Docs /\ e # d
    BY <1>1 DEF Typed, TypeOK, Whole, OneUpload
  <2>2. \A q \in Requests : req[q].pc \in {"chunks", "delete_document"} => req'[q] = req[q]
    BY <1>1, <1>4
  <2> QED
    BY <1>5, <1>6, <2>1, <2>2 DEF Whole, Accounted
<1>9. Unfinished'
  BY <1>2, <1>3, <1>4 DEF Whole, Unfinished
<1> QED
  BY <1>2, <1>3, <1>4, <1>7, <1>8, <1>9 DEF Whole

\* An upload on its way to the document it inserts.
LEMMA ChargingWhole ==
  ASSUME Typed, Whole, NEW r \in Requests,
         \A q \in Requests \ {r} : req'[q] = req[q],
         req[r].pc \in Budgeting, req'[r].pc \in Budgeting \cup {"insert_document"},
         req'[r].doc = req[r].doc, req'[r].stored = req[r].stored,
         documents' = documents, chunks' = chunks,
         past'.used = past.used, past'.broken = past.broken
  PROVE  Whole'
<1>1. \A e \in Docs, q \in Requests :
        /\ Uploads(q, e)' <=> Uploads(q, e)
        /\ Deletes(q, e)' <=> Deletes(q, e)
        /\ req[q].pc \in {"chunks", "delete_document"} => req'[q] = req[q]
        /\ req'[q].pc # "chunks" => req[q].pc # "chunks"
        /\ req'[q].stored = req[q].stored
  BY DEF Uploads, Deletes, Budgeting
<1>2. OneUpload'
  <2> SUFFICES ASSUME NEW e \in Docs
               PROVE  /\ e \in documents => e \in past.used
                      /\ \A q \in Requests : Deletes(q, e) => e \in past.used
                      /\ \A x \in Requests : Uploads(x, e) =>
                           /\ e \in past.used
                           /\ \A q \in Requests \ {x} : ~Uploads(q, e)
                           /\ req'[x].pc # "chunks" =>
                                /\ e \notin documents /\ chunks[e] = 0 /\ req'[x].stored = 0
                                /\ \A q \in Requests : ~Deletes(q, e)
                      /\ e \notin past.used => chunks[e] = 0
    BY <1>1 DEF OneUpload
  <2> QED
    BY <1>1 DEF Whole, OneUpload
<1>3. Accounted'
  <2> SUFFICES ASSUME NEW e \in documents
               PROVE  \/ e \in past.broken
                      \/ \E q \in Requests : req'[q].pc = "delete_document" /\ req'[q].doc = e
                      \/ \E q \in Requests :
                           req'[q].pc = "chunks" /\ req'[q].doc = e /\ chunks[e] = req'[q].stored
                      \/ (\A q \in Requests : ~Uploads(q, e)') /\ chunks[e] = ChunksOf[e]
    BY DEF Accounted
  <2>1. e \in Docs
    BY DEF Typed, TypeOK
  <2> QED
    BY <1>1, <2>1 DEF Whole, Accounted
<1>4. Unfinished'
  BY DEF Whole, Unfinished, Budgeting
<1> QED
  BY <1>2, <1>3, <1>4 DEF Whole

LEMMA InsertDocumentWhole ==
  ASSUME Typed, Whole, NEW r \in Requests, InsertDocument(r)
  PROVE  Whole' /\ GoesTo(r, "chunks")
<1> DEFINE d == req[r].doc
<1>1. /\ req[r].pc = "insert_document" /\ documents' = documents \cup {d}
      /\ chunks' = chunks /\ past' = past /\ Moves(r, Goto(r, "chunks"))
  BY DEF InsertDocument, At
<1>2. GoesTo(r, "chunks")
  BY <1>1, GotoGoes DEF PCs
<1>3. d \in Docs /\ Uploads(r, d)
  BY <1>1, RequestTyped DEF Shape, Uploads
<1>4. /\ d \in past.used /\ d \notin documents /\ chunks[d] = 0 /\ req[r].stored = 0
      /\ \A q \in Requests : ~Deletes(q, d) /\ (q # r => ~Uploads(q, d))
  BY <1>1, <1>3 DEF Whole, OneUpload
<1>5. \A e \in Docs, q \in Requests :
        /\ Uploads(q, e)' <=> Uploads(q, e)
        /\ Deletes(q, e)' <=> Deletes(q, e)
        /\ req[q].pc \in {"chunks", "delete_document"} => req'[q] = req[q]
        /\ Uploads(q, e) /\ req'[q].pc # "chunks" => q # r /\ req[q].pc # "chunks"
        /\ req'[q].stored = req[q].stored
  BY <1>1, <1>2 DEF Uploads, Deletes, Budgeting, GoesTo
<1>6. OneUpload'
  <2> SUFFICES ASSUME NEW e \in Docs
               PROVE  /\ e \in documents' => e \in past.used
                      /\ \A q \in Requests : Deletes(q, e) => e \in past.used
                      /\ \A x \in Requests : Uploads(x, e) =>
                           /\ e \in past.used
                           /\ \A q \in Requests \ {x} : ~Uploads(q, e)
                           /\ req'[x].pc # "chunks" =>
                                /\ e \notin documents' /\ chunks[e] = 0 /\ req'[x].stored = 0
                                /\ \A q \in Requests : ~Deletes(q, e)
                      /\ e \notin past.used => chunks[e] = 0
    BY <1>1, <1>5 DEF OneUpload
  <2> QED
    BY <1>1, <1>4, <1>5 DEF Whole, OneUpload
<1>7. Accounted'
  <2> SUFFICES ASSUME NEW e \in documents'
               PROVE  \/ e \in past.broken
                      \/ \E q \in Requests : req'[q].pc = "delete_document" /\ req'[q].doc = e
                      \/ \E q \in Requests :
                           req'[q].pc = "chunks" /\ req'[q].doc = e /\ chunks[e] = req'[q].stored
                      \/ (\A q \in Requests : ~Uploads(q, e)') /\ chunks[e] = ChunksOf[e]
    BY <1>1 DEF Accounted
  <2>1. CASE e = d
    <3>1. req'[r].pc = "chunks" /\ req'[r].doc = d /\ chunks[d] = req'[r].stored
      BY <1>2, <1>4 DEF GoesTo
    <3> QED
      BY <2>1, <3>1
  <2>2. CASE e # d
    <3>1. e \in documents /\ e \in Docs
      BY <1>1, <2>2 DEF Typed, TypeOK
    <3> QED
      BY <1>5, <3>1 DEF Whole, Accounted
  <2> QED
    BY <2>1, <2>2
<1>8. Unfinished'
  <2>1. 0 < ChunksOf[d]
    BY <1>3, ConstantsOK
  <2> QED
    BY <1>2, <1>4, <2>1 DEF Whole, Unfinished, GoesTo
<1> QED
  BY <1>2, <1>6, <1>7, <1>8 DEF Whole

LEMMA StoreChunkWhole ==
  ASSUME Typed, Whole, NEW r \in Requests, StoreChunk(r)
  PROVE  /\ Whole'
         /\ \A q \in Requests \ {r} : req'[q] = req[q]
         /\ req'[r].pc \in {"chunks", "load", "done"}
<1>0. req[r].doc \in Docs /\ req[r].pc = "chunks"
  BY RequestTyped DEF StoreChunk, At, Shape
<1>d. PICK d \in Docs : d = req[r].doc
  BY <1>0
<1> DEFINE g == [req[r] EXCEPT !.stored = @ + 1]
           n == IF MoreChunks(r) THEN g ELSE AfterDocument(r)
<1>1. /\ req[r].pc = "chunks" /\ d \in documents /\ chunks' = [chunks EXCEPT ![d] = @ + 1]
      /\ documents' = documents /\ past' = past /\ Moves(r, n)
  BY <1>d DEF StoreChunk, At
<1>2. req[r] \in Request /\ d \in Docs /\ Uploads(r, d) /\ req[r].stored \in Nat
  BY <1>1, <1>d, RequestTyped DEF Uploads, Request
<1>3. g.pc = "chunks" /\ g.doc = d /\ g.stored = req[r].stored + 1
  BY <1>1, <1>2, <1>d DEF Request
<1>4. AfterDocument(r).pc \in {"load", "done"}
  <2>1. Ended(req[r], "ok").pc = "done"
    BY <1>2, EndedType
  <2>2. [Goto(r, "load") EXCEPT !.stored = 0].pc = "load"
    BY <1>2 DEF Goto, Request
  <2> QED
    BY <2>1, <2>2 DEF AfterDocument
<1>5. req'[r] = n /\ \A q \in Requests \ {r} : req'[q] = req[q]
  BY <1>1, MovedOnly DEF Typed, TypeOK
<1> HIDE DEF g
<1>6. /\ MoreChunks(r) => req'[r].pc = "chunks" /\ req'[r].doc = d
                          /\ req'[r].stored = req[r].stored + 1
      /\ ~MoreChunks(r) => req'[r].pc \in {"load", "done"}
  BY <1>3, <1>4, <1>5
<1>7. /\ chunks'[d] = chunks[d] + 1
      /\ \A e \in Docs \ {d} : chunks'[e] = chunks[e]
  BY <1>1, <1>2 DEF Typed, TypeOK
<1>8. /\ d \in past.used
      /\ \A q \in Requests \ {r} : ~Uploads(q, d)
  BY <1>2 DEF Whole, OneUpload
<1> HIDE DEF n
<1>9. \A e \in Docs, q \in Requests :
        /\ Uploads(q, e)' => Uploads(q, e)
        /\ Deletes(q, e)' <=> Deletes(q, e)
        /\ q # r => req'[q] = req[q] /\ (Uploads(q, e)' <=> Uploads(q, e))
  BY <1>1, <1>5, <1>6, <1>d DEF Uploads, Deletes, Budgeting
<1>10. \A e \in Docs \ {d} : ~Uploads(r, e) /\ ~Uploads(r, e)'
  BY <1>1, <1>6, <1>d DEF Uploads, Budgeting
<1>11. OneUpload'
  <2> SUFFICES ASSUME NEW e \in Docs
               PROVE  /\ e \in documents => e \in past.used
                      /\ \A q \in Requests : Deletes(q, e) => e \in past.used
                      /\ \A x \in Requests : Uploads(x, e)' =>
                           /\ e \in past.used
                           /\ \A q \in Requests \ {x} : ~Uploads(q, e)'
                           /\ req'[x].pc # "chunks" =>
                                /\ e \notin documents /\ chunks'[e] = 0 /\ req'[x].stored = 0
                                /\ \A q \in Requests : ~Deletes(q, e)
                      /\ e \notin past.used => chunks'[e] = 0
    BY <1>1, <1>9 DEF OneUpload
  <2>1. CASE e # d
    BY <1>7, <1>9, <1>10, <2>1 DEF Whole, OneUpload
  <2>2. CASE e = d
    <3>1. \A x \in Requests : Uploads(x, d)' => x = r /\ req'[x].pc = "chunks"
      BY <1>2, <1>6, <1>8, <1>9 DEF Uploads, Budgeting
    <3>2. d \in documents => d \in past.used
      BY <1>8
    <3> QED
      BY <1>2, <1>8, <1>9, <2>2, <3>1, <3>2
  <2> QED
    BY <2>1, <2>2
<1>12. Accounted'
  <2> SUFFICES ASSUME NEW e \in documents
               PROVE  \/ e \in past.broken
                      \/ \E q \in Requests : req'[q].pc = "delete_document" /\ req'[q].doc = e
                      \/ \E q \in Requests :
                           req'[q].pc = "chunks" /\ req'[q].doc = e /\ chunks'[e] = req'[q].stored
                      \/ (\A q \in Requests : ~Uploads(q, e)') /\ chunks'[e] = ChunksOf[e]
    BY <1>1 DEF Accounted
  <2>1. e \in Docs
    BY DEF Typed, TypeOK
  <2>2. \A q \in Requests : req[q].pc = "delete_document" => req'[q] = req[q]
    BY <1>1, <1>5
  <2>3. CASE e # d
    <3>1. \A q \in Requests : req[q].doc = e => req'[q] = req[q]
      BY <1>5, <1>d, <2>3
    <3> QED
      BY <1>7, <1>9, <2>1, <2>2, <2>3, <3>1 DEF Whole, Accounted
  <2>4. CASE e = d
    <3>1. CASE \/ d \in past.broken
               \/ \E q \in Requests : req[q].pc = "delete_document" /\ req[q].doc = d
      BY <2>2, <2>4, <3>1
    <3>2. CASE \E q \in Requests :
                 req[q].pc = "chunks" /\ req[q].doc = d /\ chunks[d] = req[q].stored
      <4>1. chunks[d] = req[r].stored
        BY <1>2, <1>8, <3>2 DEF Uploads
      <4>2. CASE MoreChunks(r)
        BY <1>6, <1>7, <2>4, <4>1, <4>2
      <4>3. CASE ~MoreChunks(r)
        <5>1. req[r].stored < ChunksOf[d] /\ ChunksOf[d] \in Nat
          BY <1>1, <1>2, <1>d, ConstantsOK DEF Whole, Unfinished
        <5>2. req[r].stored + 1 = ChunksOf[d]
          BY <1>2, <1>d, <4>3, <5>1 DEF MoreChunks
        <5>3. \A q \in Requests : ~Uploads(q, d)'
          BY <1>2, <1>6, <1>8, <1>9, <4>3 DEF Uploads, Budgeting
        <5> QED
          BY <1>7, <2>4, <4>1, <5>2, <5>3
      <4> QED
        BY <4>2, <4>3
    <3> QED
      BY <1>1, <1>2, <3>1, <3>2 DEF Whole, Accounted
  <2> QED
    BY <2>3, <2>4
<1>13. Unfinished'
  <2>1. MoreChunks(r) => req[r].stored + 1 < ChunksOf[d]
    BY <1>d DEF MoreChunks
  <2> QED
    BY <1>5, <1>6, <2>1 DEF Whole, Unfinished
<1> QED
  BY <1>5, <1>6, <1>11, <1>12, <1>13 DEF Whole

\* A request that has found the document it is to delete.
LEMMA LookupWhole ==
  ASSUME Typed, Whole, NEW r \in Requests, req[r].pc = "lookup", req[r].doc \in documents,
         GoesTo(r, "delete_chunks"), documents' = documents, chunks' = chunks, past' = past
  PROVE  Whole'
<1>0. req[r].doc \in Docs
  BY DEF Typed, TypeOK
<1>d. PICK d \in Docs : d = req[r].doc
  BY <1>0
<1>1. \A q \in Requests : ~(req[q].pc # "chunks" /\ Uploads(q, d))
  BY <1>d DEF Whole, OneUpload
<1>2. \A e \in Docs, q \in Requests :
        /\ Uploads(q, e)' <=> Uploads(q, e)
        /\ Deletes(q, e)' => Deletes(q, e) \/ e = d
        /\ req[q].pc \in {"chunks", "delete_document"} => req'[q] = req[q]
        /\ req'[q].stored = req[q].stored
        /\ Uploads(q, e) => req'[q].pc = req[q].pc
  BY <1>d DEF Uploads, Deletes, Budgeting, GoesTo
<1>3. OneUpload'
  <2> SUFFICES ASSUME NEW e \in Docs
               PROVE  /\ e \in documents => e \in past.used
                      /\ \A q \in Requests : Deletes(q, e)' => e \in past.used
                      /\ \A x \in Requests : Uploads(x, e) =>
                           /\ e \in past.used
                           /\ \A q \in Requests \ {x} : ~Uploads(q, e)
                           /\ req'[x].pc # "chunks" =>
                                /\ e \notin documents /\ chunks[e] = 0 /\ req'[x].stored = 0
                                /\ \A q \in Requests : ~Deletes(q, e)'
                      /\ e \notin past.used => chunks[e] = 0
    BY <1>2 DEF OneUpload
  <2>1. d \in past.used
    BY <1>d DEF Whole, OneUpload
  <2>2. CASE e = d
    BY <1>1, <1>2, <2>1, <2>2 DEF Whole, OneUpload
  <2>3. CASE e # d
    BY <1>2, <2>3 DEF Whole, OneUpload
  <2> QED
    BY <2>2, <2>3
<1>4. Accounted'
  <2> SUFFICES ASSUME NEW e \in documents
               PROVE  \/ e \in past.broken
                      \/ \E q \in Requests : req'[q].pc = "delete_document" /\ req'[q].doc = e
                      \/ \E q \in Requests :
                           req'[q].pc = "chunks" /\ req'[q].doc = e /\ chunks[e] = req'[q].stored
                      \/ (\A q \in Requests : ~Uploads(q, e)') /\ chunks[e] = ChunksOf[e]
    BY DEF Accounted
  <2>1. e \in Docs
    BY DEF Typed, TypeOK
  <2> QED
    BY <1>2, <2>1 DEF Whole, Accounted
<1>5. Unfinished'
  BY DEF Whole, Unfinished, GoesTo
<1> QED
  BY <1>3, <1>4, <1>5 DEF Whole

\* Taking the rows of the document, and then the document itself.
LEMMA DeleteWhole ==
  ASSUME Typed, Whole, NEW r \in Requests,
         req[r].pc \in {"delete_chunks", "delete_document"},
         \A q \in Requests \ {r} : req'[q] = req[q],
         chunks' = [chunks EXCEPT ![req[r].doc] = 0], past' = past,
         \/ req'[r].pc = "delete_document" /\ req'[r].doc = req[r].doc /\ documents' = documents
         \/ req'[r].pc \in {"load", "done"} /\ documents' = documents \ {req[r].doc}
  PROVE  Whole'
<1>0. req[r].doc \in Docs
  BY RequestTyped DEF Shape
<1>d. PICK d \in Docs : d = req[r].doc
  BY <1>0
<1>1. /\ chunks'[d] = 0 /\ \A e \in Docs \ {d} : chunks'[e] = chunks[e]
      /\ documents' \subseteq documents
      /\ documents \ {d} \subseteq documents'
  BY <1>d DEF Typed, TypeOK
<1>2. \A e \in Docs, q \in Requests :
        /\ Uploads(q, e)' <=> Uploads(q, e)
        /\ Deletes(q, e)' => Deletes(q, e)
        /\ Uploads(q, e) => q # r
        /\ q # r => req'[q] = req[q]
  BY <1>d DEF Uploads, Deletes, Budgeting
<1>3. Deletes(r, d)
  BY <1>d DEF Deletes
<1>4. OneUpload'
  <2> SUFFICES ASSUME NEW e \in Docs
               PROVE  /\ e \in documents' => e \in past.used
                      /\ \A q \in Requests : Deletes(q, e)' => e \in past.used
                      /\ \A x \in Requests : Uploads(x, e) =>
                           /\ e \in past.used
                           /\ \A q \in Requests \ {x} : ~Uploads(q, e)
                           /\ req'[x].pc # "chunks" =>
                                /\ e \notin documents' /\ chunks'[e] = 0 /\ req'[x].stored = 0
                                /\ \A q \in Requests : ~Deletes(q, e)'
                      /\ e \notin past.used => chunks'[e] = 0
    BY <1>2 DEF OneUpload
  <2>1. \A x \in Requests : Uploads(x, e) => req'[x] = req[x]
    BY <1>2
  <2> QED
    BY <1>1, <1>2, <2>1 DEF Whole, OneUpload
<1>5. Accounted'
  <2> SUFFICES ASSUME NEW e \in documents'
               PROVE  \/ e \in past.broken
                      \/ \E q \in Requests : req'[q].pc = "delete_document" /\ req'[q].doc = e
                      \/ \E q \in Requests :
                           req'[q].pc = "chunks" /\ req'[q].doc = e /\ chunks'[e] = req'[q].stored
                      \/ (\A q \in Requests : ~Uploads(q, e)') /\ chunks'[e] = ChunksOf[e]
    BY DEF Accounted
  <2>1. e \in Docs /\ e \in documents
    BY <1>1 DEF Typed, TypeOK
  <2>2. CASE e = d
    <3>1. req'[r].pc = "delete_document" /\ req'[r].doc = d
      BY <1>d, <2>2
    <3> QED
      BY <2>2, <3>1
  <2>3. CASE e # d
    <3>1. \A q \in Requests : req[q].doc = e => req'[q] = req[q]
      BY <1>2, <1>d, <2>3
    <3> QED
      BY <1>1, <1>2, <2>1, <2>3, <3>1 DEF Whole, Accounted
  <2> QED
    BY <2>2, <2>3
<1>6. Unfinished'
  BY <1>2 DEF Whole, Unfinished
<1> QED
  BY <1>4, <1>5, <1>6 DEF Whole

LEMMA HandleDocumentWhole ==
  ASSUME Typed, Whole, NEW r \in Requests, HandleDocument(r)
  PROVE  Whole'
<1>0. req[r] \in Request /\ req \in [Requests -> Request] /\ past \in Past
  BY RequestTyped DEF Typed, TypeOK
<1>e. ASSUME NEW code \in {"ok", "refused", "error"}, Moves(r, Ended(req[r], code)),
             documents' = documents, chunks' = chunks, past'.used = past.used,
             past.broken \subseteq past'.broken,
             req[r].pc \in {"chunks", "delete_document"} => req[r].doc \in past'.broken
      PROVE  Whole'
  <2>1. Leaves(r) /\ req'[r].pc = "done"
    BY <1>e, EndsAs
  <2>2. "done" \notin DocumentPCs
    BY DEF DocumentPCs, Budgeting
  <2> QED
    BY <1>e, <2>1, <2>2, EndWhole
<1>1. ASSUME NEW p \in {"check_global", "check_user"}, NEW k,
             NEW next \in {"check_user", "add_global"}, Check(r, p, k, next)
      PROVE  Whole'
  <2>1. req[r].pc = p /\ UNCHANGED <<documents, chunks, past>>
    BY <1>1 DEF Check, At, store
  <2>2. CASE Moves(r, Ended(req[r], "refused"))
    BY <1>e, <2>1, <2>2
  <2>3. CASE Moves(r, Goto(r, next))
    <3>1. GoesTo(r, next)
      BY <2>3, GotoGoes DEF PCs, Budgeting
    <3> QED
      BY <2>1, <3>1, ChargingWhole DEF GoesTo, Budgeting
  <2> QED
    BY <1>1, <2>2, <2>3 DEF Check
<1>2. CASE AddGlobal(r)
  <2>1. req[r].pc = "add_global" /\ UNCHANGED <<documents, chunks>> /\ Moves(r, Goto(r, "add_user"))
    BY <1>2 DEF AddGlobal, At
  <2>2. GoesTo(r, "add_user")
    BY <2>1, GotoGoes DEF PCs, Budgeting
  <2>3. past'.used = past.used /\ past'.broken = past.broken
    BY <1>0, <1>2 DEF AddGlobal, Past
  <2> QED
    BY <2>1, <2>2, <2>3, ChargingWhole DEF GoesTo, Budgeting
<1>3. CASE AddUser(r)
  <2> DEFINE rest == Tail(req[r].due)
             p == IF rest = <<>> THEN "insert_document" ELSE "check_global"
             n == [req[r] EXCEPT !.due = rest, !.pc = p]
  <2>1. req[r].pc = "add_user" /\ UNCHANGED <<documents, chunks, past>> /\ Moves(r, n)
    BY <1>3 DEF AddUser, At
  <2>2. p \in {"insert_document", "check_global"}
    OBVIOUS
  <2> HIDE DEF p, rest
  <2>3. n.pc = p /\ n.doc = req[r].doc /\ n.stored = req[r].stored
    BY <1>0 DEF Request
  <2> HIDE DEF n
  <2>4. req'[r] = n /\ \A q \in Requests \ {r} : req'[q] = req[q]
    BY <1>0, <2>1, MovedOnly
  <2> QED
    BY <2>1, <2>2, <2>3, <2>4, ChargingWhole DEF Budgeting
<1>4. CASE InsertDocument(r)
  BY <1>4, InsertDocumentWhole
<1>5. CASE ChunkFails(r) \/ DeleteRefused(r)
  <2>1. /\ Moves(r, Ended(req[r], "error")) /\ UNCHANGED <<documents, chunks>>
        /\ past' = [past EXCEPT !.broken = @ \cup {req[r].doc}]
    BY <1>5 DEF ChunkFails, DeleteRefused, store
  <2>2. past'.used = past.used /\ past'.broken = past.broken \cup {req[r].doc}
    BY <1>0, <2>1 DEF Past
  <2> QED
    BY <1>e, <2>1, <2>2
<1>6. CASE StoreChunk(r)
  BY <1>6, StoreChunkWhole
<1>7. CASE Lookup(r)
  <2>1. req[r].pc = "lookup" /\ UNCHANGED <<documents, chunks, past>>
    BY <1>7 DEF Lookup, At, store
  <2>2. CASE \E code \in {"ok", "refused"} : Moves(r, Ended(req[r], code))
    BY <1>e, <2>1, <2>2
  <2>3. CASE Moves(r, Goto(r, "load"))
    <3>1. GoesTo(r, "load")
      BY <2>3, GotoGoes DEF PCs
    <3>2. Quiet(r)
      BY <2>1, <3>1 DEF Quiet, GoesTo, DocumentPCs, Budgeting
    <3> QED
      BY <3>2, QuietWhole
  <2>4. CASE Moves(r, Goto(r, "delete_chunks")) /\ req[r].doc \in documents
    <3>1. GoesTo(r, "delete_chunks")
      BY <2>4, GotoGoes DEF PCs
    <3> QED
      BY <2>1, <2>4, <3>1, LookupWhole
  <2> QED
    BY <1>7, <2>2, <2>3, <2>4 DEF Lookup
<1>8. CASE DeleteChunks(r)
  <2>1. /\ req[r].pc = "delete_chunks" /\ chunks' = [chunks EXCEPT ![req[r].doc] = 0]
        /\ UNCHANGED <<documents, past>> /\ Moves(r, Goto(r, "delete_document"))
    BY <1>8 DEF DeleteChunks, At
  <2>2. GoesTo(r, "delete_document")
    BY <2>1, GotoGoes DEF PCs
  <2> QED
    BY <2>1, <2>2, DeleteWhole DEF GoesTo
<1>9. CASE DeleteDocument(r)
  <2>1. /\ req[r].pc = "delete_document" /\ chunks' = [chunks EXCEPT ![req[r].doc] = 0]
        /\ documents' = documents \ {req[r].doc} /\ past' = past /\ Moves(r, AfterDocument(r))
    BY <1>9 DEF DeleteDocument, At
  <2>2. AfterDocument(r).pc \in {"load", "done"}
    <3>1. Ended(req[r], "ok").pc = "done"
      BY <1>0, EndedType
    <3>2. [Goto(r, "load") EXCEPT !.stored = 0].pc = "load"
      BY <1>0 DEF Goto, Request
    <3> QED
      BY <3>1, <3>2 DEF AfterDocument
  <2>3. req'[r] = AfterDocument(r) /\ \A q \in Requests \ {r} : req'[q] = req[q]
    BY <1>0, <2>1, MovedOnly
  <2> QED
    BY <2>1, <2>2, <2>3, DeleteWhole
<1>10. CASE LoadToChange(r)
  <2>1. req[r].pc = "load" /\ UNCHANGED <<documents, chunks, past>>
    BY <1>10 DEF LoadToChange, At, store
  <2>2. \E c \in Context : Becomes(r, "save", NoAction, c)
    BY <1>10, LoadToChangeAs
  <2>3. Quiet(r)
    BY <2>1, <2>2 DEF Quiet, Becomes, DocumentPCs, Budgeting
  <2> QED
    BY <2>3, QuietWhole
<1> QED
  BY <1>1, <1>2, <1>3, <1>4, <1>5, <1>6, <1>7, <1>8, <1>9, <1>10 DEF HandleDocument

\* Chats and refused or other requests that arrive.
LEMMA ArriveWhole ==
  ASSUME Typed, Whole, NEW r \in Requests, Arrive(r)
  PROVE  Whole'
<1>0. req \in [Requests -> Request] /\ past \in Past /\ Idle \in Request
  BY DEF Typed, TypeOK, Idle, Request, Budgeting, Confirming
<1>a. Arriving.used = past.used /\ Arriving.broken = past.broken
  BY <1>0 DEF Arriving, Past
<1>1. CASE Malformed(r)
  <2>1. req[r].pc = "idle" /\ Moves(r, Ended(Idle, "refused")) /\ UNCHANGED <<documents, chunks, past>>
    BY <1>1 DEF Malformed, At, store
  <2>2. Ended(Idle, "refused").pc = "done"
    BY <1>0, EndedType
  <2>3. Quiet(r)
    BY <1>0, <2>1, <2>2, MovedOnly DEF Quiet, DocumentPCs, Budgeting
  <2> QED
    BY <2>3, QuietWhole
<1>2. ASSUME NEW s \in Sessions, NEW a \in Actions \cup {NoAction}, Chat(r, s, a)
      PROVE  Whole'
  <2> DEFINE rq == [Idle EXCEPT !.op = "chat", !.session = s, !.action = a]
             n == IF HasBudget(a) THEN Ended(rq, "error") ELSE [rq EXCEPT !.pc = "load"]
  <2>1. /\ req[r].pc = "idle" /\ Moves(r, n) /\ UNCHANGED <<documents, chunks>>
        /\ past' = Arriving
    BY <1>2 DEF Chat, At, store
  <2>2. rq \in Request
    BY <1>0 DEF Request
  <2>3. Ended(rq, "error").pc = "done" /\ [rq EXCEPT !.pc = "load"].pc = "load"
    BY <2>2, EndedType DEF Request
  <2>4. n.pc \in {"load", "done"}
    BY <2>3
  <2> HIDE DEF n
  <2>5. Quiet(r)
    BY <1>0, <1>a, <2>1, <2>4, MovedOnly DEF Quiet, DocumentPCs, Budgeting
  <2> QED
    BY <2>5, QuietWhole
<1>3. ASSUME NEW s \in Sessions \cup {NoSession}, NEW d \in Docs, NEW op \in {"select", "delete"},
             SelectOrDelete(r, s, d, op)
      PROVE  Whole'
  <2> DEFINE n == [Idle EXCEPT !.pc = "lookup", !.op = op, !.session = s, !.doc = d]
  <2>1. /\ req[r].pc = "idle" /\ Moves(r, n) /\ UNCHANGED <<documents, chunks>>
        /\ past' = Arriving
    BY <1>3 DEF SelectOrDelete, At, store
  <2>2. n.pc = "lookup"
    BY DEF Idle
  <2> HIDE DEF n
  <2>3. Quiet(r)
    BY <1>0, <1>a, <2>1, <2>2, MovedOnly DEF Quiet, DocumentPCs, Budgeting
  <2> QED
    BY <2>3, QuietWhole
<1> QED
  BY <1>1, <1>2, <1>3, UploadWhole DEF Arrive

LEMMA HandleChatWhole ==
  ASSUME Typed, Whole, NEW r \in Requests, HandleChat(r)
  PROVE  Whole'
<1>0. past \in Past
  BY RequestTyped
<1>1. \A p \in {"load", "answering", "row", "step", "save", "done"} \cup Confirming : p \notin DocumentPCs
  BY DEF DocumentPCs, Budgeting, Confirming
<1>2. ASSUME NEW p \in {"load", "answering", "row", "step", "save"} \cup Confirming, NEW a, NEW c,
             Becomes(r, p, a, c), documents' = documents, chunks' = chunks,
             past'.broken = past.broken, past.used \subseteq past'.used,
             req[r].pc \in {"load", "answering", "row", "step"}
      PROVE  Whole'
  <2>1. Quiet(r)
    BY <1>1, <1>2 DEF Quiet, Becomes
  <2> QED
    BY <2>1, QuietWhole
<1>3. CASE LoadToAnswer(r) \/ Reply(r) \/ InsertRow(r) \/ InsertStep(r)
  <2>1. /\ UNCHANGED <<documents, chunks, past>>
        /\ req[r].pc \in {"load", "answering", "row", "step"}
    BY <1>3 DEF LoadToAnswer, Reply, InsertRow, InsertStep, store, At
  <2>2. \E p \in {"load", "answering", "row", "step", "save"} : \E a, c : Becomes(r, p, a, c)
    BY <1>3, LoadToAnswerSound, ReplySound, InsertRowSound, InsertStepSound
  <2> QED
    BY <1>2, <2>1, <2>2
<1>4. CASE LoadToConfirm(r)
  <2>1. /\ UNCHANGED <<documents, chunks>> /\ req[r].pc = "load"
    BY <1>4 DEF LoadToConfirm, store, At
  <2>2. past'.broken = past.broken /\ past'.used = past.used
    BY <1>0, <1>4, LoadToConfirmSound DEF NotFound, Found, Past
  <2>3. "tool" \in Confirming
    BY DEF Confirming
  <2>4. \E p \in {"save", "tool"} : \E a, c : Becomes(r, p, a, c)
    BY <1>4, LoadToConfirmSound DEF NotFound, Found
  <2> QED
    BY <1>2, <2>1, <2>2, <2>3, <2>4
<1>5. CASE AnswerFails(r) \/ RowRefused(r)
  <2>1. /\ UNCHANGED <<documents, chunks, past>> /\ req[r].pc \in {"answering", "row"}
        /\ Moves(r, Ended(req[r], "error"))
    BY <1>5 DEF AnswerFails, RowRefused, store, At
  <2>2. Leaves(r) /\ req'[r].pc = "done"
    BY <2>1, EndsAs
  <2> QED
    BY <1>1, <2>1, <2>2, EndWhole
<1>6. ASSUME NEW a \in Actions, NEW kind \in Kinds, NEW d \in Docs \cup {NoDoc},
             Propose(r, a, kind, d)
      PROVE  Whole'
  <2>1. /\ UNCHANGED <<documents, chunks>> /\ req[r].pc = "answering"
        /\ past' = [past EXCEPT !.used = @ \cup {a}]
    BY <1>6 DEF Propose, store, At
  <2>2. past'.broken = past.broken /\ past.used \subseteq past'.used
    BY <1>0, <2>1 DEF Past
  <2>3. Becomes(r, "row", a, Proposed(req[r].ctx, a))
    BY <1>6, ProposeSound
  <2> QED
    BY <1>2, <2>1, <2>2, <2>3
<1>7. CASE Executing(r)
  <2>1. UNCHANGED <<documents, chunks, past>>
    BY <1>7 DEF Executing, ToolFails, ToolSearches, ToolWrites, HistoryWrites, FindRow, Close,
          RecordStep, store
  <2>2. PICK n \in Request : req[r].pc \in Confirming /\ Moves(r, n) /\ n.pc \in Confirming \cup {"save"}
    BY <1>7, ExecutingMoves DEF Executes
  <2>3. req'[r] = n /\ \A q \in Requests \ {r} : req'[q] = req[q]
    BY <2>2, MovedOnly DEF Typed, TypeOK
  <2>4. Quiet(r)
    BY <1>1, <2>1, <2>2, <2>3 DEF Quiet
  <2> QED
    BY <2>4, QuietWhole
<1> QED
  BY <1>3, <1>4, <1>5, <1>6, <1>7 DEF HandleChat, Executing

LEMMA WholeStep ==
  ASSUME Typed, Whole, [Next]_vars
  PROVE  Whole'
<1>1. CASE UNCHANGED vars
  <2>1. documents' = documents /\ chunks' = chunks /\ req' = req /\ past' = past
    BY <1>1 DEF vars
  <2> QED
    BY <2>1 DEF Whole, OneUpload, Accounted, Unfinished, Uploads, Deletes
<1>2. ASSUME NEW r \in Requests, Save(r)
      PROVE  Whole'
  <2>1. /\ req[r].pc = "save" /\ UNCHANGED <<documents, chunks>>
        /\ Moves(r, Ended(req[r], "ok"))
    BY <1>2 DEF Save, At
  <2>2. past'.used = past.used /\ past'.broken = past.broken
    <3>1. past \in Past
      BY RequestTyped
    <3>2. past' = [past EXCEPT !.lost = @ \cup Dropped(req[r]),
       !.excuses = [a \in Actions |-> @[a] + IF a \in Revived(req[r]) THEN 1 ELSE 0]]
      BY <1>2 DEF Save
    <3> QED
      BY <3>1, <3>2 DEF Past
  <2>3. Leaves(r) /\ req'[r].pc = "done"
    BY <2>1, EndsAs
  <2> QED
    BY <2>1, <2>2, <2>3, EndWhole DEF DocumentPCs, Budgeting
<1>3. ASSUME NEW r \in Requests, Abort(r)
      PROVE  Whole'
  <2>1. UNCHANGED <<documents, chunks>> /\ Moves(r, Ended(req[r], "error"))
    BY <1>3 DEF Abort, store
  <2>2. Leaves(r) /\ req'[r].pc = "done"
    BY <2>1, EndsAs
  <2>3. /\ past'.used = past.used
        /\ past'.broken = past.broken \cup {d \in {req[r].doc} :
              req[r].pc \in {"chunks", "delete_document"}}
    BY <1>3, AbortSound
  <2> QED
    BY <2>1, <2>2, <2>3, EndWhole DEF DocumentPCs, Budgeting
<1>4. ASSUME NEW r \in Requests, Respond(r)
      PROVE  Whole'
  <2>1. req[r].pc = "done" /\ UNCHANGED <<documents, chunks, past>> /\ Moves(r, Idle)
    BY <1>4 DEF Respond, At, store
  <2>2. req'[r] = Idle /\ \A q \in Requests \ {r} : req'[q] = req[q]
    BY <2>1, MovedOnly DEF Typed, TypeOK
  <2>3. Quiet(r)
    BY <2>1, <2>2 DEF Quiet, DocumentPCs, Budgeting, Idle
  <2> QED
    BY <2>3, QuietWhole
<1> QED
  BY <1>1, <1>2, <1>3, <1>4, ArriveWhole, HandleDocumentWhole, HandleChatWhole DEF Next

LEMMA InitTyped ==
  Init => Typed
<1> SUFFICES ASSUME Init PROVE Typed
  OBVIOUS
<1>1. req \in [Requests -> Request] /\ \A r \in Requests : Shape(req[r])
  <2>1. Idle \in Request /\ Shape(Idle)
    BY DEF Idle, Request, Shape, Holding, Budgeting, Confirming
  <2> QED
    BY <2>1 DEF Init
<1>2. workflow \in [Actions -> Workflow]
  <2>1. NoRow \in Workflow
    BY DEF NoRow, Workflow, Status
  <2> QED
    BY <2>1 DEF Init
<1>3. sessions \in [Sessions -> Context]
  BY DEF Init, EmptyContext, Context
<1>4. past \in Past
  BY ConstantsOK DEF Init, Past
<1>5. usage \in [Buckets -> [Users \cup {Global} -> Nat]]
  BY DEF Init
<1>6. limits \in [chat: Nat, upload: Nat, openai: Nat, files: SUBSET Docs]
  BY ConstantsOK DEF Init
<1> QED
  BY <1>1, <1>2, <1>3, <1>4, <1>5, <1>6 DEF Typed, TypeOK, Init, Kinds

LEMMA InitWhole ==
  Init => Whole
BY DEF Init, Whole, OneUpload, Accounted, Unfinished, Uploads, Deletes, Idle, Budgeting

LEMMA TypedAlways ==
  Spec => []Typed
BY InitTyped, TypedStep, PTL DEF Spec

\* A listed document is whole: every row its upload has to store is there,
\* unless the upload or a delete is under way or broke off.
THEOREM DocumentsWhole ==
  Spec => []WholeUnlessBroken
<1>1. Typed /\ Whole => WholeUnlessBroken
  <2> SUFFICES ASSUME Typed, Whole, NEW d \in documents
               PROVE  \/ chunks[d] = ChunksOf[d] \/ d \in past.broken
                      \/ \E r \in Requests :
                           req[r].doc = d /\ req[r].pc \in {"chunks", "delete_document"}
    BY DEF WholeUnlessBroken
  <2> QED
    BY DEF Whole, Accounted
<1>2. Spec => [](Typed /\ Whole)
  <2>1. Init => Typed /\ Whole
    BY InitTyped, InitWhole
  <2>2. Typed /\ Whole /\ [Next]_vars => (Typed /\ Whole)'
    BY TypedStep, WholeStep
  <2> QED
    BY <2>1, <2>2, PTL DEF Spec
<1> QED
  BY <1>1, <1>2, PTL

-----------------------------------------------------------------------------
(* Actions: who has them, and what their executions do *)

LEMMA Known ==
  ASSUME Typed
  PROVE  /\ past.attempts \in [Actions -> Nat] /\ past.excuses \in [Actions -> Nat]
         /\ writes \in [Actions -> Nat]
         /\ \A s \in Sessions : sessions[s] \in Context /\ sessions[s].pending \subseteq Actions
         /\ \A a \in Actions : workflow[a] \in Workflow /\ workflow[a].closings \in Nat
BY DEF Typed, TypeOK, Past, Context, Workflow

\* The requests that do not move hold what they held.
LEMMA OthersStay ==
  ASSUME NEW r \in Requests, \A q \in Requests \ {r} : req'[q] = req[q]
  PROVE  \A q \in Requests \ {r}, a \in Actions :
           /\ Carries(q, a)' <=> Carries(q, a)
           /\ Proposing(q, a)' <=> Proposing(q, a)
           /\ q \in Under(a)' <=> q \in Under(a)
           /\ req'[q] = req[q]
BY DEF Carries, Proposing, Under

\* A step after which everybody has the actions that were theirs before.
Aside(r) ==
  /\ \A q \in Requests \ {r} : req'[q] = req[q]
  /\ tool' = tool /\ sessions' = sessions /\ workflow' = workflow /\ writes' = writes
  /\ past'.attempts = past.attempts /\ past'.excuses = past.excuses
  /\ past'.lost = past.lost /\ past'.overlapped = past.overlapped
  /\ past.used \subseteq past'.used
  /\ req[r].pc \notin Confirming /\ req'[r].pc \notin Confirming
  /\ \A a \in Actions :
       /\ ~Proposing(r, a) /\ ~Proposing(r, a)'
       /\ r \notin Under(a) /\ r \notin Under(a)'
       /\ Carries(r, a)' => Carries(r, a) /\ req'[r].session = req[r].session

LEMMA AsideConfirmed ==
  ASSUME Typed, Confirmed, NEW r \in Requests, Aside(r)
  PROVE  Confirmed'
<1>1. \A q \in Requests, a \in Actions :
        /\ Carries(q, a)' => Carries(q, a) /\ req'[q].session = req[q].session
        /\ Proposing(q, a)' <=> Proposing(q, a)
        /\ q \in Under(a)' <=> q \in Under(a)
        /\ Proposing(q, a) => req'[q] = req[q]
  BY OthersStay DEF Aside
<1>2. \A a \in Actions : Under(a)' = Under(a)
  BY <1>1 DEF Under
<1>3. FreshUnknown'
  BY <1>1 DEF Confirmed, FreshUnknown, Aside
<1>4. OneHome'
  <2> SUFFICES ASSUME NEW a \in Actions
               PROVE  \E h \in Sessions \cup {NoSession} :
                        /\ \A s \in Sessions : a \in sessions'[s].pending => s = h
                        /\ \A q \in Requests : Carries(q, a)' => req'[q].session = h
    BY DEF OneHome
  <2> QED
    BY <1>1 DEF Confirmed, OneHome, Aside
<1>5. ProposerAlone'
  <2> SUFFICES ASSUME NEW a \in Actions, NEW q \in Requests, Proposing(q, a)
               PROVE  /\ past'.attempts[a] = 0
                      /\ \A s \in Sessions : a \notin sessions'[s].pending
                      /\ \A p \in Requests \ {q} : ~Carries(p, a)'
                      /\ req'[q].pc = "row" => workflow'[a].status = "none"
                      /\ req'[q].pc # "row" => workflow'[a].session = req'[q].session
    BY <1>1 DEF ProposerAlone
  <2> QED
    BY <1>1 DEF Confirmed, ProposerAlone, Aside
<1>6. Untried' /\ SpareExcuse' /\ RepeatsExplained'
  BY <1>2 DEF Confirmed, Untried, SpareExcuse, RepeatsExplained, Aside
<1>7. ProposalKept'
  <2> SUFFICES ASSUME NEW a \in Actions, workflow[a].status = "awaiting_review",
                      past.attempts[a] = 0
               PROVE  \/ a \in sessions[workflow[a].session].pending
                      \/ a \in past.lost
                      \/ \E q \in Requests :
                           req'[q].action = a /\ req'[q].pc \in {"step", "save"} /\ a \in req'[q].ctx.pending
    BY DEF ProposalKept, Aside
  <2>1. ASSUME NEW q \in Requests, req[q].action = a, req[q].pc \in {"step", "save"},
               a \in req[q].ctx.pending
        PROVE  req'[q] = req[q]
    BY <1>1, <2>1 DEF Proposing
  <2> QED
    BY <2>1 DEF Confirmed, ProposalKept
<1> QED
  BY <1>3, <1>4, <1>5, <1>6, <1>7 DEF Confirmed

\* A step after which r executes nothing, and that leaves what executions did.
AuditQuiet(r) ==
  /\ \A q \in Requests \ {r} : req'[q] = req[q]
  /\ req'[r].pc \notin Confirming
  /\ writes' = writes /\ past'.attempts = past.attempts /\ past'.overlapped = past.overlapped
  /\ \A a \in Actions :
       /\ r \notin Under(a)'
       /\ past'.excuses[a] >= past.excuses[a]
       /\ req[r].pc \in Confirming /\ req[r].action = a => past'.excuses[a] > 0
       /\ \/ /\ tool'[a] = tool[a] /\ workflow'[a].status = workflow[a].status
             /\ workflow'[a].closings = workflow[a].closings
          \/ /\ past.attempts[a] = 0 /\ workflow'[a].closings = 0
             /\ workflow'[a].status \in {"none", "awaiting_review"}

LEMMA AuditQuietAudited ==
  ASSUME Typed, Typed', Confirmed, Audited, NEW r \in Requests, AuditQuiet(r)
  PROVE  Audited'
<1>0. \A q \in Requests :
        /\ q # r => req'[q] = req[q]
        /\ req'[q].pc \in Confirming => q # r
  BY DEF AuditQuiet
<1>1. \A q \in Requests, a \in Actions :
        /\ q \in Under(a)' => q # r /\ q \in Under(a)
        /\ q # r => req'[q] = req[q]
  BY OthersStay DEF AuditQuiet
<1>2. \A a \in Actions : Under(a)' \subseteq Under(a) \ {r}
  BY <1>1 DEF Under
<1>3. \A a \in Actions : past.attempts[a] = 0 => Under(a) = {} /\ writes[a] = 0
  BY DEF Confirmed, Untried
<1>4. \A a \in Actions :
        past.attempts[a] # 0 =>
          /\ tool'[a] = tool[a] /\ workflow'[a].status = workflow[a].status
          /\ workflow'[a].closings = workflow[a].closings
  BY DEF AuditQuiet
<1>5. past'.attempts = past.attempts /\ past'.overlapped = past.overlapped /\ writes' = writes
  BY DEF AuditQuiet
<1>6. \A q \in Requests : req[q].pc \in Confirming => req[q].action \in Actions /\ q \in Under(req[q].action)
  BY RequestTyped DEF Shape, Under
<1>7. ClosedOnce'
  <2> SUFFICES ASSUME NEW a \in Actions \ past.overlapped
               PROVE  /\ \A p, q \in Under(a)' : p = q
                      /\ workflow'[a].closings <= 1
                      /\ workflow'[a].status = "awaiting_review" => workflow'[a].closings = 0
                      /\ \A q \in Under(a)' :
                           /\ req'[q].pc = "close" => workflow'[a].status = "awaiting_review"
                           /\ req'[q].pc = "record" => workflow'[a].closings = 0
    BY <1>5 DEF ClosedOnce
  <2>1. \A q \in Under(a)' : q \in Under(a) /\ req'[q] = req[q]
    BY <1>1, <1>2 DEF Under
  <2>2. CASE past.attempts[a] # 0
    BY <1>4, <2>1, <2>2 DEF Audited, ClosedOnce
  <2>3. CASE past.attempts[a] = 0
    <3>1. Under(a)' = {}
      BY <1>2, <1>3, <2>3
    <3>2. workflow'[a].closings <= 1
          /\ (workflow'[a].status = "awaiting_review" => workflow'[a].closings = 0)
      BY DEF AuditQuiet, Audited, ClosedOnce
    <3> QED
      BY <3>1, <3>2
  <2> QED
    BY <2>2, <2>3
<1>8. Result'
  <2> SUFFICES ASSUME NEW q \in Requests, req'[q].pc \in Confirming, NEW a, a = req'[q].action
               PROVE  /\ req'[q].pc \in {"find_row", "close"} /\ req'[q].ok =>
                           tool'[a] = "search" \/ writes'[a] > 0
                      /\ req'[q].pc = "history" => tool'[a] = "status" /\ writes'[a] > 0
                      /\ req'[q].pc = "record" => workflow'[a].status \in {"completed", "failed"}
    BY DEF Result, Confirming
  <2>1. req'[q] = req[q] /\ req[q].pc \in Confirming
    BY <1>0
  <2>2. a \in Actions /\ q \in Under(a)
    BY <1>6, <2>1
  <2>3. past.attempts[a] # 0
    BY <1>3, <2>2
  <2> QED
    BY <1>4, <1>5, <2>1, <2>2, <2>3 DEF Audited, Result
<1>9. FirstResult'
  <2> SUFFICES ASSUME NEW a \in Actions, past.attempts[a] = 1
               PROVE  /\ \A p, q \in Under(a)' : p = q
                      /\ \A q \in Under(a)' :
                           /\ req'[q].pc = "tool" =>
                                writes'[a] = 0 /\ workflow'[a].status \in {"none", "awaiting_review"}
                           /\ req'[q].pc \in {"find_row", "close"} /\ ~req'[q].ok =>
                                writes'[a] = 0 \/ tool'[a] = "status"
    BY <1>5 DEF FirstResult
  <2>1. \A q \in Under(a)' : q \in Under(a) /\ req'[q] = req[q]
    BY <1>1, <1>2 DEF Under
  <2> QED
    BY <1>4, <1>5, <2>1 DEF Audited, FirstResult
<1>10. AuditTrue'
  <2> SUFFICES ASSUME NEW a \in Actions
               PROVE  /\ workflow'[a].closings > 1 => a \in past.overlapped
                      /\ workflow'[a].status = "completed" => tool'[a] = "search" \/ writes[a] > 0
                      /\ workflow'[a].status = "failed" /\ writes[a] > 0 =>
                           tool'[a] = "status" \/ past.attempts[a] > 1
                      /\ workflow'[a].status = "awaiting_review" /\ writes[a] > 0 =>
                           past'.excuses[a] > 0 \/ \E q \in Requests : req'[q].action = a /\ req'[q].pc \in Confirming
    BY <1>5 DEF AuditTrue
  <2>1. CASE past.attempts[a] = 0
    <3>1. writes[a] = 0
      BY <1>3, <2>1
    <3>2. /\ workflow'[a].closings > 1 => a \in past.overlapped
          /\ workflow'[a].status = "completed" => tool'[a] = "search" \/ writes[a] > 0
      BY <2>1, Known DEF AuditQuiet, Audited, AuditTrue
    <3> QED
      BY <3>1, <3>2
  <2>2. CASE past.attempts[a] # 0
    <3>1. ASSUME workflow[a].status = "awaiting_review", writes[a] > 0
          PROVE  past'.excuses[a] > 0 \/ \E q \in Requests : req'[q].action = a /\ req'[q].pc \in Confirming
      <4>1. CASE past.excuses[a] > 0
        <5>1. past.excuses[a] \in Nat /\ past'.excuses[a] \in Nat /\ past'.excuses[a] >= past.excuses[a]
          BY Known DEF AuditQuiet, Typed, TypeOK, Past
        <5> QED
          BY <4>1, <5>1
      <4>2. ASSUME NEW q \in Requests, req[q].action = a, req[q].pc \in Confirming
            PROVE  past'.excuses[a] > 0 \/ (req'[q].action = a /\ req'[q].pc \in Confirming)
        BY <1>1, <4>2 DEF AuditQuiet
      <4> QED
        BY <3>1, <4>1, <4>2 DEF Audited, AuditTrue
    <3> QED
      BY <1>4, <2>2, <3>1 DEF Audited, AuditTrue
  <2> QED
    BY <2>1, <2>2
<1> QED
  BY <1>7, <1>8, <1>9, <1>10 DEF Audited

LEMMA AsideQuiet ==
  ASSUME Typed, NEW r \in Requests, Aside(r)
  PROVE  AuditQuiet(r)
BY Known DEF Aside, AuditQuiet

\* Arrivals, documents and answers leave the actions alone.
LEMMA NotHolding ==
  ASSUME Typed, NEW r \in Requests, req[r].pc \notin Holding, req'[r].pc \notin Holding,
         \A q \in Requests \ {r} : req'[q] = req[q],
         UNCHANGED <<tool, sessions, workflow, writes>>,
         past'.attempts = past.attempts, past'.excuses = past.excuses,
         past'.lost = past.lost, past'.overlapped = past.overlapped,
         past.used \subseteq past'.used
  PROVE  Aside(r)
<1>1. \A a \in Actions :
        /\ ~Proposing(r, a) /\ ~Proposing(r, a)'
        /\ r \notin Under(a) /\ r \notin Under(a)'
        /\ ~Carries(r, a)'
  BY DEF Proposing, Under, Carries, Holding
<1> QED
  BY <1>1 DEF Aside, Holding

LEMMA ArriveAside ==
  ASSUME Typed, NEW r \in Requests, Arrive(r)
  PROVE  Aside(r)
<1>0. req \in [Requests -> Request] /\ past \in Past /\ Idle \in Request
  BY DEF Typed, TypeOK, Idle, Request, Budgeting, Confirming
<1>a. /\ Arriving.used = past.used /\ Arriving.attempts = past.attempts
      /\ Arriving.excuses = past.excuses /\ Arriving.lost = past.lost
      /\ Arriving.overlapped = past.overlapped
  BY <1>0 DEF Arriving, Past
<1>h. \A p \in {"idle", "done", "load", "lookup", "insert_document", "check_global"} : p \notin Holding
  BY DEF Holding, Confirming
<1>b. req[r].pc = "idle" /\ UNCHANGED <<tool, sessions, workflow, writes>>
  BY DEF Arrive, Malformed, Chat, Upload, SelectOrDelete, At, store
<1>c. past' = past \/ past' = Arriving \/ \E d \in Docs : past' = [Arriving EXCEPT !.used = @ \cup {d}]
  BY DEF Arrive, Malformed, Chat, Upload, SelectOrDelete
<1>d. /\ past'.attempts = past.attempts /\ past'.excuses = past.excuses
      /\ past'.lost = past.lost /\ past'.overlapped = past.overlapped
      /\ past.used \subseteq past'.used
  <2>1. CASE past' = past \/ past' = Arriving
    BY <1>a, <2>1
  <2>2. ASSUME NEW d \in Docs, past' = [Arriving EXCEPT !.used = @ \cup {d}]
        PROVE  /\ past'.attempts = past.attempts /\ past'.excuses = past.excuses
               /\ past'.lost = past.lost /\ past'.overlapped = past.overlapped
               /\ past.used \subseteq past'.used
    BY <1>0, <1>a, <2>2 DEF Arriving, Past
  <2> QED
    BY <1>c, <2>1, <2>2
<1>1. ASSUME NEW n, Moves(r, n),
             n.pc \in {"done", "load", "lookup", "insert_document", "check_global"}
      PROVE  Aside(r)
  <2>1. req'[r] = n /\ \A q \in Requests \ {r} : req'[q] = req[q]
    BY <1>0, <1>1, MovedOnly
  <2> QED
    BY <1>1, <1>b, <1>d, <1>h, <2>1, NotHolding
<1>2. CASE Malformed(r)
  <2>1. Ended(Idle, "refused").pc = "done"
    BY <1>0, EndedType
  <2> QED
    BY <1>1, <1>2, <2>1 DEF Malformed
<1>3. ASSUME NEW s \in Sessions, NEW a \in Actions \cup {NoAction}, Chat(r, s, a)
      PROVE  Aside(r)
  <2> DEFINE rq == [Idle EXCEPT !.op = "chat", !.session = s, !.action = a]
             n == IF HasBudget(a) THEN Ended(rq, "error") ELSE [rq EXCEPT !.pc = "load"]
  <2>1. Moves(r, n)
    BY <1>3 DEF Chat
  <2>2. rq \in Request
    BY <1>0 DEF Request
  <2>3. Ended(rq, "error").pc = "done" /\ [rq EXCEPT !.pc = "load"].pc = "load"
    BY <2>2, EndedType DEF Request
  <2>4. n.pc \in {"load", "done"}
    BY <2>3
  <2> HIDE DEF n
  <2> QED
    BY <1>1, <2>1, <2>4
<1>4. ASSUME NEW s \in Sessions \cup {NoSession}, NEW d \in Docs, NEW op \in {"select", "delete"},
             SelectOrDelete(r, s, d, op)
      PROVE  Aside(r)
  <2> DEFINE n == [Idle EXCEPT !.pc = "lookup", !.op = op, !.session = s, !.doc = d]
  <2>1. Moves(r, n)
    BY <1>4 DEF SelectOrDelete
  <2>2. n.pc = "lookup"
    BY DEF Idle
  <2> HIDE DEF n
  <2> QED
    BY <1>1, <2>1, <2>2
<1>5. ASSUME NEW s \in Sessions \cup {NoSession}, NEW u \in Users, NEW d \in Docs, Upload(r, s, u, d)
      PROVE  Aside(r)
  <2> DEFINE c == Charges(d)
             p == IF c = <<>> THEN "insert_document" ELSE "check_global"
             n == [Idle EXCEPT !.op = "upload", !.session = s, !.user = u, !.doc = d,
                     !.due = c, !.pc = p]
  <2>1. Moves(r, n)
    BY <1>5 DEF Upload
  <2>2. p \in {"insert_document", "check_global"}
    OBVIOUS
  <2> HIDE DEF c, p
  <2>3. n.pc = p
    BY DEF Idle
  <2> HIDE DEF n
  <2> QED
    BY <1>1, <2>1, <2>2, <2>3
<1> QED
  BY <1>2, <1>3, <1>4, <1>5 DEF Arrive

LEMMA HandleDocumentAside ==
  ASSUME Typed, NEW r \in Requests, HandleDocument(r), ~LoadToChange(r)
  PROVE  Aside(r)
<1>0. req[r] \in Request /\ req \in [Requests -> Request] /\ past \in Past
  BY RequestTyped DEF Typed, TypeOK
<1>h. \A p \in {"done", "load", "lookup"} \cup DocumentPCs : p \notin Holding
  BY DEF Holding, Confirming, DocumentPCs, Budgeting
<1>1. ASSUME NEW n, Moves(r, n), n.pc \in {"done", "load"} \cup DocumentPCs,
             req[r].pc \in {"lookup"} \cup DocumentPCs,
             UNCHANGED <<tool, sessions, workflow, writes>>,
             past'.attempts = past.attempts, past'.excuses = past.excuses,
             past'.lost = past.lost, past'.overlapped = past.overlapped,
             past'.used = past.used
      PROVE  Aside(r)
  <2>1. req'[r] = n /\ \A q \in Requests \ {r} : req'[q] = req[q]
    BY <1>0, <1>1, MovedOnly
  <2> QED
    BY <1>1, <1>h, <2>1, NotHolding
<1>2. \A p \in {"load"} \cup DocumentPCs : Goto(r, p).pc = p
  BY <1>0 DEF Goto, Request
<1>3. \A code \in {"ok", "refused", "error"} : Ended(req[r], code).pc = "done"
  BY <1>0, EndedType
<1>4. AfterDocument(r).pc \in {"load", "done"}
  <2>1. [Goto(r, "load") EXCEPT !.stored = 0].pc = "load"
    BY <1>0 DEF Goto, Request
  <2> QED
    BY <1>3, <2>1 DEF AfterDocument
<1>5. UNCHANGED <<tool, sessions, workflow, writes>>
  BY DEF HandleDocument, Check, AddGlobal, AddUser, InsertDocument, ChunkFails, StoreChunk,
         Lookup, DeleteChunks, DeleteRefused, DeleteDocument, store
<1>6. /\ past'.attempts = past.attempts /\ past'.excuses = past.excuses
      /\ past'.lost = past.lost /\ past'.overlapped = past.overlapped
      /\ past'.used = past.used
  <2>1. \/ past' = past
        \/ past' = [past EXCEPT !.broken = @ \cup {req[r].doc}]
        \/ AddGlobal(r)
    BY DEF HandleDocument, Check, AddUser, InsertDocument, ChunkFails, StoreChunk,
           Lookup, DeleteChunks, DeleteRefused, DeleteDocument
  <2> QED
    BY <1>0, <2>1 DEF AddGlobal, Past
<1>7. \A p \in Budgeting \cup {"insert_document", "chunks", "delete_chunks", "delete_document"} :
        p \in DocumentPCs
  BY DEF DocumentPCs
<1>8. req[r].pc \in {"lookup"} \cup DocumentPCs
  BY DEF HandleDocument, Check, AddGlobal, AddUser, InsertDocument, ChunkFails, StoreChunk,
         Lookup, DeleteChunks, DeleteRefused, DeleteDocument, At, DocumentPCs, Budgeting
<1>9. \E n : Moves(r, n) /\ n.pc \in {"done", "load"} \cup DocumentPCs
  <2>1. \A p \in {"load", "check_user", "add_global", "add_user", "chunks", "delete_chunks",
                  "delete_document"} :
          Moves(r, Goto(r, p)) => \E n : Moves(r, n) /\ n.pc \in {"done", "load"} \cup DocumentPCs
    BY <1>2, <1>7 DEF Budgeting
  <2>2. \A code \in {"ok", "refused", "error"} :
          Moves(r, Ended(req[r], code)) =>
            \E n : Moves(r, n) /\ n.pc \in {"done", "load"} \cup DocumentPCs
    BY <1>3
  <2>3. CASE \E p \in {"check_global", "check_user"}, k \in {Global, req[r].user},
                next \in {"check_user", "add_global"} : Check(r, p, k, next)
    BY <2>1, <2>2, <2>3 DEF Check
  <2>4. CASE AddGlobal(r) \/ InsertDocument(r) \/ DeleteChunks(r)
    BY <2>1, <2>4 DEF AddGlobal, InsertDocument, DeleteChunks
  <2>5. CASE AddUser(r)
    <3> DEFINE rest == Tail(req[r].due)
               p == IF rest = <<>> THEN "insert_document" ELSE "check_global"
               n == [req[r] EXCEPT !.due = rest, !.pc = p]
    <3>1. Moves(r, n) /\ p \in DocumentPCs
      BY <1>7, <2>5 DEF AddUser, Budgeting
    <3> HIDE DEF p, rest
    <3>2. n.pc = p
      BY <1>0 DEF Request
    <3> HIDE DEF n
    <3> QED
      BY <3>1, <3>2
  <2>6. CASE ChunkFails(r) \/ DeleteRefused(r)
    BY <2>2, <2>6 DEF ChunkFails, DeleteRefused
  <2>7. CASE StoreChunk(r)
    <3>1. [req[r] EXCEPT !.stored = @ + 1].pc = "chunks" /\ "chunks" \in DocumentPCs
      BY <1>0, <1>7, <2>7 DEF StoreChunk, At, Request
    <3>2. Moves(r, IF MoreChunks(r) THEN [req[r] EXCEPT !.stored = @ + 1] ELSE AfterDocument(r))
      BY <2>7 DEF StoreChunk
    <3> QED
      BY <1>4, <3>1, <3>2
  <2>8. CASE Lookup(r)
    BY <2>1, <2>2, <2>8 DEF Lookup
  <2>9. CASE DeleteDocument(r)
    BY <1>4, <2>9 DEF DeleteDocument
  <2> QED
    BY <2>3, <2>4, <2>5, <2>6, <2>7, <2>8, <2>9 DEF HandleDocument
<1> QED
  BY <1>1, <1>5, <1>6, <1>8, <1>9

LEMMA ReplyAside ==
  ASSUME Typed, NEW r \in Requests, Reply(r)
  PROVE  Aside(r)
<1>1. /\ req[r].pc = "answering" /\ UNCHANGED <<tool, sessions, workflow, writes, past>>
      /\ Becomes(r, "save", req[r].action, req[r].ctx)
  BY ReplySound DEF Reply, At, store
<1>2. req[r].action = NoAction
  BY <1>1, RequestTyped DEF Shape
<1>3. \A a \in Actions :
        /\ ~Proposing(r, a) /\ ~Proposing(r, a)'
        /\ r \notin Under(a) /\ r \notin Under(a)'
        /\ Carries(r, a)' => Carries(r, a)
  BY <1>1, <1>2, ConstantsOK DEF Proposing, Under, Carries, Becomes, Holding, Confirming
<1> QED
  BY <1>1, <1>3 DEF Aside, Becomes, Confirming

\* A request that has loaded its session, and works on no action of it.
Loads(r) ==
  /\ req[r].pc = "load"
  /\ \E p \in {"answering", "save"}, c \in Context :
       Becomes(r, p, NoAction, c) /\ c.pending = sessions[req[r].session].pending
  /\ UNCHANGED <<tool, sessions, workflow, writes, past>>

LEMMA LoadsConfirmed ==
  ASSUME Typed, Confirmed, NEW r \in Requests, Loads(r)
  PROVE  Confirmed' /\ AuditQuiet(r)
<1>1. \A q \in Requests \ {r} : req'[q] = req[q]
  BY DEF Loads, Becomes
<1>2. /\ req'[r].session = req[r].session /\ req'[r].action = NoAction
      /\ req'[r].ctx.pending = sessions[req[r].session].pending
      /\ req'[r].pc \in {"answering", "save"} /\ req[r].session \in Sessions
  BY RequestTyped DEF Loads, Becomes, Shape
<1>3. /\ \A a \in Actions : ~Carries(r, a) /\ ~Proposing(r, a) /\ ~Proposing(r, a)'
                             /\ r \notin Under(a) /\ r \notin Under(a)'
                             /\ (Carries(r, a)' => a \in sessions[req[r].session].pending)
  BY <1>2, ConstantsOK DEF Carries, Proposing, Under, Loads, Holding, Confirming
<1>4. \A q \in Requests, a \in Actions :
        /\ Carries(q, a)' => Carries(q, a) \/ (q = r /\ a \in sessions[req[r].session].pending)
        /\ req'[q].session = req[q].session
        /\ Proposing(q, a)' <=> Proposing(q, a)
        /\ q \in Under(a)' <=> q \in Under(a)
        /\ Proposing(q, a) => req'[q] = req[q] /\ q # r
  BY <1>1, <1>2, <1>3, OthersStay
<1>5. \A a \in Actions : Under(a)' = Under(a)
  BY <1>4 DEF Under
<1>6. sessions' = sessions /\ workflow' = workflow /\ writes' = writes /\ past' = past /\ tool' = tool
  BY DEF Loads
<1>7. FreshUnknown'
  BY <1>2, <1>4, <1>6 DEF Confirmed, FreshUnknown
<1>8. OneHome'
  <2> SUFFICES ASSUME NEW a \in Actions
               PROVE  \E h \in Sessions \cup {NoSession} :
                        /\ \A s \in Sessions : a \in sessions[s].pending => s = h
                        /\ \A q \in Requests : Carries(q, a)' => req'[q].session = h
    BY <1>6 DEF OneHome
  <2>1. PICK h \in Sessions \cup {NoSession} :
          /\ \A s \in Sessions : a \in sessions[s].pending => s = h
          /\ \A q \in Requests : Carries(q, a) => req[q].session = h
    BY DEF Confirmed, OneHome
  <2>2. \A q \in Requests : Carries(q, a)' => req'[q].session = h
    BY <1>2, <1>4, <2>1
  <2> QED
    BY <2>1, <2>2
<1>9. ProposerAlone'
  <2> SUFFICES ASSUME NEW a \in Actions, NEW q \in Requests, Proposing(q, a)
               PROVE  /\ past.attempts[a] = 0
                      /\ \A s \in Sessions : a \notin sessions[s].pending
                      /\ \A p \in Requests \ {q} : ~Carries(p, a)'
                      /\ req'[q].pc = "row" => workflow[a].status = "none"
                      /\ req'[q].pc # "row" => workflow[a].session = req'[q].session
    BY <1>4, <1>6 DEF ProposerAlone
  <2>1. req'[q] = req[q]
    BY <1>4
  <2> QED
    BY <1>2, <1>4, <2>1 DEF Confirmed, ProposerAlone
<1>10. Untried' /\ SpareExcuse' /\ RepeatsExplained'
  BY <1>5, <1>6 DEF Confirmed, Untried, SpareExcuse, RepeatsExplained
<1>11. ProposalKept'
  <2> SUFFICES ASSUME NEW a \in Actions, workflow[a].status = "awaiting_review",
                      past.attempts[a] = 0
               PROVE  \/ a \in sessions[workflow[a].session].pending
                      \/ a \in past.lost
                      \/ \E q \in Requests :
                           req'[q].action = a /\ req'[q].pc \in {"step", "save"} /\ a \in req'[q].ctx.pending
    BY <1>6 DEF ProposalKept
  <2>1. ASSUME NEW q \in Requests, req[q].action = a, req[q].pc \in {"step", "save"},
               a \in req[q].ctx.pending
        PROVE  req'[q] = req[q]
    BY <1>4, <2>1 DEF Proposing
  <2> QED
    BY <2>1 DEF Confirmed, ProposalKept
<1>12. AuditQuiet(r)
  BY <1>1, <1>2, <1>3, <1>6, Known DEF AuditQuiet, Loads, Confirming
<1> QED
  BY <1>7, <1>8, <1>9, <1>10, <1>11, <1>12 DEF Confirmed

\* A confirmed action is taken from the copy of the session.
LEMMA FoundConfirmed ==
  ASSUME Typed, Confirmed, NEW r \in Requests, Found(r),
         UNCHANGED <<tool, sessions, workflow, writes>>
  PROVE  Confirmed'
<1>0. req[r].action \in Actions
  BY DEF Found
<1>b. PICK b \in Actions : b = req[r].action
  BY <1>0
<1>1. \A q \in Requests \ {r} : req'[q] = req[q]
  BY DEF Found, Becomes
<1>2. /\ req[r].pc = "load" /\ req[r].session \in Sessions
      /\ b \in sessions[req[r].session].pending
      /\ sessions[req[r].session] \in Context
  BY <1>b, RequestTyped, Known DEF Found, Shape
<1>3. /\ req'[r].session = req[r].session /\ req'[r].action = b
      /\ req'[r].ctx.pending = sessions[req[r].session].pending \ {b}
      /\ req'[r].pc = "tool" /\ req'[r].op = "chat"
  BY <1>b, <1>2 DEF Found, Becomes, Popped, Context
<1>4. /\ past'.used = past.used /\ past'.lost = past.lost
      /\ past'.attempts = [past.attempts EXCEPT ![b] = @ + 1]
      /\ past'.excuses = [past.excuses EXCEPT ![b] = @ + (IF Under(b) = {} THEN 0 ELSE 1)]
  <2>1. past \in Past
    BY RequestTyped
  <2>2. past' = [past EXCEPT !.attempts[b] = @ + 1,
       !.excuses[b] = @ + (IF Under(b) = {} THEN 0 ELSE 1),
       !.overlapped = @ \cup {x \in {b} : Under(b) # {}}]
    BY <1>b DEF Found
  <2> QED
    BY <2>1, <2>2 DEF Past
<1>5. \A a \in Actions :
        /\ ~Carries(r, a) /\ ~Proposing(r, a) /\ ~Proposing(r, a)' /\ r \notin Under(a)
        /\ Carries(r, a)' => a \in sessions[req[r].session].pending
        /\ r \in Under(a)' <=> a = b
  BY <1>2, <1>3 DEF Carries, Proposing, Under, Holding, Confirming
<1>6. \A q \in Requests, a \in Actions :
        /\ Carries(q, a)' => Carries(q, a) \/ (q = r /\ a \in sessions[req[r].session].pending)
        /\ req'[q].session = req[q].session
        /\ Proposing(q, a)' <=> Proposing(q, a)
        /\ Proposing(q, a) => req'[q] = req[q] /\ q # r
  BY <1>1, <1>3, <1>5, OthersStay
<1>7. \A a \in Actions : Under(a)' = IF a = b THEN Under(a) \cup {r} ELSE Under(a)
  <2>1. \A a \in Actions, q \in Requests \ {r} : q \in Under(a)' <=> q \in Under(a)
    BY <1>1, OthersStay
  <2> QED
    BY <1>5, <2>1 DEF Under
<1>8. /\ past.attempts[b] \in Nat /\ past.excuses[b] \in Nat
      /\ past'.attempts[b] = past.attempts[b] + 1
      /\ past'.excuses[b] = past.excuses[b] + (IF Under(b) = {} THEN 0 ELSE 1)
      /\ \A a \in Actions \ {b} :
           past'.attempts[a] = past.attempts[a] /\ past'.excuses[a] = past.excuses[a]
  BY <1>4, Known
<1>9. FreshUnknown'
  <2>1. b \in past.used
    BY <1>2 DEF Confirmed, FreshUnknown
  <2> SUFFICES ASSUME NEW a \in Actions \ past.used
               PROVE  /\ \A s \in Sessions : a \notin sessions[s].pending
                      /\ \A q \in Requests : ~Carries(q, a)'
                      /\ workflow[a].status = "none" /\ past'.attempts[a] = 0
    BY <1>4 DEF FreshUnknown
  <2> QED
    BY <1>2, <1>6, <1>8, <2>1 DEF Confirmed, FreshUnknown
<1>10. OneHome'
  <2> SUFFICES ASSUME NEW a \in Actions
               PROVE  \E h \in Sessions \cup {NoSession} :
                        /\ \A s \in Sessions : a \in sessions[s].pending => s = h
                        /\ \A q \in Requests : Carries(q, a)' => req'[q].session = h
    BY DEF OneHome
  <2>1. PICK h \in Sessions \cup {NoSession} :
          /\ \A s \in Sessions : a \in sessions[s].pending => s = h
          /\ \A q \in Requests : Carries(q, a) => req[q].session = h
    BY DEF Confirmed, OneHome
  <2>2. \A q \in Requests : Carries(q, a)' => req'[q].session = h
    BY <1>2, <1>6, <2>1
  <2> QED
    BY <2>1, <2>2
<1>11. ProposerAlone'
  <2> SUFFICES ASSUME NEW a \in Actions, NEW q \in Requests, Proposing(q, a)
               PROVE  /\ past'.attempts[a] = 0
                      /\ \A s \in Sessions : a \notin sessions[s].pending
                      /\ \A p \in Requests \ {q} : ~Carries(p, a)'
                      /\ req'[q].pc = "row" => workflow[a].status = "none"
                      /\ req'[q].pc # "row" => workflow[a].session = req'[q].session
    BY <1>6 DEF ProposerAlone
  <2>1. req'[q] = req[q]
    BY <1>6
  <2>2. \A s \in Sessions : a \notin sessions[s].pending
    BY DEF Confirmed, ProposerAlone
  <2>3. a # b
    BY <1>2, <2>2
  <2> QED
    BY <1>2, <1>6, <1>8, <2>1, <2>2, <2>3 DEF Confirmed, ProposerAlone
<1>12. Untried'
  <2> SUFFICES ASSUME NEW a \in Actions, past'.attempts[a] = 0
               PROVE  /\ writes[a] = 0 /\ workflow[a].closings = 0 /\ Under(a)' = {}
                      /\ workflow[a].status \in {"none", "awaiting_review"}
    BY DEF Untried
  <2>1. a # b
    BY <1>8
  <2> QED
    BY <1>7, <1>8, <2>1 DEF Confirmed, Untried
<1>13. SpareExcuse' /\ RepeatsExplained'
  <2>1. ASSUME NEW a \in Actions
        PROVE  /\ (\E s \in Sessions : a \in sessions[s].pending) /\ Under(a)' = {} =>
                    past'.attempts[a] <= past'.excuses[a]
               /\ past'.attempts[a] <= 1 + past'.excuses[a]
    <3>1. CASE a # b
      BY <1>7, <1>8, <3>1 DEF Confirmed, SpareExcuse, RepeatsExplained
    <3>2. CASE a = b
      <4>1. Under(b)' # {}
        BY <1>7
      <4>2. past.attempts[b] <= 1 + past.excuses[b]
            /\ (Under(b) = {} => past.attempts[b] <= past.excuses[b])
        BY <1>2 DEF Confirmed, SpareExcuse, RepeatsExplained
      <4>3. PICK x, y \in Nat : x = past.attempts[b] /\ y = past.excuses[b]
        BY <1>8
      <4>4. past'.attempts[b] <= 1 + past'.excuses[b]
        <5>1. CASE Under(b) = {}
          BY <1>8, <4>2, <4>3, <5>1
        <5>2. CASE Under(b) # {}
          BY <1>8, <4>2, <4>3, <5>2
        <5> QED
          BY <5>1, <5>2
      <4> QED
        BY <3>2, <4>1, <4>4
    <3> QED
      BY <3>1, <3>2
  <2> QED
    BY <2>1 DEF SpareExcuse, RepeatsExplained
<1>14. ProposalKept'
  <2> SUFFICES ASSUME NEW a \in Actions, workflow[a].status = "awaiting_review",
                      past'.attempts[a] = 0
               PROVE  \/ a \in sessions[workflow[a].session].pending
                      \/ a \in past.lost
                      \/ \E q \in Requests :
                           req'[q].action = a /\ req'[q].pc \in {"step", "save"} /\ a \in req'[q].ctx.pending
    BY <1>4 DEF ProposalKept
  <2>1. ASSUME NEW q \in Requests, req[q].action = a, req[q].pc \in {"step", "save"},
               a \in req[q].ctx.pending
        PROVE  req'[q] = req[q]
    BY <1>6, <2>1 DEF Proposing
  <2>2. past.attempts[a] = 0
    BY <1>8
  <2> QED
    BY <2>1, <2>2 DEF Confirmed, ProposalKept
<1> QED
  BY <1>9, <1>10, <1>11, <1>12, <1>13, <1>14 DEF Confirmed

\* The proposing request writes the review row, or the step of it.
Rows(r, b) ==
  /\ req[r].pc \in {"row", "step"} /\ b = req[r].action
  /\ \E p \in {"step", "save"} : Becomes(r, p, b, req[r].ctx)
  /\ UNCHANGED <<tool, sessions, writes, past>>
  /\ \A a \in Actions \ {b} : workflow'[a] = workflow[a]
  /\ workflow'[b].session = req[r].session
  /\ workflow'[b].status \in {"none", "awaiting_review"}
  /\ \/ workflow'[b].closings = 0
     \/ /\ workflow'[b].status = workflow[b].status
        /\ workflow'[b].closings = workflow[b].closings

LEMMA RowsConfirmed ==
  ASSUME Typed, Confirmed, NEW r \in Requests, NEW b \in Actions, Rows(r, b)
  PROVE  Confirmed' /\ AuditQuiet(r)
<1>1. \A q \in Requests \ {r} : req'[q] = req[q]
  BY DEF Rows, Becomes
<1>2. /\ req'[r].session = req[r].session /\ req'[r].action = b /\ req[r].action = b
      /\ req'[r].ctx = req[r].ctx /\ req'[r].pc \in {"step", "save"}
      /\ req[r].pc \in {"row", "step"} /\ b \in req[r].ctx.pending
  BY RequestTyped DEF Rows, Becomes, Shape
<1>3. /\ Proposing(r, b) /\ Proposing(r, b)'
      /\ \A a \in Actions :
           /\ Carries(r, a)' <=> Carries(r, a)
           /\ Proposing(r, a) <=> a = b
           /\ Proposing(r, a)' <=> a = b
           /\ r \notin Under(a) /\ r \notin Under(a)'
  BY <1>2 DEF Carries, Proposing, Under, Holding, Confirming
<1>4. \A q \in Requests, a \in Actions :
        /\ Carries(q, a)' <=> Carries(q, a)
        /\ req'[q].session = req[q].session
        /\ Proposing(q, a)' <=> Proposing(q, a)
        /\ Proposing(q, a) /\ q # r => req'[q] = req[q]
        /\ q \in Under(a)' <=> q \in Under(a)
  BY <1>1, <1>2, <1>3, OthersStay
<1>5. \A a \in Actions : Under(a)' = Under(a)
  BY <1>4 DEF Under
<1>6. sessions' = sessions /\ writes' = writes /\ past' = past /\ tool' = tool
  BY DEF Rows
<1>7. /\ past.attempts[b] = 0 /\ \A s \in Sessions : b \notin sessions[s].pending
      /\ \A q \in Requests \ {r} : ~Carries(q, b)
      /\ Carries(r, b)
  BY <1>2, <1>3 DEF Confirmed, ProposerAlone, Carries, Holding
<1>8. FreshUnknown'
  <2>1. b \in past.used
    BY <1>7 DEF Confirmed, FreshUnknown
  <2> QED
    BY <1>4, <1>6, <2>1 DEF Confirmed, FreshUnknown, Rows
<1>9. OneHome'
  BY <1>4, <1>6 DEF Confirmed, OneHome
<1>10. ProposerAlone'
  <2> SUFFICES ASSUME NEW a \in Actions, NEW q \in Requests, Proposing(q, a)
               PROVE  /\ past.attempts[a] = 0
                      /\ \A s \in Sessions : a \notin sessions[s].pending
                      /\ \A p \in Requests \ {q} : ~Carries(p, a)
                      /\ req'[q].pc = "row" => workflow'[a].status = "none"
                      /\ req'[q].pc # "row" => workflow'[a].session = req'[q].session
    BY <1>4, <1>6 DEF ProposerAlone
  <2>1. CASE q = r
    <3>1. a = b
      BY <1>3, <2>1
    <3> QED
      BY <1>2, <1>7, <2>1, <3>1 DEF Rows
  <2>2. CASE q # r
    <3>1. a # b
      <4>1. Carries(q, a)
        BY DEF Proposing, Carries, Holding
      <4> QED
        BY <1>7, <2>2, <4>1
    <3> QED
      BY <1>1, <2>2, <3>1 DEF Confirmed, ProposerAlone, Rows
  <2> QED
    BY <2>1, <2>2
<1>11. Untried'
  BY <1>5, <1>6 DEF Confirmed, Untried, Rows
<1>12. SpareExcuse' /\ RepeatsExplained'
  BY <1>5, <1>6 DEF Confirmed, SpareExcuse, RepeatsExplained
<1>13. ProposalKept'
  <2> SUFFICES ASSUME NEW a \in Actions, workflow'[a].status = "awaiting_review",
                      past.attempts[a] = 0
               PROVE  \/ a \in sessions[workflow'[a].session].pending
                      \/ a \in past.lost
                      \/ \E q \in Requests :
                           req'[q].action = a /\ req'[q].pc \in {"step", "save"} /\ a \in req'[q].ctx.pending
    BY <1>6 DEF ProposalKept
  <2>1. CASE a = b
    BY <1>2, <2>1
  <2>2. CASE a # b
    <3>1. workflow'[a] = workflow[a]
      BY <2>2 DEF Rows
    <3>2. ASSUME NEW q \in Requests, req[q].action = a, req[q].pc \in {"step", "save"},
                 a \in req[q].ctx.pending
          PROVE  req'[q] = req[q]
      BY <1>1, <1>2, <2>2, <3>2
    <3> QED
      BY <3>1, <3>2 DEF Confirmed, ProposalKept
  <2> QED
    BY <2>1, <2>2
<1>14. AuditQuiet(r)
  <2> SUFFICES ASSUME NEW a \in Actions
               PROVE  /\ r \notin Under(a)'
                      /\ past'.excuses[a] >= past.excuses[a]
                      /\ req[r].pc \notin Confirming
                      /\ \/ /\ tool'[a] = tool[a] /\ workflow'[a].status = workflow[a].status
                            /\ workflow'[a].closings = workflow[a].closings
                         \/ /\ past.attempts[a] = 0 /\ workflow'[a].closings = 0
                            /\ workflow'[a].status \in {"none", "awaiting_review"}
    BY <1>1, <1>2, <1>6 DEF AuditQuiet, Confirming
  <2>1. CASE a = b
    BY <1>2, <1>3, <1>6, <1>7, <2>1, Known DEF Rows, Confirming
  <2>2. CASE a # b
    BY <1>2, <1>3, <1>6, <2>2, Known DEF Rows, Confirming
  <2> QED
    BY <2>1, <2>2
<1> QED
  BY <1>8, <1>9, <1>10, <1>11, <1>12, <1>13, <1>14 DEF Confirmed

LEMMA InsertRowConfirmed ==
  ASSUME Typed, Confirmed, NEW r \in Requests, InsertRow(r) \/ InsertStep(r)
  PROVE  Confirmed' /\ AuditQuiet(r)
<1>0. req[r].pc \in {"row", "step"}
  BY DEF InsertRow, InsertStep, At
<1>1. req[r].action \in Actions /\ req[r].ctx \in Context /\ req[r].action \in req[r].ctx.pending
  BY <1>0, RequestTyped DEF Shape, Holding, Context
<1>2. PICK b \in Actions : b = req[r].action
  BY <1>1
<1>3. Proposing(r, b)
  BY <1>0, <1>1, <1>2 DEF Proposing
<1>4. workflow \in [Actions -> Workflow]
  BY RequestTyped DEF StoreTyped
<1>5. CASE InsertRow(r)
  <2> DEFINE w == [NoRow EXCEPT !.status = "awaiting_review", !.session = req[r].session,
                                !.source = req[r].doc]
  <2>1. workflow' = [workflow EXCEPT ![b] = w] /\ UNCHANGED <<tool, sessions, writes, past>>
    BY <1>2, <1>5 DEF InsertRow
  <2>2. w.status = "awaiting_review" /\ w.session = req[r].session /\ w.closings = 0
    BY DEF NoRow
  <2> HIDE DEF w
  <2>3. workflow'[b] = w /\ \A a \in Actions \ {b} : workflow'[a] = workflow[a]
    BY <1>4, <2>1
  <2>4. Rows(r, b)
    BY <1>0, <1>2, <1>5, <2>1, <2>2, <2>3, InsertRowSound DEF Rows
  <2> QED
    BY <2>4, RowsConfirmed
<1>6. CASE InsertStep(r)
  <2> DEFINE w == [workflow[b] EXCEPT !.proposals = 1]
  <2>1. workflow' = [workflow EXCEPT ![b] = w] /\ UNCHANGED <<tool, sessions, writes, past>>
    BY <1>2, <1>6 DEF InsertStep
  <2>2. w.status = workflow[b].status /\ w.session = workflow[b].session
        /\ w.closings = workflow[b].closings
    BY <1>4 DEF Workflow
  <2> HIDE DEF w
  <2>3. workflow'[b] = w /\ \A a \in Actions \ {b} : workflow'[a] = workflow[a]
    BY <1>4, <2>1
  <2>4. req[r].pc = "step"
    BY <1>6 DEF InsertStep, At
  <2>5. workflow[b].session = req[r].session /\ workflow[b].status \in {"none", "awaiting_review"}
    BY <1>3, <2>4 DEF Confirmed, ProposerAlone, Untried
  <2>6. Rows(r, b)
    BY <1>0, <1>2, <1>6, <2>1, <2>2, <2>3, <2>5, InsertStepSound DEF Rows
  <2> QED
    BY <2>6, RowsConfirmed
<1> QED
  BY <1>5, <1>6

\* A new action appears with the request that proposes it.
LEMMA ProposeConfirmed ==
  ASSUME Typed, Confirmed, NEW r \in Requests, NEW b \in Actions, NEW kind \in Kinds,
         NEW d \in Docs \cup {NoDoc}, Propose(r, b, kind, d)
  PROVE  Confirmed' /\ AuditQuiet(r)
<1>1. /\ req[r].pc = "answering" /\ b \notin past.used
      /\ sessions' = sessions /\ workflow' = workflow /\ writes' = writes
      /\ tool' = [tool EXCEPT ![b] = kind] /\ past' = [past EXCEPT !.used = @ \cup {b}]
  BY DEF Propose, At, store
<1>2. /\ past'.used = past.used \cup {b} /\ past'.attempts = past.attempts
      /\ past'.excuses = past.excuses /\ past'.lost = past.lost
      /\ past'.overlapped = past.overlapped
  BY <1>1, RequestTyped DEF Past
<1>3. Becomes(r, "row", b, Proposed(req[r].ctx, b))
  BY ProposeSound
<1>4. req[r].action = NoAction /\ req[r].ctx \in Context /\ req[r].session \in Sessions
  BY <1>1, RequestTyped DEF Shape, Holding
<1>5. /\ \A q \in Requests \ {r} : req'[q] = req[q]
      /\ req'[r].pc = "row" /\ req'[r].session = req[r].session /\ req'[r].action = b
      /\ req'[r].ctx.pending = req[r].ctx.pending \cup {b}
  BY <1>3, <1>4 DEF Becomes, Proposed, Context
<1>6. \A a \in Actions :
        /\ Carries(r, a)' <=> Carries(r, a) \/ a = b
        /\ ~Proposing(r, a) /\ (Proposing(r, a)' <=> a = b)
        /\ r \notin Under(a) /\ r \notin Under(a)'
  BY <1>1, <1>4, <1>5, ConstantsOK DEF Carries, Proposing, Under, Holding, Confirming
<1>7. \A q \in Requests, a \in Actions :
        /\ Carries(q, a)' => Carries(q, a) \/ (q = r /\ a = b)
        /\ req'[q].session = req[q].session
        /\ Proposing(q, a)' => (Proposing(q, a) /\ q # r) \/ (q = r /\ a = b)
        /\ Proposing(q, a) => req'[q] = req[q] /\ q # r
        /\ q \in Under(a)' <=> q \in Under(a)
  BY <1>5, <1>6, OthersStay
<1>8. \A a \in Actions : Under(a)' = Under(a)
  BY <1>7 DEF Under
<1>9. /\ \A s \in Sessions : b \notin sessions[s].pending
      /\ \A q \in Requests : ~Carries(q, b)
      /\ workflow[b].status = "none" /\ past.attempts[b] = 0 /\ workflow[b].closings = 0
  BY <1>1 DEF Confirmed, FreshUnknown, Untried
<1>10. FreshUnknown'
  BY <1>1, <1>2, <1>7 DEF Confirmed, FreshUnknown
<1>11. OneHome'
  <2> SUFFICES ASSUME NEW a \in Actions
               PROVE  \E h \in Sessions \cup {NoSession} :
                        /\ \A s \in Sessions : a \in sessions[s].pending => s = h
                        /\ \A q \in Requests : Carries(q, a)' => req'[q].session = h
    BY <1>1 DEF OneHome
  <2>1. CASE a = b
    BY <1>4, <1>7, <1>9, <2>1
  <2>2. CASE a # b
    BY <1>7, <2>2 DEF Confirmed, OneHome
  <2> QED
    BY <2>1, <2>2
<1>12. ProposerAlone'
  <2> SUFFICES ASSUME NEW a \in Actions, NEW q \in Requests, Proposing(q, a)'
               PROVE  /\ past.attempts[a] = 0
                      /\ \A s \in Sessions : a \notin sessions[s].pending
                      /\ \A p \in Requests \ {q} : ~Carries(p, a)'
                      /\ req'[q].pc = "row" => workflow[a].status = "none"
                      /\ req'[q].pc # "row" => workflow[a].session = req'[q].session
    BY <1>1, <1>2 DEF ProposerAlone
  <2>1. CASE q = r /\ a = b
    BY <1>5, <1>7, <1>9, <2>1
  <2>2. CASE Proposing(q, a) /\ q # r
    <3>1. Carries(q, a)
      BY <2>2 DEF Proposing, Carries, Holding
    <3>2. a # b
      BY <1>9, <3>1
    <3> QED
      BY <1>5, <1>7, <2>2, <3>2 DEF Confirmed, ProposerAlone
  <2> QED
    BY <1>7, <2>1, <2>2
<1>13. Untried' /\ SpareExcuse' /\ RepeatsExplained'
  BY <1>1, <1>2, <1>8 DEF Confirmed, Untried, SpareExcuse, RepeatsExplained
<1>14. ProposalKept'
  <2> SUFFICES ASSUME NEW a \in Actions, workflow[a].status = "awaiting_review",
                      past.attempts[a] = 0
               PROVE  \/ a \in sessions[workflow[a].session].pending
                      \/ a \in past.lost
                      \/ \E q \in Requests :
                           req'[q].action = a /\ req'[q].pc \in {"step", "save"} /\ a \in req'[q].ctx.pending
    BY <1>1, <1>2 DEF ProposalKept
  <2>1. ASSUME NEW q \in Requests, req[q].action = a, req[q].pc \in {"step", "save"},
               a \in req[q].ctx.pending
        PROVE  req'[q] = req[q]
    BY <1>7, <2>1 DEF Proposing
  <2> QED
    BY <2>1 DEF Confirmed, ProposalKept
<1>15. AuditQuiet(r)
  <2> SUFFICES ASSUME NEW a \in Actions
               PROVE  /\ r \notin Under(a)'
                      /\ past'.excuses[a] >= past.excuses[a]
                      /\ req[r].pc \notin Confirming
                      /\ \/ /\ tool'[a] = tool[a] /\ workflow'[a].status = workflow[a].status
                            /\ workflow'[a].closings = workflow[a].closings
                         \/ /\ past.attempts[a] = 0 /\ workflow'[a].closings = 0
                            /\ workflow'[a].status \in {"none", "awaiting_review"}
    BY <1>1, <1>2, <1>5 DEF AuditQuiet, Confirming
  <2>1. tool \in [Actions -> Kinds \cup {"none"}]
    BY RequestTyped
  <2>2. CASE a = b
    BY <1>1, <1>2, <1>6, <1>9, <2>2, Known DEF Confirming
  <2>3. CASE a # b
    BY <1>1, <1>2, <1>6, <2>1, <2>3, Known DEF Confirming
  <2> QED
    BY <2>2, <2>3
<1> QED
  BY <1>10, <1>11, <1>12, <1>13, <1>14, <1>15 DEF Confirmed

\* What stays when a confirmed action is carried out.
Carried(r, b) ==
  /\ b = req[r].action /\ r \in Under(b) /\ r \in Under(b)'
  /\ req[r].pc \in Confirming
  /\ \A q \in Requests \ {r} : req'[q] = req[q]
  /\ req'[r].pc \in Confirming \cup {"save"}
  /\ req'[r].session = req[r].session /\ req'[r].action = b /\ req'[r].ctx = req[r].ctx
  /\ tool' = tool /\ sessions' = sessions /\ past' = past
  /\ \A a \in Actions \ {b} : workflow'[a] = workflow[a] /\ writes'[a] = writes[a]
  /\ workflow'[b].session = workflow[b].session

LEMMA ExecutingCarried ==
  ASSUME Typed, NEW r \in Requests, Executing(r)
  PROVE  \E b \in Actions : Carried(r, b)
<1>1. PICK n \in Request :
        /\ req[r].pc \in Confirming /\ Moves(r, n) /\ Shape(n)
        /\ n.pc \in Confirming \cup {"save"}
        /\ n.op = req[r].op /\ n.session = req[r].session /\ n.action = req[r].action
        /\ n.doc = req[r].doc /\ n.ctx = req[r].ctx
  BY ExecutingMoves DEF Executes
<1>2. /\ req[r].op = "chat" /\ req[r].action \in Actions
      /\ req[r].action \notin req[r].ctx.pending
  BY <1>1, RequestTyped DEF Shape
<1>3. PICK b \in Actions : b = req[r].action
  BY <1>2
<1>4. req'[r] = n /\ \A q \in Requests \ {r} : req'[q] = req[q]
  BY <1>1, MovedOnly DEF Typed, TypeOK
<1>5. r \in Under(b) /\ r \in Under(b)'
  BY <1>1, <1>2, <1>3, <1>4 DEF Under
<1>6. workflow \in [Actions -> Workflow] /\ writes \in [Actions -> Nat]
  BY RequestTyped DEF StoreTyped
<1>7. UNCHANGED <<tool, sessions, past>>
  BY DEF Executing, ToolFails, ToolSearches, ToolWrites, HistoryWrites, FindRow, Close,
         RecordStep, store
<1>8. /\ \A a \in Actions \ {b} : workflow'[a] = workflow[a] /\ writes'[a] = writes[a]
      /\ workflow'[b].session = workflow[b].session
  <2>1. CASE UNCHANGED store
    BY <2>1 DEF store
  <2>2. CASE ToolWrites(r)
    BY <1>3, <1>6, <2>2 DEF ToolWrites
  <2>3. CASE Close(r)
    <3> DEFINE o == Outcome(req[r])
    <3>1. workflow' = [workflow EXCEPT ![b].status = o] /\ writes' = writes
      BY <1>3, <2>3 DEF Close
    <3> HIDE DEF o
    <3> QED
      BY <1>6, <3>1 DEF Workflow
  <2>4. CASE RecordStep(r)
    <3>1. workflow' = [workflow EXCEPT ![b].closings = @ + 1] /\ writes' = writes
      BY <1>3, <2>4 DEF RecordStep
    <3> QED
      BY <1>6, <3>1 DEF Workflow
  <2> QED
    BY <2>1, <2>2, <2>3, <2>4 DEF Executing, ToolFails, ToolSearches, HistoryWrites, FindRow
<1> QED
  BY <1>1, <1>3, <1>4, <1>5, <1>7, <1>8 DEF Carried

LEMMA CarriedConfirmed ==
  ASSUME Typed, Confirmed, NEW r \in Requests, NEW b \in Actions, Carried(r, b)
  PROVE  Confirmed'
<1>1. \A a \in Actions :
        /\ Carries(r, a)' <=> Carries(r, a)
        /\ ~Proposing(r, a) /\ ~Proposing(r, a)'
        /\ r \in Under(a)' <=> r \in Under(a)
  BY DEF Carried, Carries, Proposing, Under, Holding, Confirming
<1>2. \A q \in Requests, a \in Actions :
        /\ Carries(q, a)' <=> Carries(q, a)
        /\ req'[q].session = req[q].session
        /\ Proposing(q, a)' <=> Proposing(q, a)
        /\ Proposing(q, a) => req'[q] = req[q] /\ q # r
        /\ q \in Under(a)' <=> q \in Under(a)
  BY <1>1, OthersStay DEF Carried
<1>3. \A a \in Actions : Under(a)' = Under(a)
  BY <1>2 DEF Under
<1>4. /\ sessions' = sessions /\ past' = past /\ tool' = tool
      /\ \A a \in Actions \ {b} : workflow'[a] = workflow[a] /\ writes'[a] = writes[a]
  BY DEF Carried
<1>5. past.attempts[b] # 0 /\ Carries(r, b) /\ b \in past.used
  <2>1. Carries(r, b)
    BY DEF Carried, Carries, Holding
  <2>2. past.attempts[b] # 0
    BY DEF Confirmed, Untried, Carried
  <2> QED
    BY <2>1, <2>2 DEF Confirmed, FreshUnknown
<1>6. FreshUnknown'
  BY <1>2, <1>4, <1>5 DEF Confirmed, FreshUnknown
<1>7. OneHome'
  BY <1>2, <1>4 DEF Confirmed, OneHome
<1>8. ProposerAlone'
  <2> SUFFICES ASSUME NEW a \in Actions, NEW q \in Requests, Proposing(q, a)
               PROVE  /\ past.attempts[a] = 0
                      /\ \A s \in Sessions : a \notin sessions[s].pending
                      /\ \A p \in Requests \ {q} : ~Carries(p, a)
                      /\ req'[q].pc = "row" => workflow'[a].status = "none"
                      /\ req'[q].pc # "row" => workflow'[a].session = req'[q].session
    BY <1>2, <1>4 DEF ProposerAlone
  <2>1. past.attempts[a] = 0
    BY DEF Confirmed, ProposerAlone
  <2>2. a # b
    BY <1>5, <2>1
  <2> QED
    BY <1>2, <1>4, <2>2 DEF Confirmed, ProposerAlone
<1>9. Untried'
  <2> SUFFICES ASSUME NEW a \in Actions, past.attempts[a] = 0
               PROVE  /\ writes'[a] = 0 /\ workflow'[a].closings = 0 /\ Under(a) = {}
                      /\ workflow'[a].status \in {"none", "awaiting_review"}
    BY <1>3, <1>4 DEF Untried
  <2>1. a # b
    BY <1>5
  <2> QED
    BY <1>4, <2>1 DEF Confirmed, Untried
<1>10. SpareExcuse' /\ RepeatsExplained'
  BY <1>3, <1>4 DEF Confirmed, SpareExcuse, RepeatsExplained
<1>11. ProposalKept'
  <2> SUFFICES ASSUME NEW a \in Actions, workflow'[a].status = "awaiting_review",
                      past.attempts[a] = 0
               PROVE  \/ a \in sessions[workflow'[a].session].pending
                      \/ a \in past.lost
                      \/ \E q \in Requests :
                           req'[q].action = a /\ req'[q].pc \in {"step", "save"} /\ a \in req'[q].ctx.pending
    BY <1>4 DEF ProposalKept
  <2>1. a # b
    BY <1>5
  <2>2. ASSUME NEW q \in Requests, req[q].action = a, req[q].pc \in {"step", "save"},
               a \in req[q].ctx.pending
        PROVE  req'[q] = req[q]
    BY <1>2, <2>2 DEF Proposing
  <2> QED
    BY <1>4, <2>1, <2>2 DEF Confirmed, ProposalKept
<1> QED
  BY <1>6, <1>7, <1>8, <1>9, <1>10, <1>11 DEF Confirmed

\* A request that ends before it has saved: what it had in hand is excused,
\* what it was to propose is lost.
Gone(r) ==
  /\ Leaves(r)
  /\ UNCHANGED <<tool, sessions, workflow, writes>>
  /\ past'.attempts = past.attempts /\ past'.used = past.used
  /\ past'.overlapped = past.overlapped
  /\ \A a \in Actions :
       past'.excuses[a] = past.excuses[a] + IF r \in Under(a) THEN 1 ELSE 0
  /\ past.lost \subseteq past'.lost
  /\ \A a \in Actions : Proposing(r, a) /\ req[r].pc # "row" => a \in past'.lost

LEMMA GoneConfirmed ==
  ASSUME Typed, Confirmed, NEW r \in Requests, Gone(r)
  PROVE  Confirmed' /\ AuditQuiet(r)
<1>1. \A q \in Requests \ {r} : req'[q] = req[q]
  BY DEF Gone, Leaves
<1>2. \A a \in Actions : ~Carries(r, a)' /\ ~Proposing(r, a)' /\ r \notin Under(a)'
  BY DEF Gone, Leaves, Carries, Proposing, Under, Holding
<1>3. \A q \in Requests, a \in Actions :
        /\ Carries(q, a)' => Carries(q, a) /\ q # r
        /\ Proposing(q, a)' => Proposing(q, a) /\ q # r
        /\ q \in Under(a)' <=> q \in Under(a) /\ q # r
        /\ q # r => req'[q] = req[q]
  BY <1>1, <1>2, OthersStay
<1>4. \A a \in Actions : Under(a)' = Under(a) \ {r}
  BY <1>3 DEF Under
<1>5. /\ sessions' = sessions /\ workflow' = workflow /\ writes' = writes /\ tool' = tool
      /\ past'.attempts = past.attempts /\ past'.used = past.used
  BY DEF Gone
<1>6. \A a \in Actions :
        /\ past.attempts[a] \in Nat /\ past.excuses[a] \in Nat
        /\ past'.excuses[a] = past.excuses[a] + IF r \in Under(a) THEN 1 ELSE 0
  BY Known DEF Gone
<1>7. FreshUnknown'
  BY <1>3, <1>5 DEF Confirmed, FreshUnknown
<1>8. OneHome'
  BY <1>3, <1>5 DEF Confirmed, OneHome
<1>9. ProposerAlone'
  <2> SUFFICES ASSUME NEW a \in Actions, NEW q \in Requests, Proposing(q, a)'
               PROVE  /\ past.attempts[a] = 0
                      /\ \A s \in Sessions : a \notin sessions[s].pending
                      /\ \A p \in Requests \ {q} : ~Carries(p, a)'
                      /\ req'[q].pc = "row" => workflow[a].status = "none"
                      /\ req'[q].pc # "row" => workflow[a].session = req'[q].session
    BY <1>5 DEF ProposerAlone
  <2> QED
    BY <1>3 DEF Confirmed, ProposerAlone
<1>10. Untried'
  BY <1>4, <1>5 DEF Confirmed, Untried
<1>11. SpareExcuse' /\ RepeatsExplained'
  <2>1. ASSUME NEW a \in Actions
        PROVE  /\ (\E s \in Sessions : a \in sessions[s].pending) /\ Under(a)' = {} =>
                    past.attempts[a] <= past'.excuses[a]
               /\ past.attempts[a] <= 1 + past'.excuses[a]
    <3>1. CASE r \in Under(a)
      <4>1. past'.excuses[a] = past.excuses[a] + 1
        BY <1>6, <3>1
      <4>2. past.attempts[a] <= 1 + past.excuses[a]
        BY DEF Confirmed, RepeatsExplained
      <4> QED
        BY <1>6, <4>1, <4>2
    <3>2. CASE r \notin Under(a)
      <4>1. past'.excuses[a] = past.excuses[a]
        BY <1>6, <3>2
      <4>2. Under(a)' = Under(a)
        BY <1>4, <3>2
      <4> QED
        BY <4>1, <4>2 DEF Confirmed, SpareExcuse, RepeatsExplained
    <3> QED
      BY <3>1, <3>2
  <2> QED
    BY <1>5, <2>1 DEF SpareExcuse, RepeatsExplained
<1>12. ProposalKept'
  <2> SUFFICES ASSUME NEW a \in Actions, workflow[a].status = "awaiting_review",
                      past.attempts[a] = 0
               PROVE  \/ a \in sessions[workflow[a].session].pending
                      \/ a \in past'.lost
                      \/ \E q \in Requests :
                           req'[q].action = a /\ req'[q].pc \in {"step", "save"} /\ a \in req'[q].ctx.pending
    BY <1>5 DEF ProposalKept
  <2>1. ASSUME NEW q \in Requests, req[q].action = a, req[q].pc \in {"step", "save"},
               a \in req[q].ctx.pending
        PROVE  a \in past'.lost \/ req'[q] = req[q]
    BY <1>3, <2>1 DEF Gone, Proposing
  <2>2. past.lost \subseteq past'.lost
    BY DEF Gone
  <2> QED
    BY <2>1, <2>2 DEF Confirmed, ProposalKept
<1>13. AuditQuiet(r)
  <2> SUFFICES ASSUME NEW a \in Actions
               PROVE  /\ past'.excuses[a] >= past.excuses[a]
                      /\ req[r].pc \in Confirming /\ req[r].action = a => past'.excuses[a] > 0
    <3>1. req'[r].pc \notin Confirming /\ past'.overlapped = past.overlapped
      BY DEF Gone, Leaves, Holding
    <3> QED
      BY <1>1, <1>2, <1>5, <3>1 DEF AuditQuiet
  <2>1. req[r].pc \in Confirming /\ req[r].action = a => r \in Under(a)
    BY RequestTyped DEF Shape, Under
  <2> QED
    BY <1>6, <2>1
<1> QED
  BY <1>7, <1>8, <1>9, <1>10, <1>11, <1>12, <1>13 DEF Confirmed

LEMMA AbortGone ==
  ASSUME Typed, NEW r \in Requests, Abort(r)
  PROVE  Gone(r)
<1>1. UNCHANGED <<tool, sessions, workflow, writes>>
  BY DEF Abort, store
<1>2. \A a \in Actions : Proposing(r, a) /\ req[r].pc # "row" => a \in past'.lost
  BY AbortSound, ConstantsOK DEF Proposing
<1>3. \A a \in Actions : past'.excuses[a] = past.excuses[a] + IF r \in Under(a) THEN 1 ELSE 0
  BY AbortSound
<1> QED
  BY <1>1, <1>2, <1>3, AbortSound DEF Gone

LEMMA EndGone ==
  ASSUME Typed, NEW r \in Requests, AnswerFails(r) \/ RowRefused(r)
  PROVE  Gone(r)
<1>1. UNCHANGED <<tool, sessions, workflow, writes, past>> /\ req[r].pc \in {"answering", "row"}
  BY DEF AnswerFails, RowRefused, At, store
<1>2. \A a \in Actions : r \notin Under(a) /\ (Proposing(r, a) => req[r].pc = "row")
  BY <1>1 DEF Under, Proposing, Confirming
<1>3. \A a \in Actions : past'.excuses[a] = past.excuses[a] + IF r \in Under(a) THEN 1 ELSE 0
  BY <1>1, <1>2, Known
<1>4. Leaves(r)
  BY EndSound
<1> QED
  BY <1>1, <1>2, <1>3, <1>4 DEF Gone

\* The save puts back what its copy has and drops what it has not.
LEMMA SaveConfirmed ==
  ASSUME Typed, Confirmed, NEW r \in Requests, Save(r)
  PROVE  Confirmed' /\ AuditQuiet(r)
<1>0. /\ req[r].pc = "save" /\ req[r].session \in Sessions /\ req[r].ctx \in Context
  BY RequestTyped DEF Save, At, Shape, Holding
<1>s. PICK s \in Sessions : s = req[r].session
  BY <1>0
<1>c. PICK c \in Context : c = req[r].ctx
  BY <1>0
<1>b. PICK b \in Actions \cup {NoAction} : b = req[r].action
  BY RequestTyped DEF Request
<1>1. /\ sessions' = [sessions EXCEPT ![s] = c]
      /\ UNCHANGED <<tool, workflow, writes>> /\ sessions \in [Sessions -> Context]
  BY <1>s, <1>c, RequestTyped DEF Save, StoreTyped
<1>2. /\ sessions'[s] = c /\ \A z \in Sessions \ {s} : sessions'[z] = sessions[z]
      /\ c.pending \subseteq Actions /\ sessions[s].pending \subseteq Actions
  BY <1>1, Known DEF Context
<1>3. /\ past'.attempts = past.attempts /\ past'.used = past.used
      /\ past'.overlapped = past.overlapped
      /\ past'.lost = past.lost \cup Dropped(req[r])
      /\ past'.excuses = [a \in Actions |-> past.excuses[a] + IF a \in Revived(req[r]) THEN 1 ELSE 0]
  <2>1. past \in Past
    BY RequestTyped
  <2>2. past' = [past EXCEPT !.lost = @ \cup Dropped(req[r]),
       !.excuses = [a \in Actions |-> @[a] + IF a \in Revived(req[r]) THEN 1 ELSE 0]]
    BY DEF Save
  <2> QED
    BY <2>1, <2>2 DEF Past
<1>4. Leaves(r)
  BY SaveSound
<1>5. \A q \in Requests \ {r} : req'[q] = req[q]
  BY <1>4 DEF Leaves
<1>6. \A a \in Actions : ~Carries(r, a)' /\ ~Proposing(r, a)' /\ r \notin Under(a)'
  BY <1>4 DEF Leaves, Carries, Proposing, Under, Holding
<1>7. \A q \in Requests, a \in Actions :
        /\ Carries(q, a)' => Carries(q, a) /\ q # r
        /\ Proposing(q, a)' => Proposing(q, a) /\ q # r
        /\ q \in Under(a)' <=> q \in Under(a) /\ q # r
        /\ q # r => req'[q] = req[q]
  BY <1>5, <1>6, OthersStay
<1>8. \A a \in Actions : Under(a)' = Under(a) \ {r}
  BY <1>7 DEF Under
<1>9. \A a \in Actions :
        /\ past.attempts[a] \in Nat /\ past.excuses[a] \in Nat
        /\ past'.excuses[a] \in Nat
        /\ past'.excuses[a] >= past.excuses[a]
        /\ a \in c.pending /\ a # b /\ a \notin sessions[s].pending =>
             past'.excuses[a] = past.excuses[a] + 1
  <2> SUFFICES ASSUME NEW a \in Actions
               PROVE  /\ past.attempts[a] \in Nat /\ past.excuses[a] \in Nat
                      /\ past'.excuses[a] \in Nat
                      /\ past'.excuses[a] >= past.excuses[a]
                      /\ a \in c.pending /\ a # b /\ a \notin sessions[s].pending =>
                           past'.excuses[a] = past.excuses[a] + 1
    OBVIOUS
  <2>1. past'.excuses[a] = past.excuses[a] + IF a \in Revived(req[r]) THEN 1 ELSE 0
    BY <1>3
  <2>2. a \in c.pending /\ a # b /\ a \notin sessions[s].pending => a \in Revived(req[r])
    BY <1>s, <1>c, <1>b DEF Revived
  <2> QED
    BY <2>1, <2>2, Known
<1>10. \A a \in sessions[s].pending : a # b /\ a \notin c.pending => a \in past'.lost
  BY <1>3, <1>s, <1>c, <1>b DEF Dropped
<1>11. \A a \in Actions : a \in c.pending \/ a = b => Carries(r, a)
  BY <1>0, <1>c, <1>b DEF Carries, Holding
<1>12. FreshUnknown'
  <2> SUFFICES ASSUME NEW a \in Actions \ past.used
               PROVE  /\ \A z \in Sessions : a \notin sessions'[z].pending
                      /\ \A q \in Requests : ~Carries(q, a)'
                      /\ workflow[a].status = "none" /\ past.attempts[a] = 0
    BY <1>1, <1>3 DEF FreshUnknown
  <2> QED
    BY <1>2, <1>7, <1>11 DEF Confirmed, FreshUnknown
<1>13. OneHome'
  <2> SUFFICES ASSUME NEW a \in Actions
               PROVE  \E h \in Sessions \cup {NoSession} :
                        /\ \A z \in Sessions : a \in sessions'[z].pending => z = h
                        /\ \A q \in Requests : Carries(q, a)' => req'[q].session = h
    BY DEF OneHome
  <2>1. PICK h \in Sessions \cup {NoSession} :
          /\ \A z \in Sessions : a \in sessions[z].pending => z = h
          /\ \A q \in Requests : Carries(q, a) => req[q].session = h
    BY DEF Confirmed, OneHome
  <2> QED
    BY <1>2, <1>7, <1>11, <1>s, <2>1
<1>14. ProposerAlone'
  <2> SUFFICES ASSUME NEW a \in Actions, NEW q \in Requests, Proposing(q, a), q # r
               PROVE  /\ past.attempts[a] = 0
                      /\ \A z \in Sessions : a \notin sessions'[z].pending
                      /\ \A p \in Requests \ {q} : ~Carries(p, a)'
                      /\ req'[q].pc = "row" => workflow[a].status = "none"
                      /\ req'[q].pc # "row" => workflow[a].session = req'[q].session
    BY <1>1, <1>3, <1>7 DEF ProposerAlone
  <2>1. ~Carries(r, a)
    BY DEF Confirmed, ProposerAlone
  <2>2. a \notin c.pending
    BY <1>11, <2>1
  <2> QED
    BY <1>2, <1>7, <2>2 DEF Confirmed, ProposerAlone
<1>15. Untried'
  BY <1>1, <1>3, <1>8 DEF Confirmed, Untried
<1>16. SpareExcuse' /\ RepeatsExplained'
  <2>1. ASSUME NEW a \in Actions
        PROVE  /\ (\E z \in Sessions : a \in sessions'[z].pending) /\ Under(a)' = {} =>
                    past.attempts[a] <= past'.excuses[a]
               /\ past.attempts[a] <= 1 + past'.excuses[a]
    <3>0. past.attempts[a] <= 1 + past.excuses[a]
      BY DEF Confirmed, RepeatsExplained
    <3>1. PICK x, y, z \in Nat : x = past.attempts[a] /\ y = past.excuses[a] /\ z = past'.excuses[a]
      BY <1>9
    <3>2. x <= 1 + y /\ z >= y
      BY <1>9, <3>0, <3>1
    <3>3. x <= 1 + z
      BY <3>2
    <3>4. ASSUME NEW e \in Sessions, a \in sessions'[e].pending, Under(a)' = {}
          PROVE  x <= z
      <4>1. CASE r \in Under(a)
        <5>1. b = a /\ a \notin c.pending /\ Carries(r, a)
          BY <1>0, <1>c, <1>b, <4>1 DEF Under, Carries, Holding
        <5>2. \A q \in Sessions \ {s} : a \notin sessions[q].pending
          BY <1>s, <5>1 DEF Confirmed, OneHome
        <5>3. a \notin sessions'[e].pending
          BY <1>2, <5>1, <5>2
        <5> QED
          BY <3>4, <5>3
      <4>2. CASE r \notin Under(a)
        <5>1. Under(a) = {}
          BY <1>8, <3>4, <4>2
        <5>2. CASE \E q \in Sessions : a \in sessions[q].pending
          <6>1. x <= y
            BY <3>1, <5>1, <5>2 DEF Confirmed, SpareExcuse
          <6> QED
            BY <3>2, <6>1
        <5>3. CASE \A q \in Sessions : a \notin sessions[q].pending
          <6>1. a \in c.pending /\ a \notin sessions[s].pending
            BY <1>2, <3>4, <5>3
          <6>2. CASE a = b
            <7>1. Proposing(r, a)
              BY <1>0, <1>c, <1>b, <6>1, <6>2 DEF Proposing
            <7>2. past.attempts[a] = 0
              BY <7>1 DEF Confirmed, ProposerAlone
            <7> QED
              BY <3>1, <7>2
          <6>3. CASE a # b
            <7>1. z = y + 1
              BY <1>9, <3>1, <6>1, <6>3
            <7> QED
              BY <3>2, <7>1
          <6> QED
            BY <6>2, <6>3
        <5> QED
          BY <5>2, <5>3
      <4> QED
        BY <4>1, <4>2
    <3> QED
      BY <3>1, <3>3, <3>4
  <2> QED
    BY <1>3, <2>1 DEF SpareExcuse, RepeatsExplained
<1>17. ProposalKept'
  <2> SUFFICES ASSUME NEW a \in Actions, workflow[a].status = "awaiting_review",
                      past.attempts[a] = 0
               PROVE  \/ a \in sessions'[workflow[a].session].pending
                      \/ a \in past'.lost
                      \/ \E q \in Requests :
                           req'[q].action = a /\ req'[q].pc \in {"step", "save"} /\ a \in req'[q].ctx.pending
    BY <1>1, <1>3 DEF ProposalKept
  <2>0. Under(a) = {}
    BY DEF Confirmed, Untried
  <2>1. ASSUME NEW q \in Requests, req[q].action = a, req[q].pc \in {"step", "save"},
               a \in req[q].ctx.pending
        PROVE  \/ a \in sessions'[workflow[a].session].pending
               \/ req'[q] = req[q]
    <3>1. CASE q # r
      BY <1>5, <3>1
    <3>2. CASE q = r
      <4>1. Proposing(r, a)
        BY <2>1, <3>2 DEF Proposing
      <4>2. workflow[a].session = s
        BY <1>0, <1>s, <4>1 DEF Confirmed, ProposerAlone
      <4>3. a \in c.pending
        BY <1>c, <2>1, <3>2
      <4> QED
        BY <1>2, <4>2, <4>3
    <3> QED
      BY <3>1, <3>2
  <2>2. ASSUME a \in sessions[workflow[a].session].pending
        PROVE  a \in sessions'[workflow[a].session].pending \/ a \in past'.lost
    <3>1. CASE workflow[a].session # s
      <4>1. sessions'[workflow[a].session] = sessions[workflow[a].session]
        BY <1>1, <3>1
      <4> QED
        BY <2>2, <4>1
    <3>2. CASE workflow[a].session = s
      <4>1. CASE a \in c.pending
        BY <1>2, <3>2, <4>1
      <4>2. CASE a \notin c.pending
        <5>1. a # b
          <6>1. CASE req[r].op = "chat"
            BY <1>0, <1>b, <1>c, <2>0, <4>2, <6>1 DEF Under
          <6>2. CASE req[r].op # "chat"
            <7>1. req[r].action = NoAction
              BY <1>0, <6>2, RequestTyped DEF Shape, Request, Holding
            <7> QED
              BY <1>b, <7>1, ConstantsOK
          <6> QED
            BY <6>1, <6>2
        <5> QED
          BY <1>10, <2>2, <3>2, <4>2, <5>1
      <4> QED
        BY <4>1, <4>2
    <3> QED
      BY <3>1, <3>2
  <2>3. past.lost \subseteq past'.lost
    BY <1>3
  <2> QED
    BY <2>1, <2>2, <2>3 DEF Confirmed, ProposalKept
<1>18. AuditQuiet(r)
  <2>1. req'[r].pc \notin Confirming /\ req[r].pc \notin Confirming
    BY <1>0, <1>4 DEF Leaves, Holding, Confirming
  <2> QED
    BY <1>1, <1>3, <1>5, <1>6, <1>9, <2>1 DEF AuditQuiet
<1> QED
  BY <1>12, <1>13, <1>14, <1>15, <1>16, <1>17, <1>18 DEF Confirmed

LEMMA FoundAudited ==
  ASSUME Typed, Confirmed, Audited, NEW r \in Requests, Found(r),
         UNCHANGED <<tool, sessions, workflow, writes>>
  PROVE  Audited'
<1>0. req[r].action \in Actions
  BY DEF Found
<1>b. PICK b \in Actions : b = req[r].action
  BY <1>0
<1>1. /\ req[r].pc = "load" /\ req'[r].pc = "tool" /\ req'[r].action = b /\ req'[r].op = "chat"
      /\ \A q \in Requests \ {r} : req'[q] = req[q]
      /\ b \notin req'[r].ctx.pending
  <2>1. req[r].session \in Sessions
    BY RequestTyped DEF Found, Shape
  <2>2. sessions[req[r].session] \in Context
    BY <2>1, Known
  <2> QED
    BY <1>b, <2>2 DEF Found, Becomes, Popped, Context
<1>2. /\ past'.attempts = [past.attempts EXCEPT ![b] = @ + 1]
      /\ past'.excuses = [past.excuses EXCEPT ![b] = @ + (IF Under(b) = {} THEN 0 ELSE 1)]
      /\ past'.overlapped = past.overlapped \cup {x \in {b} : Under(b) # {}}
  <2>1. past \in Past
    BY RequestTyped
  <2>2. past' = [past EXCEPT !.attempts[b] = @ + 1,
       !.excuses[b] = @ + (IF Under(b) = {} THEN 0 ELSE 1),
       !.overlapped = @ \cup {x \in {b} : Under(b) # {}}]
    BY <1>b DEF Found
  <2> QED
    BY <2>1, <2>2 DEF Past
<1>3. \A a \in Actions : r \notin Under(a) /\ (r \in Under(a)' <=> a = b)
  BY <1>1 DEF Under, Confirming
<1>4. \A a \in Actions : Under(a)' = IF a = b THEN Under(a) \cup {r} ELSE Under(a)
  <2>1. \A a \in Actions, q \in Requests \ {r} : q \in Under(a)' <=> q \in Under(a)
    BY <1>1, OthersStay
  <2> QED
    BY <1>3, <2>1 DEF Under
<1>5. /\ past.attempts[b] \in Nat /\ past.excuses[b] \in Nat
      /\ past'.attempts[b] = past.attempts[b] + 1
      /\ past'.excuses[b] >= past.excuses[b] /\ past'.excuses[b] \in Nat
      /\ \A a \in Actions \ {b} :
           past'.attempts[a] = past.attempts[a] /\ past'.excuses[a] = past.excuses[a]
  BY <1>2, Known
<1>6. \A a \in Actions : \A q \in Under(a) : q \in Requests /\ q # r /\ req'[q] = req[q]
  BY <1>1, <1>3 DEF Under
<1>7. ClosedOnce'
  <2> SUFFICES ASSUME NEW a \in Actions \ past'.overlapped
               PROVE  /\ \A p, q \in Under(a)' : p = q
                      /\ workflow[a].closings <= 1
                      /\ workflow[a].status = "awaiting_review" => workflow[a].closings = 0
                      /\ \A q \in Under(a)' :
                           /\ req'[q].pc = "close" => workflow[a].status = "awaiting_review"
                           /\ req'[q].pc = "record" => workflow[a].closings = 0
    BY DEF ClosedOnce
  <2>1. a \notin past.overlapped
    BY <1>2
  <2>2. CASE a = b
    <3>1. Under(a)' = {r}
      BY <1>2, <1>4, <2>2
    <3> QED
      BY <1>1, <2>1, <3>1 DEF Audited, ClosedOnce
  <2>3. CASE a # b
    <3>1. Under(a)' = Under(a)
      BY <1>4, <2>3
    <3> QED
      BY <1>6, <2>1, <3>1 DEF Audited, ClosedOnce
  <2> QED
    BY <2>2, <2>3
<1>8. Result'
  BY <1>1 DEF Audited, Result
<1>9. FirstResult'
  <2> SUFFICES ASSUME NEW a \in Actions, past'.attempts[a] = 1
               PROVE  /\ \A p, q \in Under(a)' : p = q
                      /\ \A q \in Under(a)' :
                           /\ req'[q].pc = "tool" =>
                                writes[a] = 0 /\ workflow[a].status \in {"none", "awaiting_review"}
                           /\ req'[q].pc \in {"find_row", "close"} /\ ~req'[q].ok =>
                                writes[a] = 0 \/ tool[a] = "status"
    BY DEF FirstResult
  <2>1. CASE a = b
    <3>1. past.attempts[b] = 0
      BY <1>5, <2>1
    <3>2. Under(b) = {} /\ writes[b] = 0 /\ workflow[b].status \in {"none", "awaiting_review"}
      BY <3>1 DEF Confirmed, Untried
    <3>3. Under(b)' = {r}
      BY <1>4, <3>2
    <3> QED
      BY <1>1, <2>1, <3>2, <3>3
  <2>2. CASE a # b
    <3>1. Under(a)' = Under(a) /\ past.attempts[a] = 1
      BY <1>4, <1>5, <2>2
    <3> QED
      BY <1>6, <3>1 DEF Audited, FirstResult
  <2> QED
    BY <2>1, <2>2
<1>10. AuditTrue'
  <2> SUFFICES ASSUME NEW a \in Actions
               PROVE  /\ workflow[a].closings > 1 => a \in past'.overlapped
                      /\ workflow[a].status = "completed" => tool[a] = "search" \/ writes[a] > 0
                      /\ workflow[a].status = "failed" /\ writes[a] > 0 =>
                           tool[a] = "status" \/ past'.attempts[a] > 1
                      /\ workflow[a].status = "awaiting_review" /\ writes[a] > 0 =>
                           past'.excuses[a] > 0 \/ \E q \in Requests : req'[q].action = a /\ req'[q].pc \in Confirming
    BY DEF AuditTrue
  <2>1. /\ past.attempts[a] > 1 => past'.attempts[a] > 1
        /\ past.excuses[a] > 0 => past'.excuses[a] > 0
    BY <1>5
  <2>2. \A q \in Requests : req[q].pc \in Confirming => req'[q] = req[q]
    BY <1>1 DEF Confirming
  <2>3. past.overlapped \subseteq past'.overlapped
    BY <1>2
  <2> QED
    BY <2>1, <2>2, <2>3 DEF Audited, AuditTrue
<1> QED
  BY <1>7, <1>8, <1>9, <1>10 DEF Audited

\* What the audit says of one action.
ActionAudited(a) ==
  /\ a \notin past.overlapped =>
       /\ \A p, q \in Under(a) : p = q
       /\ workflow[a].closings <= 1
       /\ workflow[a].status = "awaiting_review" => workflow[a].closings = 0
       /\ \A q \in Under(a) :
            /\ req[q].pc = "close" => workflow[a].status = "awaiting_review"
            /\ req[q].pc = "record" => workflow[a].closings = 0
  /\ \A q \in Under(a) :
       /\ req[q].pc \in {"find_row", "close"} /\ req[q].ok => tool[a] = "search" \/ writes[a] > 0
       /\ req[q].pc = "history" => tool[a] = "status" /\ writes[a] > 0
       /\ req[q].pc = "record" => workflow[a].status \in {"completed", "failed"}
  /\ past.attempts[a] = 1 =>
       /\ \A p, q \in Under(a) : p = q
       /\ \A q \in Under(a) :
            /\ req[q].pc = "tool" =>
                 writes[a] = 0 /\ workflow[a].status \in {"none", "awaiting_review"}
            /\ req[q].pc \in {"find_row", "close"} /\ ~req[q].ok =>
                 writes[a] = 0 \/ tool[a] = "status"
  /\ workflow[a].closings > 1 => a \in past.overlapped
  /\ workflow[a].status = "completed" => tool[a] = "search" \/ writes[a] > 0
  /\ workflow[a].status = "failed" /\ writes[a] > 0 => tool[a] = "status" \/ past.attempts[a] > 1
  /\ workflow[a].status = "awaiting_review" /\ writes[a] > 0 =>
       past.excuses[a] > 0 \/ \E q \in Requests : req[q].action = a /\ req[q].pc \in Confirming

LEMMA AuditedEach ==
  Typed => (Audited <=> \A a \in Actions : ActionAudited(a))
<1> SUFFICES ASSUME Typed PROVE Audited <=> \A a \in Actions : ActionAudited(a)
  OBVIOUS
<1>1. \A q \in Requests : req[q].pc \in Confirming => req[q].action \in Actions /\ q \in Under(req[q].action)
  BY RequestTyped DEF Shape, Under
<1>2. \A a \in Actions : \A q \in Under(a) : q \in Requests /\ req[q].action = a
  BY DEF Under
<1>3. (\A a \in Actions : ActionAudited(a)) => Audited
  <2> SUFFICES ASSUME \A a \in Actions : ActionAudited(a) PROVE Audited
    OBVIOUS
  <2>1. ClosedOnce
    BY DEF ClosedOnce, ActionAudited
  <2>2. Result
    <3> SUFFICES ASSUME NEW q \in Requests, req[q].pc \in Confirming, NEW a, a = req[q].action
                 PROVE  /\ req[q].pc \in {"find_row", "close"} /\ req[q].ok => tool[a] = "search" \/ writes[a] > 0
                        /\ req[q].pc = "history" => tool[a] = "status" /\ writes[a] > 0
                        /\ req[q].pc = "record" => workflow[a].status \in {"completed", "failed"}
      BY DEF Result, Confirming
    <3> QED
      BY <1>1 DEF ActionAudited
  <2>3. FirstResult
    BY DEF FirstResult, ActionAudited
  <2>4. AuditTrue
    BY DEF AuditTrue, ActionAudited
  <2> QED
    BY <2>1, <2>2, <2>3, <2>4 DEF Audited
<1>4. ASSUME Audited, NEW a \in Actions
      PROVE  ActionAudited(a)
  <2>1. a \notin past.overlapped =>
         /\ \A p, q \in Under(a) : p = q
         /\ workflow[a].closings <= 1
         /\ workflow[a].status = "awaiting_review" => workflow[a].closings = 0
         /\ \A q \in Under(a) :
              /\ req[q].pc = "close" => workflow[a].status = "awaiting_review"
              /\ req[q].pc = "record" => workflow[a].closings = 0
    BY <1>4 DEF Audited, ClosedOnce
  <2>2. \A q \in Under(a) :
         /\ req[q].pc \in {"find_row", "close"} /\ req[q].ok => tool[a] = "search" \/ writes[a] > 0
         /\ req[q].pc = "history" => tool[a] = "status" /\ writes[a] > 0
         /\ req[q].pc = "record" => workflow[a].status \in {"completed", "failed"}
    BY <1>2, <1>4 DEF Audited, Result
  <2>3. past.attempts[a] = 1 =>
         /\ \A p, q \in Under(a) : p = q
         /\ \A q \in Under(a) :
              /\ req[q].pc = "tool" =>
                   writes[a] = 0 /\ workflow[a].status \in {"none", "awaiting_review"}
              /\ req[q].pc \in {"find_row", "close"} /\ ~req[q].ok =>
                   writes[a] = 0 \/ tool[a] = "status"
    BY <1>4 DEF Audited, FirstResult
  <2>4. /\ workflow[a].closings > 1 => a \in past.overlapped
        /\ workflow[a].status = "completed" => tool[a] = "search" \/ writes[a] > 0
        /\ workflow[a].status = "failed" /\ writes[a] > 0 => tool[a] = "status" \/ past.attempts[a] > 1
        /\ workflow[a].status = "awaiting_review" /\ writes[a] > 0 =>
             past.excuses[a] > 0 \/ \E q \in Requests : req[q].action = a /\ req[q].pc \in Confirming
    BY <1>4 DEF Audited, AuditTrue
  <2> QED
    BY <2>1, <2>2, <2>3, <2>4 DEF ActionAudited
<1> QED
  BY <1>3, <1>4

\* What a step of an execution does to the row and to the result.
Works(r, b) ==
  LET row == workflow[b]
      Same == workflow'[b] = row
  IN
  \/ /\ req[r].pc \in {"tool", "history"} /\ req'[r].pc = "find_row" /\ ~req'[r].ok
     /\ Same /\ writes'[b] = writes[b]
  \/ /\ req[r].pc = "tool" /\ tool[b] = "search" /\ req'[r].pc = "find_row"
     /\ Same /\ writes'[b] = writes[b]
  \/ /\ req[r].pc = "tool" /\ Same /\ writes'[b] = writes[b] + 1
     /\ \/ req'[r].pc = "history" /\ tool[b] = "status"
        \/ req'[r].pc = "find_row" /\ req'[r].ok
  \/ /\ req[r].pc = "history" /\ req'[r].pc = "find_row" /\ req'[r].ok
     /\ Same /\ writes'[b] = writes[b]
  \/ /\ req[r].pc = "find_row" /\ req'[r].ok = req[r].ok
     /\ Same /\ writes'[b] = writes[b]
     /\ \/ req'[r].pc = "close" /\ row.status = "awaiting_review"
        \/ req'[r].pc = "save" /\ row.status # "awaiting_review"
  \/ /\ req[r].pc = "close" /\ req'[r].pc = "record" /\ writes'[b] = writes[b]
     /\ workflow'[b].closings = row.closings
     /\ \/ req[r].ok /\ workflow'[b].status = "completed"
        \/ ~req[r].ok /\ workflow'[b].status = "failed"
  \/ /\ req[r].pc = "record" /\ req'[r].pc = "save" /\ writes'[b] = writes[b]
     /\ workflow'[b].closings = row.closings + 1 /\ workflow'[b].status = row.status

LEMMA ExecutingWorks ==
  ASSUME Typed, NEW r \in Requests, Executing(r), NEW b \in Actions, b = req[r].action
  PROVE  Works(r, b)
<1>0. req[r] \in Request /\ workflow \in [Actions -> Workflow] /\ writes \in [Actions -> Nat]
  BY RequestTyped DEF StoreTyped
<1>1. ASSUME NEW n, Moves(r, n) PROVE req'[r] = n
  BY <1>1, MovedOnly DEF Typed, TypeOK
<1>2. \A p \in {"history", "close", "save", "record"} :
        Goto(r, p).pc = p /\ Goto(r, p).ok = req[r].ok
  BY <1>0 DEF Goto, Request
<1>3. \A ok \in BOOLEAN : WithResult(r, ok).pc = "find_row" /\ WithResult(r, ok).ok = ok
  BY <1>0 DEF WithResult, Request
<1>4. CASE ToolFails(r)
  BY <1>1, <1>3, <1>4 DEF ToolFails, Works, store
<1>5. CASE ToolSearches(r)
  BY <1>1, <1>3, <1>5 DEF ToolSearches, Works, store, At
<1>6. CASE ToolWrites(r)
  <2>1. /\ req[r].pc = "tool" /\ workflow'[b] = workflow[b] /\ writes'[b] = writes[b] + 1
        /\ req'[r] = IF tool[b] = "status" THEN Goto(r, "history") ELSE WithResult(r, TRUE)
    BY <1>0, <1>1, <1>6 DEF ToolWrites, At
  <2> QED
    BY <1>2, <1>3, <2>1 DEF Works
<1>7. CASE HistoryWrites(r)
  BY <1>1, <1>3, <1>7 DEF HistoryWrites, Works, store, At
<1>8. CASE FindRow(r)
  <2>1. /\ req[r].pc = "find_row" /\ workflow'[b] = workflow[b] /\ writes'[b] = writes[b]
        /\ req'[r] = Goto(r, IF workflow[b].status = "awaiting_review" THEN "close" ELSE "save")
    BY <1>1, <1>8 DEF FindRow, At, store
  <2> QED
    BY <1>2, <2>1 DEF Works
<1>9. CASE Close(r)
  <2> DEFINE o == Outcome(req[r])
  <2>1. /\ req[r].pc = "close" /\ req'[r] = Goto(r, "record") /\ writes'[b] = writes[b]
        /\ workflow' = [workflow EXCEPT ![b] = [workflow[b] EXCEPT !.status = o]]
    BY <1>1, <1>9 DEF Close, At
  <2>2. (req[r].ok /\ o = "completed") \/ (~req[r].ok /\ o = "failed")
    BY DEF Outcome
  <2> HIDE DEF o
  <2>3. workflow'[b].status = o /\ workflow'[b].closings = workflow[b].closings
    BY <1>0, <2>1 DEF Workflow
  <2>4. req'[r].pc = "record"
    BY <1>2, <2>1
  <2> QED
    BY <2>1, <2>2, <2>3, <2>4 DEF Works
<1>10. CASE RecordStep(r)
  <2>1. /\ req[r].pc = "record" /\ req'[r] = Goto(r, "save") /\ writes'[b] = writes[b]
        /\ workflow' = [workflow EXCEPT ![b] = [workflow[b] EXCEPT !.closings = @ + 1]]
    BY <1>1, <1>10 DEF RecordStep, At
  <2>2. workflow'[b].status = workflow[b].status /\ workflow'[b].closings = workflow[b].closings + 1
    BY <1>0, <2>1 DEF Workflow
  <2>3. req'[r].pc = "save"
    BY <1>2, <2>1
  <2> QED
    BY <2>1, <2>2, <2>3 DEF Works
<1> QED
  BY <1>4, <1>5, <1>6, <1>7, <1>8, <1>9, <1>10 DEF Executing

LEMMA ExecutingAudited ==
  ASSUME Typed, Typed', Confirmed, Audited, NEW r \in Requests, Executing(r)
  PROVE  Audited'
<1>b. PICK b \in Actions : Carried(r, b)
  BY ExecutingCarried
<1>1. Works(r, b)
  BY <1>b, ExecutingWorks DEF Carried
<1>2. \A q \in Requests, a \in Actions : q \in Under(a)' <=> q \in Under(a)
  <2>1. r \in Under(b) /\ r \in Under(b)' /\ req[r].action = b /\ req'[r].action = b
    BY <1>b DEF Carried
  <2>2. \A a \in Actions : r \in Under(a)' <=> r \in Under(a)
    BY <2>1 DEF Under
  <2> QED
    BY <1>b, <2>2, OthersStay DEF Carried
<1>3. \A a \in Actions : Under(a)' = Under(a)
  BY <1>2 DEF Under
<1>4. /\ past' = past /\ tool' = tool
      /\ \A a \in Actions \ {b} : workflow'[a] = workflow[a] /\ writes'[a] = writes[a]
      /\ \A q \in Requests \ {r} : req'[q] = req[q]
  BY <1>b DEF Carried
<1>5. \A a \in Actions : ActionAudited(a)
  BY AuditedEach
<1>6. ASSUME NEW a \in Actions \ {b}
      PROVE  ActionAudited(a)'
  <2>1. \A q \in Under(a) : q \in Requests \ {r}
    BY <1>b DEF Carried, Under
  <2>2. \A q \in Under(a) : req'[q] = req[q]
    BY <1>4, <2>1
  <2>3. \A q \in Requests : req[q].action = a => req'[q] = req[q]
    BY <1>b, <1>4 DEF Carried
  <2>4. workflow'[a] = workflow[a] /\ writes'[a] = writes[a] /\ Under(a)' = Under(a)
    BY <1>3, <1>4
  <2>5. ActionAudited(a)
    BY <1>5
  <2> QED
    BY <1>4, <2>2, <2>3, <2>4, <2>5 DEF ActionAudited
<1>7. ActionAudited(b)'
  <2>0. /\ ActionAudited(b) /\ r \in Under(b) /\ Under(b)' = Under(b)
        /\ past.attempts[b] \in Nat /\ past.attempts[b] # 0
        /\ writes[b] \in Nat /\ workflow[b].closings \in Nat
    <3>1. r \in Under(b)
      BY <1>b DEF Carried
    <3>2. past.attempts[b] # 0
      BY <3>1 DEF Confirmed, Untried
    <3> QED
      BY <1>3, <1>5, <3>1, <3>2, Known
  <2>1. \A q \in Under(b) : q = r \/ (q # r /\ req'[q] = req[q])
    BY <1>4 DEF Under
  <2>2. ASSUME b \notin past.overlapped
        PROVE  /\ \A p, q \in Under(b) : p = q
               /\ workflow'[b].closings <= 1
               /\ workflow'[b].status = "awaiting_review" => workflow'[b].closings = 0
               /\ \A q \in Under(b) :
                    /\ req'[q].pc = "close" => workflow'[b].status = "awaiting_review"
                    /\ req'[q].pc = "record" => workflow'[b].closings = 0
    <3>1. \A q \in Under(b) : q = r
      BY <2>0, <2>2 DEF ActionAudited
    <3>2. /\ workflow[b].closings <= 1
          /\ workflow[b].status = "awaiting_review" => workflow[b].closings = 0
          /\ req[r].pc = "close" => workflow[b].status = "awaiting_review"
          /\ req[r].pc = "record" => workflow[b].closings = 0
          /\ req[r].pc = "record" => workflow[b].status \in {"completed", "failed"}
      BY <2>0, <2>2 DEF ActionAudited
    <3>3. /\ workflow'[b].closings <= 1
          /\ workflow'[b].status = "awaiting_review" => workflow'[b].closings = 0
          /\ req'[r].pc = "close" => workflow'[b].status = "awaiting_review"
          /\ req'[r].pc = "record" => workflow'[b].closings = 0
      BY <1>1, <2>0, <3>2 DEF Works
    <3> QED
      BY <3>1, <3>3
  <2>3. ASSUME NEW q \in Under(b)
        PROVE  /\ req'[q].pc \in {"find_row", "close"} /\ req'[q].ok => tool[b] = "search" \/ writes'[b] > 0
               /\ req'[q].pc = "history" => tool[b] = "status" /\ writes'[b] > 0
               /\ req'[q].pc = "record" => workflow'[b].status \in {"completed", "failed"}
    <3>1. \A x \in {q, r} :
            /\ req[x].pc \in {"find_row", "close"} /\ req[x].ok => tool[b] = "search" \/ writes[b] > 0
            /\ req[x].pc = "history" => tool[b] = "status" /\ writes[b] > 0
            /\ req[x].pc = "record" => workflow[b].status \in {"completed", "failed"}
      BY <2>0 DEF ActionAudited
    <3>2. CASE q = r
      BY <1>1, <2>0, <3>1, <3>2 DEF Works
    <3>3. CASE q # r
      <4>1. req'[q] = req[q]
        BY <2>1, <3>3
      <4> QED
        BY <1>1, <2>0, <3>1, <4>1 DEF Works
    <3> QED
      BY <3>2, <3>3
  <2>4. ASSUME past.attempts[b] = 1
        PROVE  /\ \A p, q \in Under(b) : p = q
               /\ \A q \in Under(b) :
                    /\ req'[q].pc = "tool" =>
                         writes'[b] = 0 /\ workflow'[b].status \in {"none", "awaiting_review"}
                    /\ req'[q].pc \in {"find_row", "close"} /\ ~req'[q].ok =>
                         writes'[b] = 0 \/ tool[b] = "status"
    <3>1. \A q \in Under(b) : q = r
      BY <2>0, <2>4 DEF ActionAudited
    <3>2. /\ req[r].pc = "tool" => writes[b] = 0
          /\ req[r].pc = "history" => tool[b] = "status"
          /\ req[r].pc \in {"find_row", "close"} /\ ~req[r].ok => writes[b] = 0 \/ tool[b] = "status"
      BY <2>0, <2>4 DEF ActionAudited
    <3>3. /\ req'[r].pc # "tool"
          /\ req'[r].pc \in {"find_row", "close"} /\ ~req'[r].ok => writes'[b] = 0 \/ tool[b] = "status"
      BY <1>1, <3>2 DEF Works
    <3> QED
      BY <3>1, <3>3
  <2>5. workflow'[b].closings > 1 => b \in past.overlapped
    <3>1. workflow'[b].closings \in Nat
      BY <1>1, <2>0 DEF Works
    <3> QED
      BY <2>2, <3>1
  <2>6. workflow'[b].status = "completed" => tool[b] = "search" \/ writes'[b] > 0
    BY <1>1, <2>0 DEF Works, ActionAudited
  <2>7. ASSUME workflow'[b].status = "failed", writes'[b] > 0
        PROVE  tool[b] = "status" \/ past.attempts[b] > 1
    <3>1. ASSUME past.attempts[b] = 1 PROVE tool[b] = "status"
      <4>1. /\ req[r].pc = "tool" => workflow[b].status \in {"none", "awaiting_review"}
            /\ req[r].pc \in {"find_row", "close"} /\ ~req[r].ok => writes[b] = 0 \/ tool[b] = "status"
            /\ workflow[b].status = "failed" /\ writes[b] > 0 => tool[b] = "status"
        BY <2>0, <3>1 DEF ActionAudited
      <4> QED
        BY <1>1, <2>7, <4>1 DEF Works
    <3> QED
      BY <2>0, <3>1
  <2>8. ASSUME workflow'[b].status = "awaiting_review"
        PROVE  \E q \in Requests : req'[q].action = b /\ req'[q].pc \in Confirming
    <3>1. req[r].pc = "record" => workflow[b].status \in {"completed", "failed"}
      BY <2>0 DEF ActionAudited
    <3>2. req'[r].pc \in Confirming
      BY <1>1, <2>8, <3>1 DEF Works, Confirming
    <3> QED
      BY <1>b, <3>2 DEF Carried
  <2> QED
    BY <1>4, <2>0, <2>2, <2>3, <2>4, <2>5, <2>6, <2>7, <2>8 DEF ActionAudited
<1>8. \A a \in Actions : ActionAudited(a)'
  BY <1>6, <1>7
<1>9. (Typed => (Audited <=> \A a \in Actions : ActionAudited(a)))'
  BY AuditedEach, PTL
<1> QED
  BY <1>8, <1>9

\* Every step that executes nothing is quiet for the audit, but the start of an
\* execution.
LEMMA QuietStep ==
  ASSUME Typed, Confirmed, NEW r \in Requests,
         \/ Arrive(r) \/ HandleDocument(r) \/ LoadToAnswer(r) \/ Reply(r) \/ AnswerFails(r)
         \/ \E a \in Actions, kind \in Kinds, d \in Docs \cup {NoDoc} : Propose(r, a, kind, d)
         \/ RowRefused(r) \/ InsertRow(r) \/ InsertStep(r)
         \/ (LoadToConfirm(r) /\ NotFound(r))
         \/ Save(r) \/ Abort(r) \/ Respond(r)
  PROVE  Confirmed' /\ AuditQuiet(r)
<1>1. CASE Aside(r)
  BY <1>1, AsideConfirmed, AsideQuiet
<1>2. CASE Arrive(r) \/ Reply(r)
  BY <1>1, <1>2, ArriveAside, ReplyAside
<1>3. CASE HandleDocument(r) /\ ~LoadToChange(r)
  BY <1>1, <1>3, HandleDocumentAside
<1>4. CASE LoadToChange(r)
  <2>1. UNCHANGED <<tool, sessions, workflow, writes, past>> /\ req[r].pc = "load"
    BY <1>4 DEF LoadToChange, store, At
  <2>2. Loads(r)
    BY <1>4, <2>1, LoadToChangeAs DEF Loads
  <2> QED
    BY <2>2, LoadsConfirmed
<1>5. CASE LoadToAnswer(r) \/ (LoadToConfirm(r) /\ NotFound(r))
  <2>1. /\ UNCHANGED <<tool, sessions, workflow, writes, past>> /\ req[r].pc = "load"
        /\ \E p \in {"answering", "save"} : Becomes(r, p, NoAction, sessions[req[r].session])
    BY <1>5, LoadToAnswerSound DEF LoadToAnswer, LoadToConfirm, NotFound, store, At
  <2>2. sessions[req[r].session] \in Context
    BY <2>1, RequestTyped, Known DEF Shape
  <2>3. Loads(r)
    BY <2>1, <2>2 DEF Loads
  <2> QED
    BY <2>3, LoadsConfirmed
<1>6. CASE AnswerFails(r) \/ RowRefused(r) \/ Abort(r)
  BY <1>6, EndGone, AbortGone, GoneConfirmed
<1>7. CASE InsertRow(r) \/ InsertStep(r)
  BY <1>7, InsertRowConfirmed
<1>8. ASSUME NEW a \in Actions, NEW kind \in Kinds, NEW d \in Docs \cup {NoDoc},
             Propose(r, a, kind, d)
      PROVE  Confirmed' /\ AuditQuiet(r)
  BY <1>8, ProposeConfirmed
<1>9. CASE Respond(r)
  <2>1. /\ req[r].pc = "done" /\ Moves(r, Idle)
        /\ UNCHANGED <<tool, sessions, workflow, writes, past>>
    BY <1>9 DEF Respond, At, store
  <2>2. req'[r].pc = "idle" /\ \A q \in Requests \ {r} : req'[q] = req[q]
    BY <2>1, MovedOnly DEF Typed, TypeOK, Idle
  <2>3. Aside(r)
    BY <2>1, <2>2, NotHolding DEF Holding, Confirming
  <2> QED
    BY <1>1, <2>3
<1>10. CASE Save(r)
  BY <1>10, SaveConfirmed
<1> QED
  BY <1>2, <1>3, <1>4, <1>5, <1>6, <1>7, <1>8, <1>9, <1>10

LEMMA ActionsStep ==
  ASSUME Typed, Typed', Confirmed, Audited, [Next]_vars
  PROVE  Confirmed' /\ Audited'
<1>1. CASE UNCHANGED vars
  <2>1. /\ tool' = tool /\ sessions' = sessions /\ workflow' = workflow /\ writes' = writes
        /\ req' = req /\ past' = past
    BY <1>1 DEF vars
  <2>2. \A a \in Actions : Under(a)' = Under(a)
    BY <2>1 DEF Under
  <2>3. Confirmed'
    BY <2>1, <2>2 DEF Confirmed, FreshUnknown, OneHome, ProposerAlone, Untried, SpareExcuse,
       RepeatsExplained, ProposalKept, Carries, Proposing
  <2>4. Audited'
    BY <2>1, <2>2 DEF Audited, ClosedOnce, Result, FirstResult, AuditTrue
  <2> QED
    BY <2>3, <2>4
<1>2. ASSUME NEW r \in Requests, Confirmed', AuditQuiet(r)
      PROVE  Confirmed' /\ Audited'
  BY <1>2, AuditQuietAudited
<1>3. ASSUME NEW r \in Requests, Executing(r)
      PROVE  Confirmed' /\ Audited'
  BY <1>3, ExecutingCarried, CarriedConfirmed, ExecutingAudited
<1>4. ASSUME NEW r \in Requests, LoadToConfirm(r), Found(r)
      PROVE  Confirmed' /\ Audited'
  <2>1. UNCHANGED <<tool, sessions, workflow, writes>>
    BY <1>4 DEF LoadToConfirm, store
  <2> QED
    BY <1>4, <2>1, FoundConfirmed, FoundAudited
<1>5. ASSUME NEW r \in Requests, HandleChat(r)
      PROVE  Confirmed' /\ Audited'
  <2>1. CASE LoadToConfirm(r)
    BY <1>2, <1>4, <2>1, LoadToConfirmSound, QuietStep
  <2>2. CASE Executing(r)
    BY <1>3, <2>2
  <2>3. CASE \/ LoadToAnswer(r) \/ Reply(r) \/ AnswerFails(r)
             \/ \E a \in Actions, kind \in Kinds, d \in Docs \cup {NoDoc} : Propose(r, a, kind, d)
             \/ RowRefused(r) \/ InsertRow(r) \/ InsertStep(r)
    BY <1>2, <2>3, QuietStep
  <2> QED
    BY <1>5, <2>1, <2>2, <2>3 DEF HandleChat, Executing
<1>6. ASSUME NEW r \in Requests,
             Arrive(r) \/ HandleDocument(r) \/ Save(r) \/ Abort(r) \/ Respond(r)
      PROVE  Confirmed' /\ Audited'
  BY <1>2, <1>6, QuietStep
<1> QED
  BY <1>1, <1>5, <1>6 DEF Next

LEMMA InitActions ==
  Init => Confirmed /\ Audited
<1> SUFFICES ASSUME Init PROVE Confirmed /\ Audited
  OBVIOUS
<1>1. /\ \A q \in Requests : req[q].pc = "idle" /\ req[q].action = NoAction
      /\ \A s \in Sessions : sessions[s].pending = {}
      /\ \A a \in Actions : /\ workflow[a].status = "none" /\ workflow[a].closings = 0
                            /\ writes[a] = 0 /\ past.attempts[a] = 0 /\ past.excuses[a] = 0
  BY DEF Init, Idle, EmptyContext, NoRow
<1>2. \A q \in Requests, a \in Actions : ~Carries(q, a) /\ ~Proposing(q, a)
  BY <1>1 DEF Carries, Proposing, Holding, Confirming
<1>3. \A a \in Actions : Under(a) = {}
  BY <1>1 DEF Under, Confirming
<1>4. Confirmed
  BY <1>1, <1>2, <1>3 DEF Confirmed, FreshUnknown, OneHome, ProposerAlone, Untried, SpareExcuse,
     RepeatsExplained, ProposalKept
<1>5. Audited
  BY <1>1, <1>3 DEF Audited, ClosedOnce, Result, FirstResult, AuditTrue
<1> QED
  BY <1>4, <1>5

LEMMA ActionsAlways ==
  Spec => [](Confirmed /\ Audited)
<1>1. Init => Typed /\ Confirmed /\ Audited
  BY InitTyped, InitActions
<1>2. Typed /\ Confirmed /\ Audited /\ [Next]_vars => (Typed /\ Confirmed /\ Audited)'
  <2> SUFFICES ASSUME Typed, Confirmed, Audited, [Next]_vars
               PROVE  Typed' /\ Confirmed' /\ Audited'
    OBVIOUS
  <2>1. Typed'
    BY TypedStep
  <2> QED
    BY <2>1, ActionsStep
<1> QED
  BY <1>1, <1>2, PTL DEF Spec

\* A confirmed action runs again only for a reason of its own: an overlapping
\* confirmation, a stop between the tool and the save, or a stale save.
THEOREM RepeatsAreExplained ==
  Spec => []RepeatsExplained
<1>1. Confirmed => RepeatsExplained
  BY DEF Confirmed
<1> QED
  BY <1>1, ActionsAlways, PTL

\* A proposal that awaits review stays where a user can confirm it, unless a
\* stale save or a stop dropped it.
THEOREM ProposalsAreKept ==
  Spec => []ProposalKept
<1>1. Confirmed => ProposalKept
  BY DEF Confirmed
<1> QED
  BY <1>1, ActionsAlways, PTL

\* The review row of an action tells what its executions did.
THEOREM AuditIsTrue ==
  Spec => []AuditTrue
<1>1. Audited => AuditTrue
  BY DEF Audited
<1> QED
  BY <1>1, ActionsAlways, PTL

-----------------------------------------------------------------------------
(* Budgets: sums over requests *)

LEMMA TotalBound ==
  ASSUME NEW S, IsFiniteSet(S), NEW n \in Nat, NEW f
  PROVE  /\ IsFiniteSet(Tokens(S, n, f)) /\ Total(S, n, f) \in Nat
         /\ Total(S, n, f) <= Cardinality(S) * n
<1>1. IsFiniteSet(1..n) /\ Cardinality(1..n) = n
  BY FS_Interval
<1>2. IsFiniteSet(S \X (1..n)) /\ Cardinality(S \X (1..n)) = Cardinality(S) * n
  BY <1>1, FS_Product
<1>3. Tokens(S, n, f) \in SUBSET (S \X (1..n))
  BY DEF Tokens
<1> QED
  BY <1>2, <1>3, FS_Subset, FS_CardinalityType DEF Total

LEMMA TotalLess ==
  ASSUME NEW T, IsFiniteSet(T), NEW S \in SUBSET T, NEW n \in Nat, NEW f, NEW g,
         \A q \in S : f[q] = g[q]
  PROVE  /\ IsFiniteSet(S) /\ Total(S, n, f) \in Nat /\ Total(T, n, g) \in Nat
         /\ Total(S, n, f) <= Total(T, n, g)
<1>1. IsFiniteSet(S)
  BY FS_Subset
<1>2. Tokens(S, n, f) \in SUBSET Tokens(T, n, g)
  BY DEF Tokens
<1> QED
  BY <1>1, <1>2, TotalBound, FS_Subset DEF Total

LEMMA RowOfTokens ==
  ASSUME NEW x, NEW m \in Nat
  PROVE  IsFiniteSet({x} \X (1..m)) /\ Cardinality({x} \X (1..m)) = m
<1>1. IsFiniteSet({x}) /\ Cardinality({x}) = 1
  BY FS_Singleton
<1>2. IsFiniteSet(1..m) /\ Cardinality(1..m) = m
  BY FS_Interval
<1>3. IsFiniteSet({x} \X (1..m)) /\ Cardinality({x} \X (1..m)) = Cardinality({x}) * Cardinality(1..m)
  BY <1>1, <1>2, FS_Product
<1> QED
  BY <1>1, <1>2, <1>3

\* A request more, and what it adds.
LEMMA TotalGrows ==
  ASSUME NEW S, IsFiniteSet(S), NEW x, x \notin S, NEW n \in Nat, NEW f, NEW g,
         NEW m \in Nat, m = f[x], m <= n, \A q \in S : f[q] = g[q]
  PROVE  Total(S \cup {x}, n, f) = Total(S, n, g) + m
<1> DEFINE U == {x} \X (1..m)
<1>1. IsFiniteSet(U) /\ Cardinality(U) = m
  BY RowOfTokens
<1>2. Tokens(S \cup {x}, n, f) = Tokens(S, n, g) \cup U
  <2>1. Tokens(S \cup {x}, n, f) \subseteq Tokens(S, n, g) \cup U
    BY DEF Tokens
  <2>2. U \subseteq Tokens(S \cup {x}, n, f)
    BY DEF Tokens
  <2>3. Tokens(S, n, g) \subseteq Tokens(S \cup {x}, n, f)
    BY DEF Tokens
  <2> QED
    BY <2>1, <2>2, <2>3
<1>3. Tokens(S, n, g) \cap U = {}
  BY DEF Tokens
<1>4. IsFiniteSet(Tokens(S, n, g)) /\ Total(S, n, g) \in Nat
  BY TotalBound
<1> HIDE DEF U
<1>5. Cardinality(Tokens(S, n, g) \cup U)
        = Cardinality(Tokens(S, n, g)) + Cardinality(U) - Cardinality(Tokens(S, n, g) \cap U)
  BY <1>1, <1>4, FS_Union
<1>6. Cardinality(Tokens(S, n, g) \cap U) = 0
  BY <1>3, FS_EmptySet
<1>7. Cardinality(Tokens(S, n, g)) \in Nat
  BY <1>4 DEF Total
<1>8. Cardinality(Tokens(S, n, g) \cup U) = Cardinality(Tokens(S, n, g)) + m
  BY <1>1, <1>5, <1>6, <1>7
<1> QED
  BY <1>2, <1>8 DEF Total

\* There are requests and documents, the requests are finitely many, and the
\* number of chunks is bounded (MAX_UPLOAD_CHUNKS, index.js:87).
Limited ==
  /\ IsFiniteSet(Requests) /\ Requests # {} /\ Docs # {}
  /\ \E n \in Nat : \A d \in Docs : ChunksOf[d] <= n

\* Every non-empty set of naturals has a least element.
LEMMA LeastNatural ==
  ASSUME NEW T, T \subseteq Nat, T # {}
  PROVE  \E x \in T : \A y \in T : x <= y
<1> DEFINE R == {ss \in Nat \X Nat : ss[1] < ss[2]}
<1>1. IsWellFoundedOn(R, Nat)
  BY NatLessThanWellFounded DEF OpToRel
<1>2. \A i, j \in Nat : i < j => <<i, j>> \in R
  OBVIOUS
<1> HIDE DEF R
<1>3. PICK x \in T : \A y \in T : ~(<<y, x>> \in R)
  BY <1>1, WFMin
<1>4. ASSUME NEW y \in T PROVE x <= y
  <2>1. x \in Nat /\ y \in Nat /\ ~(y < x)
    BY <1>2, <1>3
  <2> QED
    BY <2>1
<1> QED
  BY <1>4

\* Some document has as many chunks as any.
LEMMA MostIs ==
  ASSUME Limited
  PROVE  /\ Most("upload") = 1 /\ \A b \in Buckets : Most(b) \in Nat
         /\ \A d \in Docs : ChunksOf[d] <= Most("openai")
<1> DEFINE T == {m \in Nat : \A d \in Docs : ChunksOf[d] <= m}
<1>0. \A d \in Docs : ChunksOf[d] \in Nat \ {0}
  BY ConstantsOK
<1>1. T # {} /\ T \subseteq Nat
  BY DEF Limited
<1>2. PICK x \in T : \A y \in T : x <= y
  <2> HIDE DEF T
  <2> QED
    BY <1>1, LeastNatural
<1>3. \E d \in Docs : ChunksOf[d] = x
  <2> SUFFICES ASSUME \A d \in Docs : ChunksOf[d] # x PROVE FALSE
    OBVIOUS
  <2>1. \A d \in Docs : ChunksOf[d] <= x - 1
    BY <1>0, <1>2
  <2>2. PICK e \in Docs : TRUE
    BY DEF Limited
  <2>3. x - 1 \in Nat
    BY <1>0, <2>1, <2>2
  <2>4. x - 1 \in T
    BY <2>1, <2>3
  <2> QED
    BY <1>2, <2>4
<1>4. /\ Most("openai") \in {ChunksOf[d] : d \in Docs}
      /\ \A d \in Docs : ChunksOf[d] <= Most("openai")
  <2>1. \E n \in {ChunksOf[d] : d \in Docs} : \A d \in Docs : ChunksOf[d] <= n
    BY <1>2, <1>3
  <2> QED
    BY <2>1 DEF Most
<1> QED
  BY <1>0, <1>4 DEF Most, Buckets

LEMMA ChargesBounded ==
  ASSUME Typed, Limited, NEW d \in Docs
  PROVE  Bounded(Charges(d))
<1>1. /\ limits["upload"] \in Nat /\ limits["openai"] \in Nat /\ ChunksOf[d] \in Nat
      /\ Most("upload") = 1 /\ ChunksOf[d] <= Most("openai") /\ Most("openai") \in Nat
  BY ConstantsOK, MostIs DEF Typed, TypeOK, Buckets
<1>2. \A i \in 1..Len(Charges(d)) :
        Charges(d)[i] \in {[bucket |-> "upload", amount |-> 1],
                           [bucket |-> "openai", amount |-> ChunksOf[d]]}
  BY DEF Charges, Charged
<1> QED
  BY <1>1, <1>2 DEF Bounded

LEMMA TailBounded ==
  ASSUME NEW due \in Seq(Charge), due # <<>>, Bounded(due)
  PROVE  Bounded(Tail(due))
BY DEF Bounded

\* What a request that is being charged has before it.
LEMMA HeadOfDue ==
  ASSUME Typed, DuesBounded, NEW q \in Requests, req[q].pc \in Budgeting
  PROVE  /\ Head(req[q].due).bucket \in Buckets
         /\ Amount[q] \in Nat /\ Amount[q] = Head(req[q].due).amount
         /\ Amount[q] <= Most(Head(req[q].due).bucket)
<1>1. req[q].due \in Seq(Charge) /\ req[q].due # <<>>
  BY RequestTyped DEF Shape, Request
<1>2. Head(req[q].due) \in Charge /\ Head(req[q].due) = req[q].due[1] /\ 1 \in 1..Len(req[q].due)
  BY <1>1
<1>3. req[q].due[1].amount <= Most(req[q].due[1].bucket)
  BY <1>2 DEF DuesBounded, Bounded
<1> QED
  BY <1>2, <1>3 DEF Amount, Charge

\* The sums of the requests that wait are natural numbers.
LEMMA Waiting ==
  ASSUME Typed, Limited, NEW b \in Buckets, NEW r \in Requests
  PROVE  /\ Most(b) \in Nat /\ limits[b] \in Nat
         /\ (Cardinality(Requests) - 1) * Most(b) \in Nat
         /\ Total(Pend(b), Most(b), Amount) \in Nat
         /\ usage[b] \in [Users \cup {Global} -> Nat] /\ usage[b][Global] \in Nat
         /\ IsFiniteSet(Pend(b))
         /\ \A u \in Users : /\ usage[b][u] \in Nat
                             /\ IsFiniteSet(Behind(b, u))
                             /\ Total(Behind(b, u), Most(b), Amount) \in Nat
<1>1. Most(b) \in Nat
  BY MostIs
<1>2. limits[b] \in Nat /\ usage[b] \in [Users \cup {Global} -> Nat]
  BY DEF Typed, TypeOK, Buckets
<1>3. Cardinality(Requests) \in Nat /\ Cardinality(Requests) # 0
  BY FS_CardinalityType, FS_EmptySet DEF Limited
<1>4. (Cardinality(Requests) - 1) * Most(b) \in Nat
  <2>1. PICK k \in Nat : k = Cardinality(Requests) - 1
    BY <1>3
  <2> QED
    BY <1>1, <2>1
<1>5. IsFiniteSet(Pend(b)) /\ \A u \in Users : IsFiniteSet(Behind(b, u))
  <2>1. Pend(b) \in SUBSET Requests /\ \A u \in Users : Behind(b, u) \in SUBSET Requests
    BY DEF Pend, Behind
  <2> QED
    BY <2>1, FS_Subset DEF Limited
<1> QED
  BY <1>1, <1>2, <1>4, <1>5, TotalBound

\* A step that charges nothing, and after which nobody else waits.
LEMMA NothingCharged ==
  ASSUME Typed, Typed', Limited, Budgeted, NEW r \in Requests,
         \A q \in Requests \ {r} : req'[q] = req[q],
         usage' = usage, limits' = limits, past'.raced = past.raced,
         req'[r].pc # "add_user",
         req'[r].pc \in Budgeting => Bounded(req'[r].due),
         req'[r].pc \in InFlight => req[r].pc \in InFlight /\ req'[r].due = req[r].due
  PROVE  Budgeted'
<1>1. \A q \in Requests, b \in Buckets :
        q \in Pend(b)' => q \in Pend(b) /\ Amount'[q] = Amount[q]
  BY DEF Pend, Charging, Amount
<1>2. \A q \in Requests, b \in Buckets, u \in Users :
        q \in Behind(b, u)' => q \in Behind(b, u) /\ Amount'[q] = Amount[q]
  BY DEF Behind, Charging, Amount
<1>3. \A b \in Buckets : Pend(b)' \in SUBSET Pend(b) /\ \A q \in Pend(b)' : Amount'[q] = Amount[q]
  BY <1>1 DEF Pend
<1>4. \A b \in Buckets, u \in Users :
        Behind(b, u)' \in SUBSET Behind(b, u) /\ \A q \in Behind(b, u)' : Amount'[q] = Amount[q]
  BY <1>2 DEF Behind
<1>5. DuesBounded'
  BY DEF Budgeted, DuesBounded, Bounded
<1>6. StillFits'
  <2> SUFFICES ASSUME NEW b \in Buckets \ past.raced
               PROVE  /\ usage[b][Global] <= limits[b]
                      /\ \A q \in Requests : req'[q].pc \in InFlight /\ Charging(q, b)' =>
                           usage[b][Global] + Head(req'[q].due).amount <= limits[b]
    BY DEF StillFits
  <2> QED
    BY DEF Budgeted, StillFits, Charging
<1>7. Overshoot'
  <2> SUFFICES ASSUME NEW b \in Buckets
               PROVE  usage[b][Global] + Total(Pend(b)', Most(b), Amount')
                        <= limits[b] + (Cardinality(Requests) - 1) * Most(b)
    BY DEF Overshoot
  <2>1. /\ Total(Pend(b)', Most(b), Amount') <= Total(Pend(b), Most(b), Amount)
        /\ Total(Pend(b)', Most(b), Amount') \in Nat
    BY <1>3, Waiting, TotalLess
  <2>2. usage[b][Global] + Total(Pend(b), Most(b), Amount)
          <= limits[b] + (Cardinality(Requests) - 1) * Most(b)
    BY DEF Budgeted, Overshoot
  <2> QED
    BY <2>1, <2>2, Waiting
<1>8. Covered'
  <2> SUFFICES ASSUME NEW b \in Buckets, NEW u \in Users
               PROVE  usage[b][u] + Total(Behind(b, u)', Most(b), Amount') <= usage[b][Global]
    BY DEF Covered
  <2>1. /\ Total(Behind(b, u)', Most(b), Amount') <= Total(Behind(b, u), Most(b), Amount)
        /\ Total(Behind(b, u)', Most(b), Amount') \in Nat
    BY <1>4, Waiting, TotalLess
  <2>2. usage[b][u] + Total(Behind(b, u), Most(b), Amount) <= usage[b][Global]
    BY DEF Budgeted, Covered
  <2> QED
    BY <2>1, <2>2, Waiting
<1> QED
  BY <1>5, <1>6, <1>7, <1>8 DEF Budgeted

\* The other requests together add at most what the bound allows.
LEMMA OthersBound ==
  ASSUME Limited, NEW r \in Requests, NEW S \in SUBSET (Requests \ {r}), NEW n \in Nat, NEW f
  PROVE  Total(S, n, f) <= (Cardinality(Requests) - 1) * n
<1>1. IsFiniteSet(Requests \ {r}) /\ Cardinality(Requests \ {r}) = Cardinality(Requests) - 1
  BY FS_RemoveElement DEF Limited
<1>2. Total(Requests \ {r}, n, f) <= Cardinality(Requests \ {r}) * n
  BY <1>1, TotalBound
<1>3. /\ Total(S, n, f) <= Total(Requests \ {r}, n, f)
      /\ Total(S, n, f) \in Nat /\ Total(Requests \ {r}, n, f) \in Nat
  BY <1>1, TotalLess
<1>4. Cardinality(Requests \ {r}) \in Nat
  BY <1>1, FS_CardinalityType
<1> DEFINE k == Cardinality(Requests) - 1
<1>5. k \in Nat /\ Total(Requests \ {r}, n, f) <= k * n
  BY <1>1, <1>2, <1>4
<1> HIDE DEF k
<1>6. k * n \in Nat
  BY <1>5
<1>7. Total(S, n, f) <= k * n
  BY <1>3, <1>5, <1>6
<1> QED
  BY <1>7 DEF k

\* A request reads the counter of everybody and finds that it fits.
LEMMA GlobalChecked ==
  ASSUME Typed, Typed', Limited, Budgeted, NEW r \in Requests, GoesTo(r, "check_user"),
         req[r].pc = "check_global", Fits(Head(req[r].due), Global),
         usage' = usage, limits' = limits, past'.raced = past.raced
  PROVE  Budgeted'
<1>0. /\ req'[r].pc = "check_user" /\ req'[r].due = req[r].due
      /\ \A q \in Requests \ {r} : req'[q] = req[q]
  BY DEF GoesTo
<1>b. PICK c \in Buckets : c = Head(req[r].due).bucket
  BY HeadOfDue DEF Budgeted, Budgeting
<1>m. PICK m \in Nat : m = Head(req[r].due).amount /\ m = Amount[r] /\ m <= Most(c)
  BY <1>b, HeadOfDue DEF Budgeted, Budgeting
<1>1. usage[c][Global] + m <= limits[c]
  BY <1>b, <1>m DEF Fits
<1>2. /\ \A q \in Requests : Amount'[q] = Amount[q]
      /\ \A q \in Requests, b \in Buckets : Charging(q, b)' <=> Charging(q, b)
  BY <1>0 DEF Amount, Charging
<1>3. \A b \in Buckets : /\ r \notin Pend(b) /\ Pend(b) \in SUBSET Requests
                         /\ Pend(b)' = IF b = c THEN Pend(b) \cup {r} ELSE Pend(b)
  <2>1. \A b \in Buckets : r \notin Pend(b) /\ (r \in Pend(b)' <=> b = c)
    BY <1>0, <1>b DEF Pend, Charging, InFlight
  <2>2. \A q \in Requests \ {r}, b \in Buckets : q \in Pend(b)' <=> q \in Pend(b)
    BY <1>0 DEF Pend, Charging
  <2> QED
    BY <2>1, <2>2 DEF Pend
<1>4. \A b \in Buckets, u \in Users : Behind(b, u)' = Behind(b, u)
  BY <1>0 DEF Behind, Charging
<1>5. DuesBounded'
  BY <1>0 DEF Budgeted, DuesBounded, Bounded, Budgeting
<1>6. StillFits'
  <2> SUFFICES ASSUME NEW b \in Buckets \ past.raced
               PROVE  /\ usage[b][Global] <= limits[b]
                      /\ \A q \in Requests : req'[q].pc \in InFlight /\ Charging(q, b)' =>
                           usage[b][Global] + Head(req'[q].due).amount <= limits[b]
    BY DEF StillFits
  <2>1. ASSUME NEW q \in Requests \ {r}, req'[q].pc \in InFlight, Charging(q, b)'
        PROVE  usage[b][Global] + Head(req'[q].due).amount <= limits[b]
    BY <1>0, <2>1 DEF Budgeted, StillFits, Charging
  <2>2. Charging(r, b)' => b = c /\ Head(req'[r].due).amount = m
    BY <1>0, <1>b, <1>m DEF Charging
  <2> QED
    BY <1>1, <2>1, <2>2 DEF Budgeted, StillFits
<1>7. Overshoot'
  <2> SUFFICES ASSUME NEW b \in Buckets
               PROVE  usage[b][Global] + Total(Pend(b)', Most(b), Amount')
                        <= limits[b] + (Cardinality(Requests) - 1) * Most(b)
    BY DEF Overshoot
  <2>1. Pend(b) \in SUBSET Requests /\ IsFiniteSet(Pend(b)) /\ Most(b) \in Nat
    BY <1>3, Waiting
  <2>2. CASE b # c
    <3>1. /\ Total(Pend(b)', Most(b), Amount') <= Total(Pend(b), Most(b), Amount)
          /\ Total(Pend(b)', Most(b), Amount') \in Nat
      BY <1>2, <1>3, <2>1, <2>2, TotalLess
    <3>2. usage[b][Global] + Total(Pend(b), Most(b), Amount)
            <= limits[b] + (Cardinality(Requests) - 1) * Most(b)
      BY DEF Budgeted, Overshoot
    <3> QED
      BY <3>1, <3>2, Waiting
  <2>3. CASE b = c
    <3>1. Total(Pend(b) \cup {r}, Most(b), Amount') = Total(Pend(b), Most(b), Amount) + m
      <4>1. r \notin Pend(b) /\ m = Amount'[r] /\ m <= Most(b)
        BY <1>2, <1>3, <1>m, <2>3
      <4>2. \A q \in Pend(b) : Amount'[q] = Amount[q]
        BY <1>2, <2>1
      <4> QED
        BY <2>1, <4>1, <4>2, TotalGrows
    <3>2. Total(Pend(b), Most(b), Amount) <= (Cardinality(Requests) - 1) * Most(b)
      BY <1>3, <2>1, OthersBound
    <3>3. Pend(b)' = Pend(b) \cup {r}
      BY <1>3, <2>3
    <3> QED
      BY <1>1, <2>3, <3>1, <3>2, <3>3, Waiting
  <2> QED
    BY <2>2, <2>3
<1>8. Covered'
  <2> SUFFICES ASSUME NEW b \in Buckets, NEW u \in Users
               PROVE  usage[b][u] + Total(Behind(b, u), Most(b), Amount') <= usage[b][Global]
    BY <1>4 DEF Covered
  <2>1. /\ Total(Behind(b, u), Most(b), Amount') <= Total(Behind(b, u), Most(b), Amount)
        /\ Total(Behind(b, u), Most(b), Amount') \in Nat
    <3>1. \A q \in Behind(b, u) : Amount'[q] = Amount[q]
      BY <1>2 DEF Behind
    <3>2. IsFiniteSet(Behind(b, u)) /\ Most(b) \in Nat
      BY Waiting
    <3> QED
      BY <3>1, <3>2, TotalLess
  <2>2. usage[b][u] + Total(Behind(b, u), Most(b), Amount) <= usage[b][Global]
    BY DEF Budgeted, Covered
  <2> QED
    BY <2>1, <2>2, Waiting
<1> QED
  BY <1>5, <1>6, <1>7, <1>8 DEF Budgeted

\* A counter goes up by what the request was charged.
LEMMA CountedAs ==
  ASSUME Typed, NEW r \in Requests, NEW k \in Users \cup {Global}, Counted(r, k),
         NEW c \in Buckets, c = Head(req[r].due).bucket,
         NEW m \in Nat, m = Head(req[r].due).amount
  PROVE  /\ usage'[c][k] = usage[c][k] + m
         /\ \A b \in Buckets, j \in Users \cup {Global} :
              b # c \/ j # k => usage'[b][j] = usage[b][j]
<1>1. usage' = [usage EXCEPT ![c] = [usage[c] EXCEPT ![k] = @ + m]]
  BY DEF Counted
<1>2. usage \in [Buckets -> [Users \cup {Global} -> Nat]]
  BY DEF Typed, TypeOK
<1>3. usage[c] \in [Users \cup {Global} -> Nat]
  BY <1>2
<1>4. usage'[c] = [usage[c] EXCEPT ![k] = @ + m] /\ \A b \in Buckets : b # c => usage'[b] = usage[b]
  BY <1>1, <1>2
<1>5. usage'[c][k] = usage[c][k] + m /\ \A j \in Users \cup {Global} : j # k => usage'[c][j] = usage[c][j]
  BY <1>3, <1>4
<1> QED
  BY <1>4, <1>5

LEMMA GlobalAdded ==
  ASSUME Typed, Typed', Limited, Budgeted, NEW r \in Requests, AddGlobal(r)
  PROVE  Budgeted'
<1>p. req[r].pc = "add_global" /\ limits' = limits /\ Counted(r, Global) /\ Moves(r, Goto(r, "add_user"))
  BY DEF AddGlobal, At
<1>0. /\ req'[r].pc = "add_user" /\ req'[r].due = req[r].due /\ req'[r].user = req[r].user
      /\ \A q \in Requests \ {r} : req'[q] = req[q]
  <2>1. "add_user" \in PCs
    BY DEF PCs, Budgeting
  <2> QED
    BY <1>p, <2>1, GotoGoes DEF GoesTo
<1>b. PICK c \in Buckets : c = Head(req[r].due).bucket
  BY <1>p, HeadOfDue DEF Budgeted, Budgeting
<1>m. PICK m \in Nat : m = Head(req[r].due).amount /\ m = Amount[r] /\ m <= Most(c)
  BY <1>p, <1>b, HeadOfDue DEF Budgeted, Budgeting
<1>v. PICK v \in Users : v = req[r].user
  BY <1>p, RequestTyped DEF Shape, Budgeting
<1>u. /\ usage'[c][Global] = usage[c][Global] + m
      /\ \A b \in Buckets, j \in Users \cup {Global} :
           b # c \/ j # Global => usage'[b][j] = usage[b][j]
  BY <1>p, <1>b, <1>m, CountedAs
<1>r. past'.raced = past.raced \cup
       {x \in {c} : \E q \in Requests \ {r} :
          req[q].pc \in {"check_user", "add_global"} /\ Head(req[q].due).bucket = x}
  <2>1. past' = [past EXCEPT !.raced = @ \cup
       {x \in {c} : \E q \in Requests \ {r} :
          req[q].pc \in {"check_user", "add_global"} /\ Head(req[q].due).bucket = x}]
    BY <1>b DEF AddGlobal
  <2>2. past \in Past
    BY RequestTyped
  <2> QED
    BY <2>1, <2>2 DEF Past
<1>g. \A u \in Users : u # Global
  BY ConstantsOK
<1>2. /\ \A q \in Requests : Amount'[q] = Amount[q]
      /\ \A q \in Requests, b \in Buckets : Charging(q, b)' <=> Charging(q, b)
  BY <1>0 DEF Amount, Charging
<1>3. \A b \in Buckets : /\ Pend(b)' \in SUBSET Requests
                         /\ r \notin Pend(b)' /\ Pend(b) = IF b = c THEN Pend(b)' \cup {r} ELSE Pend(b)'
  <2>1. \A b \in Buckets : r \notin Pend(b)' /\ (r \in Pend(b) <=> b = c)
    BY <1>0, <1>b, <1>p DEF Pend, Charging, InFlight
  <2>2. \A q \in Requests \ {r}, b \in Buckets : q \in Pend(b)' <=> q \in Pend(b)
    BY <1>0 DEF Pend, Charging
  <2> QED
    BY <2>1, <2>2 DEF Pend
<1>4. \A b \in Buckets, u \in Users :
        /\ r \notin Behind(b, u) /\ Behind(b, u) \in SUBSET Requests
        /\ Behind(b, u)' = IF b = c /\ u = v THEN Behind(b, u) \cup {r} ELSE Behind(b, u)
  <2>1. \A b \in Buckets, u \in Users :
          r \notin Behind(b, u) /\ (r \in Behind(b, u)' <=> b = c /\ u = v)
    BY <1>0, <1>b, <1>p, <1>v DEF Behind, Charging
  <2>2. \A q \in Requests \ {r}, b \in Buckets, u \in Users : q \in Behind(b, u)' <=> q \in Behind(b, u)
    BY <1>0 DEF Behind, Charging
  <2> QED
    BY <2>1, <2>2 DEF Behind
<1>5. DuesBounded'
  BY <1>0, <1>p DEF Budgeted, DuesBounded, Bounded, Budgeting
<1>6. StillFits'
  <2> SUFFICES ASSUME NEW b \in Buckets, b \notin past'.raced
               PROVE  /\ usage'[b][Global] <= limits[b]
                      /\ \A q \in Requests : req'[q].pc \in InFlight /\ Charging(q, b)' =>
                           usage'[b][Global] + Head(req'[q].due).amount <= limits[b]
    BY <1>p DEF StillFits
  <2>0. b \notin past.raced
    BY <1>r
  <2>1. CASE b # c
    <3>1. usage'[b][Global] = usage[b][Global]
      BY <1>u, <2>1
    <3>2. \A q \in Requests : req'[q].pc \in InFlight /\ Charging(q, b)' => req'[q] = req[q]
      BY <1>0 DEF InFlight
    <3> QED
      BY <2>0, <3>1, <3>2 DEF Budgeted, StillFits, Charging
  <2>2. CASE b = c
    <3>1. usage[b][Global] + m <= limits[b]
      BY <1>b, <1>m, <1>p, <2>0, <2>2 DEF Budgeted, StillFits, InFlight, Charging
    <3>2. \A q \in Requests : ~(req'[q].pc \in InFlight /\ Charging(q, b)')
      BY <1>0, <1>r, <2>2 DEF InFlight, Charging
    <3> QED
      BY <1>u, <2>2, <3>1, <3>2
  <2> QED
    BY <2>1, <2>2
<1>7. Overshoot'
  <2> SUFFICES ASSUME NEW b \in Buckets
               PROVE  usage'[b][Global] + Total(Pend(b)', Most(b), Amount')
                        <= limits[b] + (Cardinality(Requests) - 1) * Most(b)
    BY <1>p DEF Overshoot
  <2>1. usage[b][Global] + Total(Pend(b), Most(b), Amount)
          <= limits[b] + (Cardinality(Requests) - 1) * Most(b)
    BY DEF Budgeted, Overshoot
  <2>2. Pend(b)' \in SUBSET Requests /\ IsFiniteSet(Pend(b)') /\ Most(b) \in Nat
    BY <1>3, Waiting, FS_Subset DEF Limited
  <2>3. \A q \in Pend(b)' : Amount[q] = Amount'[q] /\ Amount'[q] = Amount[q]
    BY <1>2, <2>2
  <2>4. Total(Pend(b)', Most(b), Amount') \in Nat
    BY <2>2, TotalBound
  <2>5. CASE b # c
    <3>1. Pend(b)' \in SUBSET Pend(b) /\ IsFiniteSet(Pend(b))
      BY <1>3, <2>5, Waiting
    <3>2. Total(Pend(b)', Most(b), Amount') <= Total(Pend(b), Most(b), Amount)
      BY <2>2, <2>3, <3>1, TotalLess
    <3>3. usage'[b][Global] = usage[b][Global]
      BY <1>u, <2>5
    <3> QED
      BY <2>1, <2>4, <3>2, <3>3, Waiting
  <2>6. CASE b = c
    <3>0. r \notin Pend(b)' /\ m = Amount[r] /\ m <= Most(b) /\ IsFiniteSet(Pend(b)') /\ Most(b) \in Nat
      BY <1>3, <1>m, <2>2, <2>6
    <3>1. Pend(b) = Pend(b)' \cup {r}
      BY <1>3, <2>6
    <3>2. Total(Pend(b)' \cup {r}, Most(b), Amount) = Total(Pend(b)', Most(b), Amount') + m
      BY <2>3, <3>0, TotalGrows
    <3>3. usage'[b][Global] = usage[b][Global] + m
      BY <1>u, <2>6
    <3> QED
      BY <2>1, <2>4, <3>1, <3>2, <3>3, Waiting
  <2> QED
    BY <2>5, <2>6
<1>8. Covered'
  <2> SUFFICES ASSUME NEW b \in Buckets, NEW u \in Users
               PROVE  usage'[b][u] + Total(Behind(b, u)', Most(b), Amount') <= usage'[b][Global]
    BY DEF Covered
  <2>1. usage[b][u] + Total(Behind(b, u), Most(b), Amount) <= usage[b][Global]
    BY DEF Budgeted, Covered
  <2>2. Behind(b, u) \in SUBSET Requests /\ IsFiniteSet(Behind(b, u)) /\ Most(b) \in Nat
    BY <1>4, Waiting
  <2>3. \A q \in Behind(b, u) : Amount'[q] = Amount[q]
    BY <1>2, <2>2
  <2>4. usage'[b][u] = usage[b][u]
    BY <1>g, <1>u
  <2>5. CASE b = c /\ u = v
    <3> DEFINE S == Behind(b, u)
               f == Amount'
               n == Most(b)
    <3>0. /\ r \notin S /\ m = f[r] /\ m <= n /\ IsFiniteSet(S) /\ n \in Nat
          /\ \A q \in S : f[q] = Amount[q]
      BY <1>2, <1>4, <1>m, <2>2, <2>3, <2>5
    <3>1. Behind(b, u)' = Behind(b, u) \cup {r}
      BY <1>4, <2>5
    <3>2. Total(Behind(b, u) \cup {r}, Most(b), Amount') = Total(Behind(b, u), Most(b), Amount) + m
      <4> HIDE DEF S, f, n
      <4>1. Total(S \cup {r}, n, f) = Total(S, n, Amount) + m
        BY ONLY <3>0, TotalGrows, SMTT(60)
      <4> QED
        BY <4>1 DEF S, f, n
    <3>3. usage'[b][Global] = usage[b][Global] + m
      BY <1>u, <2>5
    <3> QED
      BY <2>1, <2>4, <3>1, <3>2, <3>3, Waiting
  <2>6. CASE ~(b = c /\ u = v)
    <3>1. Behind(b, u)' = Behind(b, u)
      BY <1>4, <2>6
    <3>2. /\ Total(Behind(b, u), Most(b), Amount') <= Total(Behind(b, u), Most(b), Amount)
          /\ Total(Behind(b, u), Most(b), Amount') \in Nat
      BY <2>2, <2>3, TotalLess
    <3>3. usage'[b][Global] >= usage[b][Global] /\ usage'[b][Global] \in Nat
      <4>1. usage[b][Global] \in Nat
        BY Waiting
      <4>2. CASE b = c
        BY <1>u, <4>1, <4>2
      <4>3. CASE b # c
        BY <1>u, <4>1, <4>3
      <4> QED
        BY <4>2, <4>3
    <3> QED
      BY <2>1, <2>4, <3>1, <3>2, <3>3, Waiting
  <2> QED
    BY <2>5, <2>6
<1> QED
  BY <1>5, <1>6, <1>7, <1>8 DEF Budgeted

LEMMA UserAdded ==
  ASSUME Typed, Typed', Limited, Budgeted, NEW r \in Requests, AddUser(r)
  PROVE  Budgeted'
<1>p. /\ req[r].pc = "add_user" /\ limits' = limits /\ Counted(r, req[r].user)
      /\ past'.raced = past.raced
  BY DEF AddUser, At
<1>t. /\ req[r].due \in Seq(Charge) /\ req[r].due # <<>> /\ req[r].user \in Users
      /\ req[r] \in Request /\ req \in [Requests -> Request]
  BY <1>p, RequestTyped DEF Shape, Request, Budgeting, Typed, TypeOK
<1>0. /\ req'[r].pc \in {"insert_document", "check_global"} /\ req'[r].due = Tail(req[r].due)
      /\ \A q \in Requests \ {r} : req'[q] = req[q]
  <2> DEFINE rest == Tail(req[r].due)
             p == IF rest = <<>> THEN "insert_document" ELSE "check_global"
             n == [req[r] EXCEPT !.due = rest, !.pc = p]
  <2>1. Moves(r, n)
    BY DEF AddUser
  <2>2. p \in {"insert_document", "check_global"}
    OBVIOUS
  <2> HIDE DEF p, rest
  <2>3. n.pc = p /\ n.due = rest
    BY <1>t DEF Request
  <2> HIDE DEF n
  <2>4. req'[r] = n /\ \A q \in Requests \ {r} : req'[q] = req[q]
    BY <1>t, <2>1, MovedOnly
  <2> QED
    BY <2>2, <2>3, <2>4 DEF rest
<1>b. PICK c \in Buckets : c = Head(req[r].due).bucket
  BY <1>p, HeadOfDue DEF Budgeted, Budgeting
<1>m. PICK m \in Nat : m = Head(req[r].due).amount /\ m = Amount[r] /\ m <= Most(c)
  BY <1>p, <1>b, HeadOfDue DEF Budgeted, Budgeting
<1>v. PICK v \in Users : v = req[r].user
  BY <1>t
<1>u. /\ usage'[c][v] = usage[c][v] + m
      /\ \A b \in Buckets, j \in Users \cup {Global} :
           b # c \/ j # v => usage'[b][j] = usage[b][j]
  BY <1>p, <1>b, <1>m, <1>v, CountedAs
<1>g. \A b \in Buckets : usage'[b][Global] = usage[b][Global]
  BY <1>u, ConstantsOK
<1>2. \A q \in Requests \ {r} : Amount'[q] = Amount[q]
  BY <1>0 DEF Amount
<1>3. \A b \in Buckets : /\ Pend(b)' = Pend(b)
                         /\ \A q \in Pend(b) : q \in Requests \ {r} /\ Amount'[q] = Amount[q]
  <2>1. \A b \in Buckets : r \notin Pend(b) /\ r \notin Pend(b)'
    BY <1>0, <1>p DEF Pend, InFlight
  <2>2. \A q \in Requests \ {r}, b \in Buckets : q \in Pend(b)' <=> q \in Pend(b)
    BY <1>0 DEF Pend, Charging
  <2> QED
    BY <1>2, <2>1, <2>2 DEF Pend
<1>4. \A b \in Buckets, u \in Users :
        /\ r \notin Behind(b, u)' /\ Behind(b, u)' \in SUBSET Requests
        /\ Behind(b, u) = IF b = c /\ u = v THEN Behind(b, u)' \cup {r} ELSE Behind(b, u)'
        /\ \A q \in Behind(b, u)' : Amount[q] = Amount'[q] /\ Amount'[q] = Amount[q]
  <2>1. \A b \in Buckets, u \in Users :
          r \notin Behind(b, u)' /\ (r \in Behind(b, u) <=> b = c /\ u = v)
    BY <1>0, <1>b, <1>p, <1>v DEF Behind, Charging
  <2>2. \A q \in Requests \ {r}, b \in Buckets, u \in Users : q \in Behind(b, u)' <=> q \in Behind(b, u)
    BY <1>0 DEF Behind, Charging
  <2>3. \A b \in Buckets, u \in Users : \A q \in Behind(b, u)' : q \in Requests \ {r}
    BY <2>1 DEF Behind
  <2> QED
    BY <1>2, <2>1, <2>2, <2>3 DEF Behind
<1>5. DuesBounded'
  <2>1. Bounded(req'[r].due)
    BY <1>0, <1>p, <1>t, TailBounded DEF Budgeted, DuesBounded, Budgeting
  <2> QED
    BY <1>0, <2>1 DEF Budgeted, DuesBounded, Bounded
<1>6. StillFits'
  <2> SUFFICES ASSUME NEW b \in Buckets \ past.raced
               PROVE  /\ usage'[b][Global] <= limits[b]
                      /\ \A q \in Requests : req'[q].pc \in InFlight /\ Charging(q, b)' =>
                           usage'[b][Global] + Head(req'[q].due).amount <= limits[b]
    BY <1>p DEF StillFits
  <2>1. \A q \in Requests : req'[q].pc \in InFlight => req'[q] = req[q]
    BY <1>0 DEF InFlight
  <2> QED
    BY <1>g, <2>1 DEF Budgeted, StillFits, Charging
<1>7. Overshoot'
  <2> SUFFICES ASSUME NEW b \in Buckets
               PROVE  usage'[b][Global] + Total(Pend(b), Most(b), Amount')
                        <= limits[b] + (Cardinality(Requests) - 1) * Most(b)
    BY <1>p, <1>3 DEF Overshoot
  <2>1. \A q \in Pend(b) : Amount'[q] = Amount[q]
    BY <1>3
  <2>2. IsFiniteSet(Pend(b)) /\ Most(b) \in Nat
    BY Waiting
  <2>3. /\ Total(Pend(b), Most(b), Amount') <= Total(Pend(b), Most(b), Amount)
        /\ Total(Pend(b), Most(b), Amount') \in Nat
    BY <2>1, <2>2, TotalLess
  <2>4. usage[b][Global] + Total(Pend(b), Most(b), Amount)
          <= limits[b] + (Cardinality(Requests) - 1) * Most(b)
    BY DEF Budgeted, Overshoot
  <2> QED
    BY <1>g, <2>3, <2>4, Waiting
<1>8. Covered'
  <2> SUFFICES ASSUME NEW b \in Buckets, NEW u \in Users
               PROVE  usage'[b][u] + Total(Behind(b, u)', Most(b), Amount') <= usage[b][Global]
    BY <1>g DEF Covered
  <2>1. usage[b][u] + Total(Behind(b, u), Most(b), Amount) <= usage[b][Global]
    BY DEF Budgeted, Covered
  <2> DEFINE S == Behind(b, u)'
             f == Amount'
             n == Most(b)
  <2>2. /\ r \notin S /\ IsFiniteSet(S) /\ n \in Nat
        /\ \A q \in S : Amount[q] = f[q] /\ f[q] = Amount[q]
    BY <1>4, Waiting, FS_Subset DEF Limited
  <2>3. Total(S, n, f) \in Nat
    <3> HIDE DEF S, f, n
    <3> QED
      BY <2>2, TotalBound
  <2>4. CASE b = c /\ u = v
    <3>1. m = Amount[r] /\ m <= n
      BY <1>m, <2>4
    <3>2. Behind(b, u) = S \cup {r}
      BY <1>4, <2>4
    <3>3. Total(S \cup {r}, n, Amount) = Total(S, n, f) + m
      <4> HIDE DEF S, f, n
      <4> QED
        BY ONLY <2>2, <3>1, TotalGrows, SMTT(60)
    <3>4. usage'[b][u] = usage[b][u] + m
      BY <1>u, <2>4
    <3>5. usage[b][u] + (Total(S, n, f) + m) <= usage[b][Global]
      BY <2>1, <3>2, <3>3
    <3> HIDE DEF S, f, n
    <3>6. usage'[b][u] + Total(S, n, f) <= usage[b][Global]
      BY <2>3, <3>4, <3>5, Waiting
    <3> QED
      BY <3>6 DEF S, f, n
  <2>5. CASE ~(b = c /\ u = v)
    <3>1. Behind(b, u) = S
      BY <1>4, <2>5
    <3>2. Total(S, n, f) <= Total(S, n, Amount) /\ Total(S, n, Amount) \in Nat
      <4> HIDE DEF S, f, n
      <4> QED
        BY <2>2, TotalLess
    <3>3. usage'[b][u] = usage[b][u]
      BY <1>u, <2>5
    <3>4. usage[b][u] + Total(S, n, Amount) <= usage[b][Global]
      BY <2>1, <3>1
    <3> HIDE DEF S, f, n
    <3>5. usage'[b][u] + Total(S, n, f) <= usage[b][Global]
      BY <2>3, <3>2, <3>3, <3>4, Waiting
    <3> QED
      BY <3>5 DEF S, f, n
  <2> QED
    BY <2>4, <2>5
<1> QED
  BY <1>5, <1>6, <1>7, <1>8 DEF Budgeted

\* Most steps have nothing to do with a counter.
Free(r) ==
  /\ \A q \in Requests \ {r} : req'[q] = req[q]
  /\ req'[r].pc \notin Budgeting
  /\ usage' = usage /\ limits' = limits /\ past'.raced = past.raced

LEMMA FreeBudgeted ==
  ASSUME Typed, Typed', Limited, Budgeted, NEW r \in Requests, Free(r)
  PROVE  Budgeted'
<1>1. req'[r].pc # "add_user" /\ req'[r].pc \notin InFlight
  BY DEF Free, Budgeting, InFlight
<1> QED
  BY <1>1, NothingCharged DEF Free

\* A request that ends, or goes on to a stop that charges nothing.
LEMMA MovesFree ==
  ASSUME Typed, NEW r \in Requests, NEW n, Moves(r, n), n.pc \notin Budgeting,
         usage' = usage, limits' = limits, past'.raced = past.raced
  PROVE  Free(r)
<1>1. req'[r] = n /\ \A q \in Requests \ {r} : req'[q] = req[q]
  BY MovedOnly DEF Typed, TypeOK
<1> QED
  BY <1>1 DEF Free

LEMMA ArriveBudgeted ==
  ASSUME Typed, Typed', Limited, Budgeted, NEW r \in Requests, Arrive(r)
  PROVE  Budgeted'
<1>0. req \in [Requests -> Request] /\ past \in Past /\ Idle \in Request
  BY DEF Typed, TypeOK, Idle, Request, Budgeting, Confirming
<1>a. usage' = usage /\ limits' = limits
  BY DEF Arrive, Malformed, Chat, Upload, SelectOrDelete, store
<1>b. past'.raced = past.raced
  <2>1. past' = past \/ past' = Arriving \/ \E d \in Docs : past' = [Arriving EXCEPT !.used = @ \cup {d}]
    BY DEF Arrive, Malformed, Chat, Upload, SelectOrDelete
  <2>2. Arriving.raced = past.raced
    BY <1>0 DEF Arriving, Past
  <2>3. \A d \in Docs : [Arriving EXCEPT !.used = @ \cup {d}].raced = past.raced
    BY <1>0 DEF Arriving, Past
  <2> QED
    BY <2>1, <2>2, <2>3
<1>1. ASSUME NEW n, Moves(r, n), n.pc \in {"done", "load", "lookup"}
      PROVE  Budgeted'
  <2>1. n.pc \notin Budgeting
    BY <1>1 DEF Budgeting
  <2> QED
    BY <1>1, <1>a, <1>b, <2>1, MovesFree, FreeBudgeted
<1>2. CASE Malformed(r)
  <2>1. Ended(Idle, "refused").pc = "done"
    BY <1>0, EndedType
  <2> QED
    BY <1>1, <1>2, <2>1 DEF Malformed
<1>3. ASSUME NEW s \in Sessions, NEW a \in Actions \cup {NoAction}, Chat(r, s, a)
      PROVE  Budgeted'
  <2> DEFINE rq == [Idle EXCEPT !.op = "chat", !.session = s, !.action = a]
             n == IF HasBudget(a) THEN Ended(rq, "error") ELSE [rq EXCEPT !.pc = "load"]
  <2>1. Moves(r, n)
    BY <1>3 DEF Chat
  <2>2. rq \in Request
    BY <1>0 DEF Request
  <2>3. Ended(rq, "error").pc = "done" /\ [rq EXCEPT !.pc = "load"].pc = "load"
    BY <2>2, EndedType DEF Request
  <2>4. n.pc \in {"load", "done"}
    BY <2>3
  <2> HIDE DEF n
  <2> QED
    BY <1>1, <2>1, <2>4
<1>4. ASSUME NEW s \in Sessions \cup {NoSession}, NEW d \in Docs, NEW op \in {"select", "delete"},
             SelectOrDelete(r, s, d, op)
      PROVE  Budgeted'
  <2> DEFINE n == [Idle EXCEPT !.pc = "lookup", !.op = op, !.session = s, !.doc = d]
  <2>1. Moves(r, n)
    BY <1>4 DEF SelectOrDelete
  <2>2. n.pc = "lookup"
    BY DEF Idle
  <2> HIDE DEF n
  <2> QED
    BY <1>1, <2>1, <2>2
<1>5. ASSUME NEW s \in Sessions \cup {NoSession}, NEW u \in Users, NEW d \in Docs, Upload(r, s, u, d)
      PROVE  Budgeted'
  <2> DEFINE c == Charges(d)
             p == IF c = <<>> THEN "insert_document" ELSE "check_global"
             n == [Idle EXCEPT !.op = "upload", !.session = s, !.user = u, !.doc = d,
                     !.due = c, !.pc = p]
  <2>1. Moves(r, n)
    BY <1>5 DEF Upload
  <2>2. p \in {"insert_document", "check_global"} /\ Bounded(c)
    BY ChargesBounded
  <2> HIDE DEF c, p
  <2>3. n.pc = p /\ n.due = c
    BY DEF Idle
  <2> HIDE DEF n
  <2>4. req'[r] = n /\ \A q \in Requests \ {r} : req'[q] = req[q]
    BY <1>0, <2>1, MovedOnly
  <2>5. /\ req'[r].pc # "add_user" /\ req'[r].pc \notin InFlight /\ Bounded(req'[r].due)
    BY <2>2, <2>3, <2>4 DEF InFlight
  <2> QED
    BY <1>a, <1>b, <2>4, <2>5, NothingCharged
<1> QED
  BY <1>2, <1>3, <1>4, <1>5 DEF Arrive

LEMMA HandleDocumentBudgeted ==
  ASSUME Typed, Typed', Limited, Budgeted, NEW r \in Requests, HandleDocument(r)
  PROVE  Budgeted'
<1>0. req[r] \in Request /\ req \in [Requests -> Request] /\ past \in Past
  BY RequestTyped DEF Typed, TypeOK
<1>f. ASSUME NEW n, Moves(r, n),
             n.pc \in {"done", "load", "save", "insert_document", "chunks", "delete_chunks",
                       "delete_document"},
             usage' = usage, limits' = limits, past'.raced = past.raced
      PROVE  Budgeted'
  <2>1. n.pc \notin Budgeting
    BY <1>f DEF Budgeting
  <2> QED
    BY <1>f, <2>1, MovesFree, FreeBudgeted
<1>e. \A code \in {"ok", "refused", "error"} : Ended(req[r], code).pc = "done"
  BY <1>0, EndedType
<1>g. \A p \in {"load", "chunks", "delete_chunks", "delete_document"} : Goto(r, p).pc = p
  BY <1>0 DEF Goto, Request
<1>a. AfterDocument(r).pc \in {"load", "done"}
  <2>1. [Goto(r, "load") EXCEPT !.stored = 0].pc = "load"
    BY <1>0 DEF Goto, Request
  <2> QED
    BY <1>e, <2>1 DEF AfterDocument
<1>c. ASSUME NEW p \in {"check_global", "check_user"}, NEW k,
             NEW next \in {"check_user", "add_global"}, Check(r, p, k, next)
      PROVE  /\ req[r].pc = p /\ usage' = usage /\ limits' = limits /\ past'.raced = past.raced
             /\ \/ Moves(r, Ended(req[r], "refused"))
                \/ GoesTo(r, next) /\ Fits(Head(req[r].due), k)
  <2>1. next \in PCs
    BY DEF PCs, Budgeting
  <2> QED
    BY <1>c, <2>1, GotoGoes DEF Check, At, store
<1>1. CASE Check(r, "check_global", Global, "check_user")
  BY <1>1, <1>c, <1>e, <1>f, GlobalChecked
<1>2. CASE Check(r, "check_user", req[r].user, "add_global")
  <2>1. CASE Moves(r, Ended(req[r], "refused"))
    BY <1>2, <1>c, <1>e, <1>f, <2>1
  <2>2. CASE GoesTo(r, "add_global")
    <3>1. /\ req[r].pc = "check_user" /\ req'[r].pc = "add_global" /\ req'[r].due = req[r].due
          /\ \A q \in Requests \ {r} : req'[q] = req[q]
          /\ usage' = usage /\ limits' = limits /\ past'.raced = past.raced
      BY <1>2, <1>c, <2>2 DEF GoesTo
    <3>2. Bounded(req'[r].due)
      BY <3>1 DEF Budgeted, DuesBounded, Budgeting
    <3> QED
      BY <3>1, <3>2, NothingCharged DEF InFlight
  <2> QED
    BY <1>2, <1>c, <2>1, <2>2
<1>3. CASE AddGlobal(r) \/ AddUser(r)
  BY <1>3, GlobalAdded, UserAdded
<1>4. CASE InsertDocument(r) \/ DeleteChunks(r)
  BY <1>4, <1>f, <1>g DEF InsertDocument, DeleteChunks
<1>5. CASE ChunkFails(r) \/ DeleteRefused(r)
  <2>1. /\ Moves(r, Ended(req[r], "error")) /\ UNCHANGED <<usage, limits>>
        /\ past' = [past EXCEPT !.broken = @ \cup {req[r].doc}]
    BY <1>5 DEF ChunkFails, DeleteRefused, store
  <2>2. past'.raced = past.raced
    BY <1>0, <2>1 DEF Past
  <2> QED
    BY <1>e, <1>f, <2>1, <2>2
<1>6. CASE StoreChunk(r)
  <2>1. UNCHANGED <<usage, limits, past>>
    BY <1>6 DEF StoreChunk
  <2>2. CASE MoreChunks(r)
    <3> DEFINE n == [req[r] EXCEPT !.stored = @ + 1]
    <3>1. n.pc = "chunks"
      BY <1>0, <1>6 DEF StoreChunk, At, Request
    <3>2. Moves(r, n)
      BY <1>6, <2>2 DEF StoreChunk
    <3> HIDE DEF n
    <3> QED
      BY <1>f, <2>1, <3>1, <3>2
  <2>3. CASE ~MoreChunks(r)
    BY <1>6, <1>a, <1>f, <2>1, <2>3 DEF StoreChunk
  <2> QED
    BY <2>2, <2>3
<1>7. CASE Lookup(r)
  <2>1. UNCHANGED <<usage, limits, past>>
    BY <1>7 DEF Lookup, store
  <2>2. \/ \E code \in {"ok", "refused"} : Moves(r, Ended(req[r], code))
        \/ \E p \in {"load", "delete_chunks"} : Moves(r, Goto(r, p))
    BY <1>7 DEF Lookup
  <2> QED
    BY <1>e, <1>f, <1>g, <2>1, <2>2
<1>8. CASE DeleteDocument(r)
  BY <1>8, <1>a, <1>f DEF DeleteDocument
<1>9. CASE LoadToChange(r)
  <2>1. UNCHANGED <<usage, limits, past>>
    BY <1>9 DEF LoadToChange, store
  <2>2. Free(r)
    BY <1>9, <2>1, LoadToChangeAs DEF Free, Becomes, Budgeting
  <2> QED
    BY <2>2, FreeBudgeted
<1> QED
  BY <1>1, <1>2, <1>3, <1>4, <1>5, <1>6, <1>7, <1>8, <1>9 DEF HandleDocument

LEMMA HandleChatFree ==
  ASSUME Typed, NEW r \in Requests, HandleChat(r)
  PROVE  Free(r)
<1>0. past \in Past
  BY RequestTyped
<1>1. \A p \in {"answering", "row", "step", "save", "done"} \cup Confirming : p \notin Budgeting
  BY DEF Budgeting, Confirming
<1>2. ASSUME NEW p \in {"answering", "row", "step", "save"} \cup Confirming, NEW a, NEW c,
             Becomes(r, p, a, c), usage' = usage, limits' = limits, past'.raced = past.raced
      PROVE  Free(r)
  BY <1>1, <1>2 DEF Free, Becomes
<1>3. CASE LoadToAnswer(r) \/ Reply(r) \/ InsertRow(r) \/ InsertStep(r)
  <2>1. UNCHANGED <<usage, limits, past>>
    BY <1>3 DEF LoadToAnswer, Reply, InsertRow, InsertStep, store
  <2>2. \E p \in {"answering", "step", "save"} : \E a, c : Becomes(r, p, a, c)
    BY <1>3, LoadToAnswerSound, ReplySound, InsertRowSound, InsertStepSound
  <2> QED
    BY <1>2, <2>1, <2>2
<1>4. CASE LoadToConfirm(r)
  <2>1. UNCHANGED <<usage, limits>>
    BY <1>4 DEF LoadToConfirm, store
  <2>2. past'.raced = past.raced
    BY <1>0, <1>4, LoadToConfirmSound DEF NotFound, Found, Past
  <2>3. "tool" \in Confirming
    BY DEF Confirming
  <2>4. \E p \in {"save", "tool"} : \E a, c : Becomes(r, p, a, c)
    BY <1>4, LoadToConfirmSound DEF NotFound, Found
  <2> QED
    BY <1>2, <2>1, <2>2, <2>3, <2>4
<1>5. CASE AnswerFails(r) \/ RowRefused(r)
  <2>1. /\ UNCHANGED <<usage, limits, past>> /\ Moves(r, Ended(req[r], "error"))
    BY <1>5 DEF AnswerFails, RowRefused, store
  <2>2. Ended(req[r], "error").pc = "done"
    BY RequestTyped, EndedType
  <2> QED
    BY <1>1, <2>1, <2>2, MovesFree
<1>6. ASSUME NEW a \in Actions, NEW kind \in Kinds, NEW d \in Docs \cup {NoDoc},
             Propose(r, a, kind, d)
      PROVE  Free(r)
  <2>1. /\ UNCHANGED <<usage, limits>> /\ past' = [past EXCEPT !.used = @ \cup {a}]
    BY <1>6 DEF Propose, store
  <2>2. past'.raced = past.raced
    BY <1>0, <2>1 DEF Past
  <2>3. Becomes(r, "row", a, Proposed(req[r].ctx, a))
    BY <1>6, ProposeSound
  <2> QED
    BY <1>2, <2>1, <2>2, <2>3
<1>7. CASE Executing(r)
  <2>1. UNCHANGED <<usage, limits, past>>
    BY <1>7 DEF Executing, ToolFails, ToolSearches, ToolWrites, HistoryWrites, FindRow, Close,
          RecordStep, store
  <2>2. PICK n \in Request : Moves(r, n) /\ n.pc \in Confirming \cup {"save"}
    BY <1>7, ExecutingMoves DEF Executes
  <2> QED
    BY <1>1, <2>1, <2>2, MovesFree
<1> QED
  BY <1>3, <1>4, <1>5, <1>6, <1>7 DEF HandleChat, Executing

LEMMA BudgetedStep ==
  ASSUME Typed, Typed', Limited, Budgeted, [Next]_vars
  PROVE  Budgeted'
<1>1. CASE UNCHANGED vars
  <2>1. usage' = usage /\ limits' = limits /\ req' = req /\ past' = past
    BY <1>1 DEF vars
  <2>2. /\ Amount' = Amount
        /\ \A b \in Buckets : Pend(b)' = Pend(b)
        /\ \A b \in Buckets, u \in Users : Behind(b, u)' = Behind(b, u)
    BY <2>1 DEF Amount, Pend, Behind, Charging
  <2> QED
    BY <2>1, <2>2 DEF Budgeted, DuesBounded, Bounded, StillFits, Overshoot, Covered, Charging
<1>2. ASSUME NEW r \in Requests, Save(r)
      PROVE  Budgeted'
  <2>1. UNCHANGED <<usage, limits>> /\ Moves(r, Ended(req[r], "ok"))
    BY <1>2 DEF Save
  <2>2. past'.raced = past.raced
    <3>1. past \in Past
      BY RequestTyped
    <3>2. past' = [past EXCEPT !.lost = @ \cup Dropped(req[r]),
       !.excuses = [a \in Actions |-> @[a] + IF a \in Revived(req[r]) THEN 1 ELSE 0]]
      BY <1>2 DEF Save
    <3> QED
      BY <3>1, <3>2 DEF Past
  <2>3. Ended(req[r], "ok").pc \notin Budgeting
    BY RequestTyped, EndedType DEF Budgeting
  <2> QED
    BY <2>1, <2>2, <2>3, MovesFree, FreeBudgeted
<1>3. ASSUME NEW r \in Requests, Abort(r)
      PROVE  Budgeted'
  <2>1. /\ UNCHANGED <<usage, limits>> /\ Moves(r, Ended(req[r], "error"))
        /\ past'.raced = past.raced
    BY <1>3, AbortSound DEF Abort, store
  <2>2. Ended(req[r], "error").pc \notin Budgeting
    BY RequestTyped, EndedType DEF Budgeting
  <2> QED
    BY <2>1, <2>2, MovesFree, FreeBudgeted
<1>4. ASSUME NEW r \in Requests, Respond(r)
      PROVE  Budgeted'
  <2>1. UNCHANGED <<usage, limits, past>> /\ Moves(r, Idle)
    BY <1>4 DEF Respond, store
  <2>2. Idle.pc \notin Budgeting
    BY DEF Idle, Budgeting
  <2> QED
    BY <2>1, <2>2, MovesFree, FreeBudgeted
<1> QED
  BY <1>1, <1>2, <1>3, <1>4, ArriveBudgeted, HandleDocumentBudgeted, HandleChatFree, FreeBudgeted
  DEF Next

LEMMA InitBudgeted ==
  ASSUME Limited, Init
  PROVE  Budgeted
<1>0. Typed
  BY InitTyped
<1>1. /\ \A q \in Requests : req[q].pc = "idle"
      /\ \A b \in Buckets, k \in Users \cup {Global} : usage[b][k] = 0
  BY DEF Init, Idle
<1>2. \A b \in Buckets : Pend(b) = {} /\ \A u \in Users : Behind(b, u) = {}
  BY <1>1 DEF Pend, Behind, InFlight
<1>3. \A b \in Buckets : Total({}, Most(b), Amount) = 0
  <2> TAKE b \in Buckets
  <2>1. Tokens({}, Most(b), Amount) = {}
    BY DEF Tokens
  <2> QED
    BY <2>1, FS_EmptySet DEF Total
<1>4. \A b \in Buckets : limits[b] \in Nat
  BY <1>0 DEF Typed, TypeOK, Buckets
<1>5. DuesBounded /\ StillFits
  BY <1>1, <1>4 DEF DuesBounded, StillFits, InFlight, Budgeting
<1>6. Overshoot
  <2> SUFFICES ASSUME NEW b \in Buckets
               PROVE  usage[b][Global] + Total(Pend(b), Most(b), Amount)
                        <= limits[b] + (Cardinality(Requests) - 1) * Most(b)
    BY DEF Overshoot
  <2>1. PICK r \in Requests : TRUE
    BY DEF Limited
  <2>2. limits[b] \in Nat /\ (Cardinality(Requests) - 1) * Most(b) \in Nat
    BY <1>0, <2>1, Waiting
  <2>3. usage[b][Global] = 0 /\ Total(Pend(b), Most(b), Amount) = 0
    BY <1>1, <1>2, <1>3
  <2> DEFINE k == (Cardinality(Requests) - 1) * Most(b)
  <2>4. k \in Nat
    BY <2>2
  <2> HIDE DEF k
  <2>5. usage[b][Global] + Total(Pend(b), Most(b), Amount) <= limits[b] + k
    BY <2>2, <2>3, <2>4
  <2> QED
    BY <2>5 DEF k
<1>7. Covered
  BY <1>1, <1>2, <1>3 DEF Covered
<1> QED
  BY <1>5, <1>6, <1>7 DEF Budgeted

\* A daily limit is passed only where uploads raced for the counter, then by no
\* more than the others add; a user is never charged more than everybody.
THEOREM BudgetIsKept ==
  ASSUME Limited
  PROVE  Spec => []BudgetKept
<1>1. Init => Typed /\ Budgeted
  BY InitTyped, InitBudgeted
<1>2. Typed /\ Budgeted /\ [Next]_vars => (Typed /\ Budgeted)'
  <2> SUFFICES ASSUME Typed, Budgeted, [Next]_vars
               PROVE  Typed' /\ Budgeted'
    OBVIOUS
  <2>1. Typed'
    BY TypedStep
  <2> QED
    BY <2>1, BudgetedStep
<1>3. Typed /\ Budgeted => BudgetKept
  <2> SUFFICES ASSUME Typed, Budgeted, NEW b \in Buckets
               PROVE  /\ usage[b][Global] > limits[b] => b \in past.raced
                      /\ usage[b][Global] <= limits[b] + (Cardinality(Requests) - 1) * Most(b)
                      /\ \A u \in Users : usage[b][u] <= usage[b][Global]
    BY DEF BudgetKept, Most
  <2>0. PICK r \in Requests : TRUE
    BY DEF Limited
  <2>1. b \notin past.raced => usage[b][Global] <= limits[b]
    BY DEF Budgeted, StillFits
  <2>2. usage[b][Global] + Total(Pend(b), Most(b), Amount)
          <= limits[b] + (Cardinality(Requests) - 1) * Most(b)
    BY DEF Budgeted, Overshoot
  <2>3. \A u \in Users : usage[b][u] + Total(Behind(b, u), Most(b), Amount) <= usage[b][Global]
    BY DEF Budgeted, Covered
  <2>4. usage[b][Global] <= limits[b] + (Cardinality(Requests) - 1) * Most(b)
    BY <2>0, <2>2, Waiting
  <2>5. \A u \in Users : usage[b][u] <= usage[b][Global]
    BY <2>0, <2>3, Waiting
  <2>6. usage[b][Global] \in Nat /\ limits[b] \in Nat
    BY <2>0, Waiting
  <2> QED
    BY <2>1, <2>4, <2>5, <2>6
<1> QED
  BY <1>1, <1>2, <1>3, PTL DEF Spec
=============================================================================

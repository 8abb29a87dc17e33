--------------------------- MODULE ReturnBot_proofs ---------------------------
(* Proofs about ReturnBot, for every value of its constants. *)
EXTENDS ReturnBot, FiniteSetTheorems, TLAPS

\* Only a complete return request is with the planner.
Planning ==
  \A t \in Turns :
    turn[t].pc = "plan" =>
      turn[t].intent = "return_request" /\ turn[t].state.fields.reason

Base == TypeOK /\ RefundsAreDue /\ Planning

\* A turn has no refund in hand before its plan was carried out.
Unissued ==
  \A t \in Turns : turn[t].pc \in {"new", "route", "plan"} => turn[t].issued = NoneIssued

\* The refunds of line i in the hands of the open turns of user u, one by one.
Tokens(tn, u, i) ==
  {p \in Turns \X (Nat \ {0}) :
     tn[p[1]].pc \in Open /\ tn[p[1]].user = u /\ p[2] <= tn[p[1]].issued[i]}

\* Every refund is traced, unreported or in somebody's hands.
RefundsCounted ==
  \A u \in Users, i \in Items :
    /\ IsFiniteSet(Tokens(turn, u, i))
    /\ refunds[<<u, i>>] =
         traced[<<u, i>>] + unreported[<<u, i>>] + Cardinality(Tokens(turn, u, i))

\* A record holds turns of its own session, and turns of an expired record only
\* if one of its turns ran beside another.
Apart(record, k) ==
  /\ \A u \in record.turns : turn[u].key = k /\ turn[u].pc # "new"
  /\ record.turns \cap expired # {} => record.turns \cap overlapped # {}

\* A turn is of the session its ids name.
OwnKey(t) == \E x \in SessionIds : turn[t].key = KeyOf[<<turn[t].user, x>>]

RecordsApart ==
  /\ \A t \in Turns : OwnKey(t)
  /\ \A u \in expired : turn[u].pc # "new"
  /\ \A k \in Keys : Apart(sessions[k], k)
  /\ \A t \in Turns : turn[t].pc \in Open =>
       Apart(turn[t].state, turn[t].key) /\ t \in turn[t].state.turns

\* Two open turns of one session overlap.
OpenOverlap ==
  \A t, u \in Turns :
    t # u /\ turn[t].pc \in Open /\ turn[u].pc \in Open /\ turn[t].key = turn[u].key =>
      t \in overlapped

\* What is answered is in the copy of every open turn of the session, too.
OpenKnows ==
  \A t, u \in Turns :
    turn[t].pc \in Open /\ turn[u].pc = "answered" /\ turn[u].key = turn[t].key =>
      u \in turn[t].state.turns \cup expired \cup overlapped

History == RecordsApart /\ OpenOverlap /\ OpenKnows /\ TurnsRemembered

IInv == Base /\ Unissued /\ RefundsCounted /\ History

-----------------------------------------------------------------------------
(* What normalisation leaves, and what its refunds come to. *)

LEMMA NormalizedType ==
  ASSUME TypeOK, NEW t \in Turns, NEW proposals \in Proposals
  PROVE  /\ DOMAIN Normalized(t, proposals) \subseteq 1..(MaxProposals + 1)
         /\ \A k \in DOMAIN Normalized(t, proposals) : Normalized(t, proposals)[k] \in Proposal
<1> DEFINE asked == turn[t].state.fields.item
<1>1. PICK n \in 0..MaxProposals : proposals \in [1..n -> Proposal]
  BY DEF Proposals
<1>2. MaxProposals \in Nat
  BY BotConstants
<1>3. CASE Foreign(t)
  BY <1>3, <1>2 DEF Normalized
<1>4. CASE ~Foreign(t) /\ ~Refundable(t)
  BY <1>1, <1>2, <1>4 DEF Normalized, WithoutRefunds
<1>5. CASE ~Foreign(t) /\ Refundable(t) /\ \E k \in DOMAIN proposals : IsRefund(proposals[k])
  BY <1>1, <1>2, <1>5 DEF Normalized
<1>6. CASE ~Foreign(t) /\ Refundable(t) /\ ~\E k \in DOMAIN proposals : IsRefund(proposals[k])
  <2>1. Refund(asked, "exact") \in Proposal
    BY <1>6 DEF Refundable, Owned, Refund, Proposal, Amounts
  <2>2. Normalized(t, proposals) = Append(proposals, Refund(asked, "exact"))
    BY <1>6 DEF Normalized
  <2>3. Len(proposals) = n /\ proposals \in Seq(Proposal)
    BY <1>1, <1>2
  <2>4. /\ DOMAIN Append(proposals, Refund(asked, "exact")) = 1..(n + 1)
        /\ \A k \in 1..n : Append(proposals, Refund(asked, "exact"))[k] = proposals[k]
        /\ Append(proposals, Refund(asked, "exact"))[n + 1] = Refund(asked, "exact")
    BY <2>3, <1>1, <1>2
  <2>5. \A k \in 1..(n + 1) : Append(proposals, Refund(asked, "exact"))[k] \in Proposal
    <3> TAKE k \in 1..(n + 1)
    <3>1. CASE k \in 1..n
      BY <3>1, <2>4, <1>1
    <3>2. CASE k = n + 1
      BY <3>2, <2>4, <2>1
    <3> QED
      BY <3>1, <3>2, <1>1, <1>2
  <2>6. 1..(n + 1) \subseteq 1..(MaxProposals + 1)
    BY <1>1, <1>2
  <2> QED
    BY <2>2, <2>4, <2>5, <2>6
<1> QED
  BY <1>3, <1>4, <1>5, <1>6

LEMMA IssuesType ==
  ASSUME TypeOK, NEW t \in Turns, NEW proposals \in Proposals
  PROVE  Issues(t, Normalized(t, proposals)) \in [Items -> Nat]
<1> DEFINE calls == Normalized(t, proposals)
<1>1. DOMAIN calls \subseteq 1..(MaxProposals + 1)
  BY NormalizedType
<1>2. IsFiniteSet(1..(MaxProposals + 1))
  BY FS_Interval, BotConstants
<1>3. ASSUME NEW i \in Items
      PROVE  Cardinality({k \in Reached(calls) : Valid(t, calls[k]) /\ calls[k].item = i}) \in Nat
  <2>1. {k \in Reached(calls) : Valid(t, calls[k]) /\ calls[k].item = i} \subseteq 1..(MaxProposals + 1)
    BY <1>1 DEF Reached
  <2> QED
    BY <2>1, <1>2, FS_Subset, FS_CardinalityType
<1> QED
  BY <1>3 DEF Issues

LEMMA UserType ==
  ASSUME TypeOK, NEW t \in Turns
  PROVE  User(t) \in Users
BY DEF TypeOK, Turn, User

\* A refund is issued only for an eligible line of the user's own, and only in
\* a turn about such a line.
LEMMA IssuedIsDue ==
  ASSUME TypeOK, NEW t \in Turns, NEW proposals \in Proposals, NEW i \in Items,
         Issues(t, Normalized(t, proposals))[i] # 0
  PROVE  Owner[i] = User(t) /\ i \in Eligible /\ Refundable(t)
<1> DEFINE calls == Normalized(t, proposals)
           due == {k \in Reached(calls) : Valid(t, calls[k]) /\ calls[k].item = i}
<1>1. Cardinality(due) # 0
  BY DEF Issues
<1>2. PICK k \in due : TRUE
  BY <1>1, FS_EmptySet
<1>3. k \in DOMAIN calls /\ Valid(t, calls[k]) /\ calls[k].item = i
  BY <1>2 DEF Reached
<1>4. Owner[i] = User(t) /\ i \in Eligible
  BY <1>3 DEF Valid
<1>5. Refundable(t)
  <2>1. ~Foreign(t)
    BY <1>3 DEF Normalized
  <2>2. ASSUME ~Refundable(t)
        PROVE  FALSE
    <3>1. calls = WithoutRefunds(proposals)
      BY <2>1, <2>2 DEF Normalized
    <3>2. ~IsRefund(calls[k])
      BY <3>1, <1>3 DEF WithoutRefunds
    <3> QED
      BY <3>2, <1>3 DEF Valid
  <2> QED
    BY <2>2
<1> QED
  BY <1>4, <1>5

LEMMA PlusType ==
  ASSUME NEW counts \in [Users \X Items -> Nat], NEW u \in Users, NEW issued \in [Items -> Nat]
  PROVE  Plus(counts, u, issued) \in [Users \X Items -> Nat]
<1> SUFFICES ASSUME NEW p \in Users \X Items
             PROVE  (IF p[1] = u THEN counts[p] + issued[p[2]] ELSE counts[p]) \in Nat
  BY DEF Plus
<1>1. p[2] \in Items
  OBVIOUS
<1> QED
  BY <1>1

-----------------------------------------------------------------------------
(* The invariant holds initially and in every step. *)

LEMMA NewSessionType == NewSession \in Record
BY DEF NewSession, Record, Fields

LEMMA LoadedType ==
  ASSUME TypeOK, NEW k \in Keys
  PROVE  Loaded(k) \in Record
BY NewSessionType DEF TypeOK, Loaded

LEMMA InitBase == Init => Base
<1> SUFFICES ASSUME Init
             PROVE  Base
  OBVIOUS
<1>1. TypeOK
  <2>1. PICK x \in Asking : turn = [t \in Turns |->
          [pc |-> "new", user |-> x[1], key |-> KeyOf[x], state |-> NewSession,
           intent |-> "other", issued |-> NoneIssued]]
    BY DEF Init
  <2>2. x[1] \in Users /\ KeyOf[x] \in Keys
    BY BotConstants
  <2>3. turn \in [Turns -> Turn]
    BY <2>1, <2>2, NewSessionType DEF Turn, Intents, NoneIssued
  <2> QED
    BY <2>3, NewSessionType DEF Init, TypeOK
<1>2. RefundsAreDue
  BY DEF Init, RefundsAreDue
<1>3. Planning
  BY DEF Init, Planning
<1> QED
  BY <1>1, <1>2, <1>3 DEF Base

LEMMA ReceiveBase ==
  ASSUME Base, NEW t \in Turns, NEW u \in Users, NEW s \in SessionIds, Receive(t, u, s)
  PROVE  Base'
<1> DEFINE k == KeyOf[<<u, s>>]
<1>0. k \in Keys
  BY BotConstants
<1>1. TypeOK /\ RefundsAreDue /\ Planning
  BY DEF Base
<1>2. TypeOK'
  <2>1. sessions' \in [Keys -> Record]
    BY <1>0, <1>1, NewSessionType DEF Receive, TypeOK
  <2>2. [Loaded(k) EXCEPT !.turns = Loaded(k).turns \cup {t}] \in Record
    BY <1>0, <1>1, LoadedType DEF Record
  <2>3. turn' \in [Turns -> Turn]
    <3> DEFINE state == [Loaded(k) EXCEPT !.turns = Loaded(k).turns \cup {t}]
    <3>1. turn' = [turn EXCEPT ![t].pc = "route", ![t].user = u, ![t].key = k, ![t].state = state]
      BY DEF Receive
    <3>2. state \in Record /\ k \in Keys
      BY <1>0, <2>2
    <3> HIDE DEF state, k
    <3>3. turn[t] \in Turn
      BY <1>1 DEF TypeOK
    <3>4. [turn[t] EXCEPT !.pc = "route", !.user = u, !.key = k, !.state = state] \in Turn
      BY <3>2, <3>3 DEF Turn
    <3>5. turn' = [turn EXCEPT ![t] = [turn[t] EXCEPT !.pc = "route", !.user = u, !.key = k,
                                                       !.state = state]]
      BY <1>1, <3>1 DEF TypeOK
    <3> QED
      BY <1>1, <3>4, <3>5 DEF TypeOK
  <2>4. overlapped' \in SUBSET Turns
    BY <1>1 DEF Receive, TypeOK, Beside
  <2>5. expired' \in SUBSET Turns
    BY <1>0, <1>1 DEF Receive, TypeOK, Record
  <2> QED
    BY <1>1, <2>1, <2>3, <2>4, <2>5 DEF Receive, TypeOK
<1>3. RefundsAreDue'
  BY <1>1 DEF Receive, RefundsAreDue
<1>4. Planning'
  BY <1>1 DEF Receive, Planning, TypeOK, Turn
<1> QED
  BY <1>2, <1>3, <1>4 DEF Base

LEMMA ExpireBase ==
  ASSUME Base, NEW k \in Keys, Expire(k)
  PROVE  Base'
<1>1. TypeOK'
  <2>1. sessions' \in [Keys -> Record]
    BY DEF Base, Expire, TypeOK, Record
  <2>2. expiries' \in Nat
    BY DEF Base, Expire, TypeOK
  <2> QED
    BY <2>1, <2>2 DEF Base, Expire, TypeOK
<1>2. RefundsAreDue' /\ Planning'
  BY DEF Base, Expire, RefundsAreDue, Planning
<1> QED
  BY <1>1, <1>2 DEF Base

LEMMA RoutedBase ==
  ASSUME Base, NEW t \in Turns, Routed(t)
  PROVE  Base'
<1>1. TypeOK /\ RefundsAreDue /\ Planning
  BY DEF Base
<1>2. PICK intent \in Intents, item \in Items \cup {Unknown, turn[t].state.fields.item},
           reason \in {TRUE, turn[t].state.fields.reason} :
        turn' = [turn EXCEPT
          ![t].pc = IF intent = "return_request" /\ Complete([item |-> item, reason |-> reason])
                      THEN "plan" ELSE "answer",
          ![t].intent = intent, ![t].state.fields = [item |-> item, reason |-> reason]]
  BY DEF Routed
<1>3. [item |-> item, reason |-> reason] \in Fields
  BY <1>1 DEF TypeOK, Turn, Record, Fields
<1>4. TypeOK'
  <2>1. turn[t] \in Turn /\ turn[t].state \in Record
    BY <1>1 DEF TypeOK, Turn
  <2> DEFINE fields == [item |-> item, reason |-> reason]
             pc == IF intent = "return_request" /\ Complete(fields) THEN "plan" ELSE "answer"
  <2>2. turn' = [turn EXCEPT ![t].pc = pc, ![t].intent = intent, ![t].state.fields = fields]
    BY <1>2
  <2>3. fields \in Fields /\ pc \in {"plan", "answer"}
    BY <1>3
  <2> HIDE DEF fields, pc
  <2>4. [turn[t].state EXCEPT !.fields = fields] \in Record
    BY <2>1, <2>3 DEF Record
  <2>5. turn' \in [Turns -> Turn]
    BY <1>1, <2>1, <2>2, <2>3, <2>4 DEF TypeOK, Turn
  <2> QED
    BY <1>1, <2>5 DEF Routed, TypeOK
<1>5. RefundsAreDue'
  BY <1>1 DEF Routed, RefundsAreDue
<1>6. Planning'
  BY <1>1, <1>2, <1>3 DEF Planning, Complete, TypeOK, Turn, Record
<1> QED
  BY <1>4, <1>5, <1>6 DEF Base

LEMMA PlannedBase ==
  ASSUME Base, NEW t \in Turns, Planned(t)
  PROVE  Base'
<1>1. TypeOK /\ RefundsAreDue /\ Planning
  BY DEF Base
<1>2. PICK proposals \in Proposals :
        LET calls  == Normalized(t, proposals)
            issued == Issues(t, calls)
            fails  == Reached(calls) # DOMAIN calls
        IN
        /\ turn[t].pc = "plan"
        /\ refunds' = Plus(refunds, User(t), issued)
        /\ tickets' = [tickets EXCEPT ![User(t)] =
                         @ + Cardinality({k \in Reached(calls) : ~IsRefund(calls[k])})]
        /\ unreported' = IF fails THEN Plus(unreported, User(t), issued) ELSE unreported
        /\ turn' = [turn EXCEPT ![t].pc = IF fails THEN "error" ELSE "answer",
                                ![t].issued = issued]
        /\ UNCHANGED <<sessions, traced, overlapped, expired, expiries>>
  BY DEF Planned
<1> DEFINE calls  == Normalized(t, proposals)
           issued == Issues(t, calls)
           fails  == Reached(calls) # DOMAIN calls
<1>3. issued \in [Items -> Nat]
  BY <1>1, IssuesType
<1>4. User(t) \in Users
  BY <1>1, UserType
<1>5. refunds \in [Users \X Items -> Nat] /\ unreported \in [Users \X Items -> Nat]
  BY <1>1 DEF TypeOK
<1>6. Cardinality({k \in Reached(calls) : ~IsRefund(calls[k])}) \in Nat
  <2>1. DOMAIN calls \subseteq 1..(MaxProposals + 1)
    BY <1>1, NormalizedType
  <2>2. {k \in Reached(calls) : ~IsRefund(calls[k])} \subseteq 1..(MaxProposals + 1)
    BY <2>1 DEF Reached
  <2>3. IsFiniteSet(1..(MaxProposals + 1))
    BY FS_Interval, BotConstants
  <2> QED
    BY <2>2, <2>3, FS_Subset, FS_CardinalityType
<1>7. refunds' = Plus(refunds, User(t), issued)
  BY <1>2
<1>8. TypeOK'
  <2>1. refunds' \in [Users \X Items -> Nat]
    BY <1>3, <1>4, <1>5, <1>7, PlusType
  <2>2. unreported' \in [Users \X Items -> Nat]
    <3>1. Plus(unreported, User(t), issued) \in [Users \X Items -> Nat]
      BY <1>3, <1>4, <1>5, PlusType
    <3>2. unreported' = IF fails THEN Plus(unreported, User(t), issued) ELSE unreported
      BY <1>2
    <3> HIDE DEF issued, fails
    <3> QED
      BY <1>5, <3>1, <3>2
  <2>3. turn' \in [Turns -> Turn]
    <3> DEFINE pc == IF fails THEN "error" ELSE "answer"
    <3>1. turn' = [turn EXCEPT ![t].pc = pc, ![t].issued = issued]
      BY <1>2
    <3>2. pc \in {"error", "answer"}
      OBVIOUS
    <3> HIDE DEF issued, pc
    <3> QED
      BY <1>1, <1>3, <3>1, <3>2, ZenonT(40) DEF TypeOK, Turn
  <2>4. tickets' \in [Users -> Nat]
    <3> DEFINE made == Cardinality({k \in Reached(calls) : ~IsRefund(calls[k])})
    <3>1. tickets' = [tickets EXCEPT ![User(t)] = @ + made]
      BY <1>2
    <3>2. made \in Nat
      BY <1>6
    <3> HIDE DEF made
    <3> QED
      BY <1>1, <1>4, <3>1, <3>2 DEF TypeOK
  <2>5. UNCHANGED <<sessions, traced, overlapped, expired, expiries>>
    BY <1>2
  <2> QED
    BY <1>1, <2>1, <2>2, <2>3, <2>4, <2>5 DEF TypeOK
<1>9. RefundsAreDue'
  <2> SUFFICES ASSUME NEW u \in Users, NEW i \in Items, refunds'[<<u, i>>] > 0
               PROVE  Owner[i] = u /\ i \in Eligible
    BY DEF RefundsAreDue
  <2>1. CASE refunds[<<u, i>>] > 0
    BY <2>1, <1>1 DEF RefundsAreDue
  <2>2. CASE ~(refunds[<<u, i>>] > 0)
    <3>1. refunds[<<u, i>>] = 0
      BY <2>2, <1>5
    <3>2. refunds'[<<u, i>>] = IF u = User(t) THEN refunds[<<u, i>>] + issued[i] ELSE refunds[<<u, i>>]
      BY <1>7 DEF Plus
    <3>3. issued[i] \in Nat
      BY <1>3
    <3>4. u = User(t) /\ issued[i] # 0
      <4> HIDE DEF issued
      <4> QED
        BY <3>1, <3>2, <3>3
    <3> QED
      BY <3>4, <1>1, IssuedIsDue
  <2> QED
    BY <2>1, <2>2
<1>10. Planning'
  <2>1. \A v \in Turns : turn'[v].pc = "plan" => turn'[v] = turn[v]
    <3>1. turn' = [turn EXCEPT ![t].pc = IF fails THEN "error" ELSE "answer", ![t].issued = issued]
      BY <1>2
    <3> HIDE DEF issued, fails
    <3> QED
      BY <1>1, <3>1 DEF TypeOK, Turn
  <2> QED
    BY <1>1, <2>1 DEF Planning
<1> QED
  BY <1>8, <1>9, <1>10 DEF Base

LEMMA AnsweredBase ==
  ASSUME Base, NEW t \in Turns, Answered(t)
  PROVE  Base'
<1>1. TypeOK /\ RefundsAreDue /\ Planning
  BY DEF Base
<1>2. turn[t] \in Turn /\ User(t) \in Users
  BY <1>1, UserType DEF TypeOK
<1>3. TypeOK'
  <2>1. Saved(t) \in Record /\ turn[t].key \in Keys
    BY <1>2 DEF Saved, Record, Turn
  <2>2. sessions' \in [Keys -> Record]
    BY <1>1, <2>1 DEF Answered, TypeOK
  <2>3. traced' \in [Users \X Items -> Nat]
    BY <1>1, <1>2, PlusType DEF Answered, Shown, Turn, TypeOK
  <2>4. turn' \in [Turns -> Turn]
    BY <1>1 DEF Answered, TypeOK, Turn
  <2> QED
    BY <1>1, <2>2, <2>3, <2>4 DEF Answered, TypeOK
<1>4. RefundsAreDue'
  BY <1>1 DEF Answered, RefundsAreDue
<1>5. Planning'
  BY <1>1 DEF Answered, Planning, TypeOK, Turn
<1> QED
  BY <1>3, <1>4, <1>5 DEF Base

LEMMA ModelFailsBase ==
  ASSUME Base, NEW t \in Turns, ModelFails(t)
  PROVE  Base'
<1>1. TypeOK /\ RefundsAreDue /\ Planning
  BY DEF Base
<1>2. turn[t] \in Turn /\ User(t) \in Users
  BY <1>1, UserType DEF TypeOK
<1>3. TypeOK'
  <2>1. unreported' \in [Users \X Items -> Nat]
    BY <1>1, <1>2, PlusType DEF ModelFails, Turn, TypeOK
  <2>2. turn' \in [Turns -> Turn]
    BY <1>1 DEF ModelFails, TypeOK, Turn
  <2> QED
    BY <1>1, <2>1, <2>2 DEF ModelFails, TypeOK
<1>4. RefundsAreDue'
  BY <1>1 DEF ModelFails, RefundsAreDue
<1>5. Planning'
  BY <1>1 DEF ModelFails, Planning, TypeOK, Turn
<1> QED
  BY <1>3, <1>4, <1>5 DEF Base

LEMMA NextBase == Base /\ [Next]_vars => Base'
<1> SUFFICES ASSUME Base, [Next]_vars
             PROVE  Base'
  OBVIOUS
<1>1. ASSUME NEW t \in Turns, Wake(t)
      PROVE  Base'
  BY <1>1, RoutedBase, PlannedBase, AnsweredBase, ModelFailsBase DEF Wake
<1>2. ASSUME NEW t \in Turns, NEW u \in Users, NEW s \in SessionIds, Receive(t, u, s)
      PROVE  Base'
  BY <1>2, ReceiveBase
<1>3. ASSUME NEW k \in Keys, Expire(k)
      PROVE  Base'
  BY <1>3, ExpireBase
<1>4. CASE UNCHANGED vars
  <2>1. TypeOK'
    BY <1>4 DEF Base, TypeOK, vars
  <2>2. RefundsAreDue' /\ Planning'
    BY <1>4 DEF Base, RefundsAreDue, Planning, vars
  <2> QED
    BY <2>1, <2>2 DEF Base
<1> QED
  BY <1>1, <1>2, <1>3, <1>4 DEF Next

-----------------------------------------------------------------------------
(* What a step of a turn leaves alone. *)

Moved(t, pc, issued) ==
  /\ \A v \in Turns \ {t} : turn'[v] = turn[v]
  /\ turn'[t].pc = pc /\ turn'[t].issued = issued /\ turn'[t].user = turn[t].user
  /\ turn'[t].key = turn[t].key
  /\ turn'[t].state.turns = turn[t].state.turns

LEMMA RoutedMoves ==
  ASSUME TypeOK, NEW t \in Turns, Routed(t)
  PROVE  \E pc \in {"plan", "answer"} : Moved(t, pc, turn[t].issued)
<1>1. PICK intent \in Intents, item \in Items \cup {Unknown, turn[t].state.fields.item},
           reason \in {TRUE, turn[t].state.fields.reason} :
        turn' = [turn EXCEPT
          ![t].pc = IF intent = "return_request" /\ Complete([item |-> item, reason |-> reason])
                      THEN "plan" ELSE "answer",
          ![t].intent = intent, ![t].state.fields = [item |-> item, reason |-> reason]]
  BY DEF Routed
<1> DEFINE fields == [item |-> item, reason |-> reason]
           pc == IF intent = "return_request" /\ Complete(fields) THEN "plan" ELSE "answer"
<1>2. turn' = [turn EXCEPT ![t].pc = pc, ![t].intent = intent, ![t].state.fields = fields]
  BY <1>1
<1>3. pc \in {"plan", "answer"}
  OBVIOUS
<1> HIDE DEF fields, pc
<1>4. Moved(t, pc, turn[t].issued)
  BY <1>2 DEF TypeOK, Turn, Record, Moved
<1> QED
  BY <1>3, <1>4

LEMMA EndsMoves ==
  ASSUME TypeOK, NEW t \in Turns, NEW pc, turn' = [turn EXCEPT ![t].pc = pc]
  PROVE  Moved(t, pc, turn[t].issued)
BY DEF TypeOK, Turn, Record, Moved

\* What the calls of a plan come to.
Carried(t, issued, fails) ==
  /\ refunds' = Plus(refunds, User(t), issued)
  /\ unreported' = IF fails THEN Plus(unreported, User(t), issued) ELSE unreported
  /\ traced' = traced
  /\ Moved(t, IF fails THEN "error" ELSE "answer", issued)

LEMMA PlannedMoves ==
  ASSUME TypeOK, NEW t \in Turns, Planned(t)
  PROVE  /\ turn[t].pc = "plan" /\ UNCHANGED <<sessions, overlapped, expired>>
         /\ \E issued \in [Items -> Nat], fails \in BOOLEAN : Carried(t, issued, fails)
<1>1. PICK proposals \in Proposals :
        LET calls  == Normalized(t, proposals)
            issued == Issues(t, calls)
            fails  == Reached(calls) # DOMAIN calls
        IN
        /\ turn[t].pc = "plan"
        /\ refunds' = Plus(refunds, User(t), issued)
        /\ unreported' = IF fails THEN Plus(unreported, User(t), issued) ELSE unreported
        /\ turn' = [turn EXCEPT ![t].pc = IF fails THEN "error" ELSE "answer",
                                ![t].issued = issued]
        /\ UNCHANGED <<sessions, traced, overlapped, expired, expiries>>
  BY DEF Planned
<1> DEFINE issued == Issues(t, Normalized(t, proposals))
           fails == Reached(Normalized(t, proposals)) # DOMAIN Normalized(t, proposals)
           pc == IF fails THEN "error" ELSE "answer"
<1>2. issued \in [Items -> Nat]
  BY IssuesType
<1>3. turn' = [turn EXCEPT ![t].pc = pc, ![t].issued = issued]
  BY <1>1
<1>4. Moved(t, pc, issued)
  <2> HIDE DEF pc, issued
  <2> QED
    BY <1>2, <1>3 DEF TypeOK, Turn, Record, Moved
<1>5. fails \in BOOLEAN
  OBVIOUS
<1>6. Carried(t, issued, fails)
  <2>1. /\ refunds' = Plus(refunds, User(t), issued) /\ traced' = traced
        /\ unreported' = IF fails THEN Plus(unreported, User(t), issued) ELSE unreported
    BY <1>1
  <2> HIDE DEF issued, fails
  <2> QED
    BY <2>1, <1>4 DEF Carried
<1> HIDE DEF issued, fails
<1> QED
  BY <1>1, <1>2, <1>5, <1>6

-----------------------------------------------------------------------------
(* Refunds in hand. *)

LEMMA HandOfTokens ==
  ASSUME NEW t, NEW n \in Nat
  PROVE  IsFiniteSet({t} \X (1..n)) /\ Cardinality({t} \X (1..n)) = n
<1>1. IsFiniteSet(1..n) /\ Cardinality(1..n) = n
  BY FS_Interval
<1>2. IsFiniteSet({t}) /\ Cardinality({t}) = 1
  BY FS_Singleton
<1> QED
  BY <1>1, <1>2, FS_Product

LEMMA DisjointUnion ==
  ASSUME NEW S, NEW T, IsFiniteSet(S), IsFiniteSet(T), S \cap T = {}
  PROVE  IsFiniteSet(S \cup T) /\ Cardinality(S \cup T) = Cardinality(S) + Cardinality(T)
<1>1. Cardinality(S) \in Nat /\ Cardinality(T) \in Nat /\ Cardinality({}) = 0
  BY FS_CardinalityType, FS_EmptySet
<1>2. /\ IsFiniteSet(S \cup T)
      /\ Cardinality(S \cup T) = Cardinality(S) + Cardinality(T) - Cardinality(S \cap T)
  BY FS_Union
<1>3. Cardinality(S \cap T) = 0
  BY <1>1, Zenon
<1> QED
  BY <1>1, <1>2, <1>3

\* How many refunds of line i turn t has in hand for user u.
InHandOf(tn, t, u, i) ==
  IF tn[t].pc \in Open /\ tn[t].user = u THEN tn[t].issued[i] ELSE 0

\* A step of one turn changes the number of tokens by what it had and has.
LEMMA TokensMove ==
  ASSUME NEW t \in Turns, NEW tn, NEW tm, NEW u, NEW i, IsFiniteSet(Tokens(tn, u, i)),
         \A v \in Turns \ {t} : tm[v] = tn[v],
         NEW a \in Nat, NEW b \in Nat, a = InHandOf(tn, t, u, i), b = InHandOf(tm, t, u, i)
  PROVE  /\ IsFiniteSet(Tokens(tm, u, i))
         /\ Cardinality(Tokens(tn, u, i)) \in Nat /\ Cardinality(Tokens(tm, u, i)) \in Nat
         /\ Cardinality(Tokens(tm, u, i)) + a = Cardinality(Tokens(tn, u, i)) + b
<1> DEFINE rest == {p \in Tokens(tn, u, i) : p[1] # t}
<1>1. IsFiniteSet(rest) /\ Cardinality(rest) \in Nat
  BY FS_Subset, FS_CardinalityType
<1>2. Tokens(tn, u, i) = rest \cup ({t} \X (1..a))
  BY DEF Tokens, InHandOf
<1>3. Tokens(tm, u, i) = rest \cup ({t} \X (1..b))
  BY DEF Tokens, InHandOf
<1>4. rest \cap ({t} \X (1..a)) = {} /\ rest \cap ({t} \X (1..b)) = {}
  OBVIOUS
<1> HIDE DEF rest
<1>0. /\ IsFiniteSet({t} \X (1..a)) /\ Cardinality({t} \X (1..a)) = a
      /\ IsFiniteSet({t} \X (1..b)) /\ Cardinality({t} \X (1..b)) = b
  BY HandOfTokens
<1>5. Cardinality(Tokens(tn, u, i)) = Cardinality(rest) + a
  <2>1. Cardinality(rest \cup ({t} \X (1..a))) = Cardinality(rest) + Cardinality({t} \X (1..a))
    BY <1>0, <1>1, <1>4, DisjointUnion, Zenon
  <2> QED
    BY <2>1, <1>0, <1>2, Zenon
<1>6. IsFiniteSet(Tokens(tm, u, i)) /\ Cardinality(Tokens(tm, u, i)) = Cardinality(rest) + b
  <2>1. /\ IsFiniteSet(rest \cup ({t} \X (1..b)))
        /\ Cardinality(rest \cup ({t} \X (1..b))) = Cardinality(rest) + Cardinality({t} \X (1..b))
    BY <1>0, <1>1, <1>4, DisjointUnion, Zenon
  <2> QED
    BY <2>1, <1>0, <1>3, Zenon
<1> QED
  BY <1>1, <1>5, <1>6

LEMMA PlusAt ==
  ASSUME NEW counts, NEW v, NEW issued, NEW u \in Users, NEW i \in Items
  PROVE  Plus(counts, v, issued)[<<u, i>>] =
           IF u = v THEN counts[<<u, i>>] + issued[i] ELSE counts[<<u, i>>]
BY DEF Plus

LEMMA Balance ==
  ASSUME NEW r \in Nat, NEW x \in Nat, NEW y \in Nat, NEW r2 \in Nat, NEW x2 \in Nat,
         NEW y2 \in Nat, NEW a \in Nat, NEW b \in Nat, NEW m \in Nat, NEW n \in Nat,
         n + a = m + b, r = x + y + m, r2 + x + y + a = r + x2 + y2 + b
  PROVE  r2 = x2 + y2 + n
OBVIOUS

\* What the tokens of a user need from a step: they change by as much as the
\* refunds that no trace shows and no error hides.
LEMMA RefundsMove ==
  ASSUME TypeOK, TypeOK', RefundsCounted, NEW t \in Turns,
         \A v \in Turns \ {t} : turn'[v] = turn[v],
         \A u \in Users, i \in Items :
           LET p == <<u, i>> IN
           refunds'[p] + traced[p] + unreported[p] + InHandOf(turn, t, u, i) =
             refunds[p] + traced'[p] + unreported'[p] + InHandOf(turn', t, u, i)
  PROVE  RefundsCounted'
<1> SUFFICES ASSUME NEW u \in Users, NEW i \in Items
             PROVE  /\ IsFiniteSet(Tokens(turn', u, i))
                    /\ refunds'[<<u, i>>] = traced'[<<u, i>>] + unreported'[<<u, i>>]
                                              + Cardinality(Tokens(turn', u, i))
  BY DEF RefundsCounted, Tokens
<1>1. turn[t].issued[i] \in Nat /\ turn'[t].issued[i] \in Nat
  BY DEF TypeOK, Turn
<1>2. PICK a \in Nat, b \in Nat : a = InHandOf(turn, t, u, i) /\ b = InHandOf(turn', t, u, i)
  BY <1>1 DEF InHandOf
<1>3. /\ IsFiniteSet(Tokens(turn, u, i))
      /\ refunds[<<u, i>>] = traced[<<u, i>>] + unreported[<<u, i>>] + Cardinality(Tokens(turn, u, i))
  BY DEF RefundsCounted
<1>4. /\ IsFiniteSet(Tokens(turn', u, i))
      /\ Cardinality(Tokens(turn, u, i)) \in Nat /\ Cardinality(Tokens(turn', u, i)) \in Nat
      /\ Cardinality(Tokens(turn', u, i)) + a = Cardinality(Tokens(turn, u, i)) + b
  BY <1>2, <1>3, TokensMove
<1>5. refunds'[<<u, i>>] + traced[<<u, i>>] + unreported[<<u, i>>] + a =
        refunds[<<u, i>>] + traced'[<<u, i>>] + unreported'[<<u, i>>] + b
  BY <1>2
<1>6. /\ refunds[<<u, i>>] \in Nat /\ traced[<<u, i>>] \in Nat /\ unreported[<<u, i>>] \in Nat
      /\ refunds'[<<u, i>>] \in Nat /\ traced'[<<u, i>>] \in Nat /\ unreported'[<<u, i>>] \in Nat
  BY DEF TypeOK
<1> DEFINE m == Cardinality(Tokens(turn, u, i))
           n == Cardinality(Tokens(turn', u, i))
<1>7. m \in Nat /\ n \in Nat /\ n + a = m + b
  BY <1>4
<1>8. refunds[<<u, i>>] = traced[<<u, i>>] + unreported[<<u, i>>] + m
  BY <1>3
<1> HIDE DEF m, n
<1>9. refunds'[<<u, i>>] = traced'[<<u, i>>] + unreported'[<<u, i>>] + n
  <2>1. PICK r \in Nat, x \in Nat, y \in Nat, r2 \in Nat, x2 \in Nat, y2 \in Nat :
          /\ r = refunds[<<u, i>>] /\ x = traced[<<u, i>>] /\ y = unreported[<<u, i>>]
          /\ r2 = refunds'[<<u, i>>] /\ x2 = traced'[<<u, i>>] /\ y2 = unreported'[<<u, i>>]
    BY <1>6
  <2>2. r = x + y + m
    BY <2>1, <1>8
  <2>3. r2 + x + y + a = r + x2 + y2 + b
    BY <2>1, <1>5
  <2>4. r2 = x2 + y2 + n
    BY <2>2, <2>3, <1>7, Balance
  <2> QED
    BY <2>1, <2>4
<1> QED
  BY <1>4, <1>9 DEF n

LEMMA ReceiveMoves ==
  ASSUME TypeOK, NEW t \in Turns, NEW u \in Users, NEW s \in SessionIds, Receive(t, u, s)
  PROVE  /\ turn[t].pc = "new" /\ \A v \in Turns \ {t} : turn'[v] = turn[v]
         /\ turn'[t].pc = "route" /\ turn'[t].user = u /\ turn'[t].key = KeyOf[<<u, s>>]
         /\ turn'[t].issued = turn[t].issued
         /\ turn'[t].state.turns = Loaded(KeyOf[<<u, s>>]).turns \cup {t}
<1> DEFINE k == KeyOf[<<u, s>>]
<1> DEFINE state == [Loaded(k) EXCEPT !.turns = Loaded(k).turns \cup {t}]
<1>1. turn[t].pc = "new"
      /\ turn' = [turn EXCEPT ![t].pc = "route", ![t].user = u, ![t].key = k, ![t].state = state]
  BY DEF Receive
<1>2. k \in Keys /\ state.turns = Loaded(k).turns \cup {t}
  BY LoadedType, BotConstants DEF Record
<1> HIDE DEF state
<1> QED
  BY <1>1, <1>2, ZenonT(40) DEF TypeOK, Turn

LEMMA RefundsStep ==
  ASSUME IInv, Base', Next
  PROVE  Unissued' /\ RefundsCounted'
<1>1. TypeOK /\ TypeOK' /\ RefundsCounted /\ Unissued
  BY DEF IInv, Base
<1>2. ASSUME NEW t \in Turns, NEW u0 \in Users, NEW s0 \in SessionIds, Receive(t, u0, s0)
      PROVE  Unissued' /\ RefundsCounted'
  <2>1. /\ turn[t].pc = "new" /\ \A v \in Turns \ {t} : turn'[v] = turn[v]
        /\ turn'[t].pc = "route" /\ turn'[t].issued = turn[t].issued
    BY <1>1, <1>2, ReceiveMoves
  <2>2. turn[t].issued = NoneIssued /\ turn'[t].issued = NoneIssued
    BY <1>1, <2>1 DEF Unissued
  <2>3. Unissued'
    BY <1>1, <2>1, <2>2 DEF Unissued, NoneIssued
  <2>4. \A u \in Users, i \in Items : InHandOf(turn, t, u, i) = 0 /\ InHandOf(turn', t, u, i) = 0
    BY <2>2 DEF InHandOf, NoneIssued
  <2>5. UNCHANGED <<refunds, traced, unreported>>
    BY <1>2 DEF Receive
  <2>6. RefundsCounted'
    BY <1>1, <2>1, <2>4, <2>5, RefundsMove
  <2> QED
    BY <2>3, <2>6
<1>3. ASSUME NEW k \in Keys, Expire(k)
      PROVE  Unissued' /\ RefundsCounted'
  BY <1>1, <1>3 DEF Expire, Unissued, NoneIssued, RefundsCounted, Tokens
<1>4. ASSUME NEW t \in Turns, Routed(t)
      PROVE  Unissued' /\ RefundsCounted'
  <2>1. PICK pc \in {"plan", "answer"} : Moved(t, pc, turn[t].issued)
    BY <1>1, <1>4, RoutedMoves
  <2>2. turn[t].pc = "route" /\ UNCHANGED <<refunds, traced, unreported>>
    BY <1>4 DEF Routed
  <2>3. turn[t].issued = NoneIssued /\ turn'[t].issued = NoneIssued
    BY <1>1, <2>1, <2>2 DEF Unissued, Moved
  <2>4. Unissued'
    BY <1>1, <2>1, <2>3 DEF Unissued, NoneIssued, Moved
  <2>5. \A u \in Users, i \in Items : InHandOf(turn, t, u, i) = 0 /\ InHandOf(turn', t, u, i) = 0
    BY <2>3 DEF InHandOf, NoneIssued
  <2>6. \A v \in Turns \ {t} : turn'[v] = turn[v]
    BY <2>1 DEF Moved
  <2>7. RefundsCounted'
    BY <1>1, <2>2, <2>5, <2>6, RefundsMove
  <2> QED
    BY <2>4, <2>7
<1>5. ASSUME NEW t \in Turns, Planned(t)
      PROVE  Unissued' /\ RefundsCounted'
  <2>1. PICK issued \in [Items -> Nat], fails \in BOOLEAN : Carried(t, issued, fails)
    BY <1>1, <1>5, PlannedMoves
  <2>2. turn[t].pc = "plan" /\ turn[t].issued = NoneIssued
    BY <1>1, <1>5, PlannedMoves DEF Unissued
  <2>3. PICK pc \in {"error", "answer"} : Moved(t, pc, issued) /\ (pc = "error" <=> fails)
    BY <2>1 DEF Carried
  <2>4. Unissued'
    BY <1>1, <2>3 DEF Unissued, NoneIssued, Moved
  <2>5. ASSUME NEW u \in Users, NEW i \in Items
        PROVE  refunds'[<<u, i>>] + traced[<<u, i>>] + unreported[<<u, i>>] + InHandOf(turn, t, u, i) =
                 refunds[<<u, i>>] + traced'[<<u, i>>] + unreported'[<<u, i>>] + InHandOf(turn', t, u, i)
    <3>1. /\ refunds[<<u, i>>] \in Nat /\ traced[<<u, i>>] \in Nat
          /\ unreported[<<u, i>>] \in Nat /\ issued[i] \in Nat
      BY <1>1 DEF TypeOK
    <3>2. /\ refunds'[<<u, i>>] = IF u = User(t) THEN refunds[<<u, i>>] + issued[i] ELSE refunds[<<u, i>>]
          /\ traced'[<<u, i>>] = traced[<<u, i>>]
          /\ fails => unreported'[<<u, i>>] =
               IF u = User(t) THEN unreported[<<u, i>>] + issued[i] ELSE unreported[<<u, i>>]
          /\ ~fails => unreported'[<<u, i>>] = unreported[<<u, i>>]
      BY <2>1, PlusAt DEF Carried
    <3>3. InHandOf(turn, t, u, i) = 0
      BY <2>2 DEF InHandOf, NoneIssued
    <3>4. InHandOf(turn', t, u, i) = IF ~fails /\ u = User(t) THEN issued[i] ELSE 0
      BY <2>3 DEF InHandOf, Open, Moved, User
    <3> QED
      BY <3>1, <3>2, <3>3, <3>4
  <2>6. \A v \in Turns \ {t} : turn'[v] = turn[v]
    BY <2>3 DEF Moved
  <2>7. RefundsCounted'
    BY <1>1, <2>5, <2>6, RefundsMove
  <2> QED
    BY <2>4, <2>7
<1>6. ASSUME NEW t \in Turns, Answered(t) \/ ModelFails(t)
      PROVE  Unissued' /\ RefundsCounted'
  <2>1. PICK pc \in {"answered", "error"} : turn' = [turn EXCEPT ![t].pc = pc]
    BY <1>6 DEF Answered, ModelFails
  <2>2. Moved(t, pc, turn[t].issued) /\ turn[t].pc \in Open
    BY <1>1, <1>6, <2>1, EndsMoves DEF Answered, ModelFails, Open
  <2>3. Unissued'
    BY <1>1, <2>2 DEF Unissued, NoneIssued, Moved
  <2>4. ASSUME NEW u \in Users, NEW i \in Items
        PROVE  refunds'[<<u, i>>] + traced[<<u, i>>] + unreported[<<u, i>>] + InHandOf(turn, t, u, i) =
                 refunds[<<u, i>>] + traced'[<<u, i>>] + unreported'[<<u, i>>] + InHandOf(turn', t, u, i)
    <3>1. /\ refunds[<<u, i>>] \in Nat /\ traced[<<u, i>>] \in Nat
          /\ unreported[<<u, i>>] \in Nat /\ turn[t].issued[i] \in Nat
      BY <1>1 DEF TypeOK, Turn
    <3>2. /\ refunds'[<<u, i>>] = refunds[<<u, i>>]
          /\ \/ /\ traced'[<<u, i>>] = IF u = User(t) THEN traced[<<u, i>>] + turn[t].issued[i]
                                      ELSE traced[<<u, i>>]
                /\ unreported'[<<u, i>>] = unreported[<<u, i>>]
             \/ /\ unreported'[<<u, i>>] = IF u = User(t) THEN unreported[<<u, i>>] + turn[t].issued[i]
                                      ELSE unreported[<<u, i>>]
                /\ traced'[<<u, i>>] = traced[<<u, i>>]
      BY <1>6, PlusAt DEF Answered, ModelFails, Shown
    <3>3. InHandOf(turn, t, u, i) = IF u = User(t) THEN turn[t].issued[i] ELSE 0
      BY <2>2 DEF InHandOf, User
    <3>4. InHandOf(turn', t, u, i) = 0
      BY <2>2 DEF InHandOf, Open, Moved
    <3> QED
      BY <3>1, <3>2, <3>3, <3>4
  <2>5. \A v \in Turns \ {t} : turn'[v] = turn[v]
    BY <2>2 DEF Moved
  <2>6. RefundsCounted'
    BY <1>1, <2>4, <2>5, RefundsMove
  <2> QED
    BY <2>3, <2>6
<1> QED
  BY <1>2, <1>3, <1>4, <1>5, <1>6 DEF Next, Wake

-----------------------------------------------------------------------------
(* The histories of sessions. *)

LEMMA ReceiveHistory ==
  ASSUME TypeOK, History, NEW t \in Turns, NEW w \in Users, NEW s \in SessionIds,
         Receive(t, w, s)
  PROVE  /\ History'
         /\ LET seen == turn'[t].state.turns \ {t} IN
            /\ \A v \in seen : /\ turn'[v].key = KeyOf[<<w, s>>]
                               /\ \E x \in SessionIds : turn'[v].key = KeyOf[<<turn'[v].user, x>>]
            /\ seen \cap expired' # {} => seen \cap overlapped' # {}
<1> DEFINE k == KeyOf[<<w, s>>]
<1>1. /\ turn[t].pc = "new" /\ \A v \in Turns \ {t} : turn'[v] = turn[v]
      /\ turn'[t].pc = "route" /\ turn'[t].user = w /\ turn'[t].key = k /\ k \in Keys
      /\ turn'[t].state.turns = Loaded(k).turns \cup {t}
  BY ReceiveMoves, BotConstants
<1>17. \A v \in Turns : OwnKey(v)'
  BY <1>1 DEF History, RecordsApart, OwnKey
<1>2. /\ sessions' = [sessions EXCEPT ![k] = IF @.live THEN @ ELSE NewSession]
      /\ overlapped' = overlapped \cup (IF Beside(t, k) = {} THEN {} ELSE Beside(t, k) \cup {t})
      /\ expired' = expired \cup (IF sessions[k].live THEN {} ELSE sessions[k].turns)
  BY DEF Receive
<1> HIDE DEF k
<1>3. /\ sessions \in [Keys -> Record] /\ expired \subseteq Turns
      /\ \A u \in Turns : turn[u].state.turns \subseteq Turns /\ turn[u].key \in Keys
      /\ \A x \in Keys : sessions[x].turns \subseteq Turns /\ sessions[x].live \in BOOLEAN
  BY DEF TypeOK, Record, Turn
<1>4. /\ \A u \in expired : turn[u].pc # "new"
      /\ \A x \in Keys : Apart(sessions[x], x)
      /\ \A v \in Turns : turn[v].pc \in Open =>
           Apart(turn[v].state, turn[v].key) /\ v \in turn[v].state.turns
  BY DEF History, RecordsApart
<1> DEFINE kept == Loaded(k).turns
<1>5. /\ kept \subseteq Turns
      /\ \/ kept = sessions[k].turns /\ expired' = expired
         \/ kept = {} /\ expired' = expired \cup sessions[k].turns
      /\ sessions'[k].turns = kept
      /\ \A x \in Keys \ {k} : sessions'[x] = sessions[x]
  <2>1. CASE sessions[k].live
    BY <2>1, <1>1, <1>2, <1>3 DEF Loaded
  <2>2. CASE ~sessions[k].live
    BY <2>2, <1>1, <1>2, <1>3 DEF Loaded, NewSession
  <2> QED
    BY <2>1, <2>2
<1>6. /\ overlapped \subseteq overlapped' /\ Beside(t, k) \subseteq overlapped'
      /\ Beside(t, k) # {} => t \in overlapped'
  BY <1>2
<1> HIDE DEF kept
<1>7. /\ \A u \in kept : turn[u].key = k /\ turn[u].pc # "new" /\ u # t
      /\ kept \cap expired' # {} => kept \cap overlapped # {}
  BY <1>1, <1>4, <1>5 DEF Apart
<1>8. \A u \in expired' : turn'[u].pc # "new" /\ u # t /\ u \in Turns
  BY <1>1, <1>3, <1>4, <1>5 DEF Apart
<1>9. ASSUME NEW x \in Keys PROVE Apart(sessions[x], x)'
  <2>1. CASE x = k
    BY <2>1, <1>1, <1>5, <1>6, <1>7 DEF Apart
  <2>2. CASE x # k
    <3>1. \A u \in sessions[x].turns : turn[u].key = x /\ turn[u].pc # "new" /\ u # t
      BY <1>1, <1>4 DEF Apart
    <3>2. sessions[x].turns \cap expired' = sessions[x].turns \cap expired
      BY <2>2, <3>1, <1>1, <1>5, <1>4 DEF Apart
    <3> QED
      BY <2>2, <3>1, <3>2, <1>1, <1>3, <1>4, <1>5, <1>6 DEF Apart
  <2> QED
    BY <2>1, <2>2
<1>10. ASSUME NEW v \in Turns, turn'[v].pc \in Open
       PROVE  Apart(turn[v].state, turn[v].key)' /\ v \in turn'[v].state.turns
  <2>1. CASE v = t
    <3>1. turn'[t].state.turns \cap expired' = kept \cap expired'
      BY <1>1, <1>8 DEF kept
    <3>2. \A u \in turn'[t].state.turns : turn'[u].key = k /\ turn'[u].pc # "new"
      BY <1>1, <1>5, <1>7 DEF kept
    <3> QED
      BY <2>1, <3>1, <3>2, <1>1, <1>6, <1>7 DEF Apart, kept
  <2>2. CASE v # t
    <3>1. turn'[v] = turn[v] /\ turn[v].pc \in Open
      BY <2>2, <1>1, <1>10
    <3>2. /\ \A u \in turn[v].state.turns : turn[u].key = turn[v].key /\ turn[u].pc # "new" /\ u # t
          /\ turn[v].state.turns \cap expired # {} => turn[v].state.turns \cap overlapped # {}
          /\ v \in turn[v].state.turns
      BY <3>1, <1>1, <1>4 DEF Apart
    <3>3. turn[v].state.turns \cap expired' # {} => turn[v].state.turns \cap overlapped' # {}
      <4>1. CASE turn[v].key = k
        <5>1. v \in overlapped'
          BY <4>1, <3>1, <2>2, <1>6 DEF Beside
        <5> QED
          BY <5>1, <3>2
      <4>2. CASE turn[v].key # k
        <5>1. \A u \in sessions[k].turns : turn[u].key = k
          BY <1>1, <1>4 DEF Apart
        <5>2. turn[v].state.turns \cap expired' = turn[v].state.turns \cap expired
          BY <4>2, <5>1, <3>2, <1>5
        <5> QED
          BY <5>2, <3>2, <1>6
      <4> QED
        BY <4>1, <4>2
    <3>4. \A u \in turn[v].state.turns : turn'[u] = turn[u]
      BY <3>2, <1>1, <1>3
    <3> QED
      BY <3>1, <3>2, <3>3, <3>4 DEF Apart
  <2> QED
    BY <2>1, <2>2
<1>11. RecordsApart'
  BY <1>8, <1>9, <1>10, <1>17 DEF RecordsApart
<1>12. OpenOverlap'
  <2> SUFFICES ASSUME NEW v \in Turns, NEW u \in Turns, v # u,
                      turn'[v].pc \in Open, turn'[u].pc \in Open, turn'[v].key = turn'[u].key
               PROVE  v \in overlapped'
    BY DEF OpenOverlap
  <2>1. CASE v = t
    <3>1. u \in Beside(t, k)
      BY <2>1, <1>1 DEF Beside
    <3> QED
      BY <2>1, <3>1, <1>6
  <2>2. CASE u = t
    <3>1. v \in Beside(t, k)
      BY <2>2, <1>1 DEF Beside
    <3> QED
      BY <3>1, <1>6
  <2>3. CASE v # t /\ u # t
    BY <2>3, <1>1, <1>6 DEF History, OpenOverlap
  <2> QED
    BY <2>1, <2>2, <2>3
<1>13. expired \subseteq expired'
  BY <1>2
<1>14. OpenKnows'
  <2> SUFFICES ASSUME NEW v \in Turns, NEW u \in Turns, turn'[v].pc \in Open,
                      turn'[u].pc = "answered", turn'[u].key = turn'[v].key
               PROVE  u \in turn'[v].state.turns \cup expired' \cup overlapped'
    BY DEF OpenKnows
  <2>1. u # t /\ turn[u] = turn'[u]
    BY <1>1
  <2>2. CASE v = t
    <3>1. u \in sessions[k].turns \cup expired \cup overlapped
      BY <2>1, <2>2, <1>1 DEF History, TurnsRemembered
    <3> QED
      BY <2>2, <3>1, <1>1, <1>5, <1>6, <1>13 DEF kept
  <2>3. CASE v # t
    BY <2>1, <2>3, <1>1, <1>6, <1>13 DEF History, OpenKnows
  <2> QED
    BY <2>2, <2>3
<1>15. TurnsRemembered'
  <2> SUFFICES ASSUME NEW u \in Turns, turn'[u].pc = "answered"
               PROVE  u \in sessions'[turn'[u].key].turns \cup expired' \cup overlapped'
    BY DEF TurnsRemembered
  <2>1. u # t /\ turn[u] = turn'[u] /\ turn[u].key \in Keys
    BY <1>1, <1>3
  <2>2. u \in sessions[turn[u].key].turns \cup expired \cup overlapped
    BY <2>1 DEF History, TurnsRemembered
  <2> QED
    BY <2>1, <2>2, <1>5, <1>6, <1>13
<1>16. /\ turn'[t].state.turns \ {t} = kept
       /\ \A v \in kept : /\ turn'[v].key = k
                         /\ \E x \in SessionIds : turn'[v].key = KeyOf[<<turn'[v].user, x>>]
  BY <1>1, <1>5, <1>7, <1>17 DEF kept, OwnKey
<1> QED
  BY <1>6, <1>7, <1>11, <1>12, <1>14, <1>15, <1>16 DEF History, k

\* A turn that goes on, or ends without saving.
LEMMA OngoingHistory ==
  ASSUME TypeOK, History, NEW t \in Turns, turn[t].pc \in Open, NEW issued,
         NEW pc \in {"plan", "answer", "error"}, Moved(t, pc, issued),
         UNCHANGED <<sessions, overlapped, expired>>
  PROVE  History'
<1>1. /\ \A v \in Turns : /\ turn'[v].key = turn[v].key /\ turn'[v].user = turn[v].user
                          /\ turn'[v].state.turns = turn[v].state.turns
                          /\ turn'[v].pc \in Open => turn[v].pc \in Open
                          /\ turn'[v].pc = "answered" => turn[v].pc = "answered"
                          /\ turn[v].pc # "new" => turn'[v].pc # "new"
  BY DEF Moved, Open
<1>2. /\ expired \subseteq Turns
      /\ \A u \in Turns : turn[u].state.turns \subseteq Turns /\ turn[u].key \in Keys
      /\ \A x \in Keys : sessions[x].turns \subseteq Turns
  BY DEF TypeOK, Record, Turn
<1>3. RecordsApart'
  <2>1. \A u \in expired : turn'[u].pc # "new"
    BY <1>1, <1>2 DEF History, RecordsApart
  <2>2. ASSUME NEW x \in Keys PROVE Apart(sessions[x], x)'
    <3>1. Apart(sessions[x], x)
      BY DEF History, RecordsApart
    <3> QED
      BY <3>1, <1>1, <1>2 DEF Apart
  <2>3. ASSUME NEW v \in Turns, turn'[v].pc \in Open
        PROVE  Apart(turn[v].state, turn[v].key)' /\ v \in turn'[v].state.turns
    <3>1. Apart(turn[v].state, turn[v].key) /\ v \in turn[v].state.turns
      BY <2>3, <1>1 DEF History, RecordsApart
    <3> QED
      BY <3>1, <1>1, <1>2 DEF Apart
  <2>4. \A v \in Turns : OwnKey(v)'
    BY <1>1 DEF History, RecordsApart, OwnKey
  <2> QED
    BY <2>1, <2>2, <2>3, <2>4 DEF RecordsApart
<1>4. OpenOverlap'
  BY <1>1 DEF History, OpenOverlap
<1>5. OpenKnows'
  BY <1>1 DEF History, OpenKnows
<1>6. TurnsRemembered'
  BY <1>1 DEF History, TurnsRemembered
<1> QED
  BY <1>3, <1>4, <1>5, <1>6 DEF History

LEMMA AnsweredHistory ==
  ASSUME TypeOK, History, NEW t \in Turns, Answered(t)
  PROVE  History'
<1> DEFINE k == turn[t].key
<1>1. /\ turn[t].pc = "answer" /\ sessions' = [sessions EXCEPT ![k] = Saved(t)]
      /\ turn' = [turn EXCEPT ![t].pc = "answered"] /\ UNCHANGED <<overlapped, expired>>
  BY DEF Answered
<1>2. Moved(t, "answered", turn[t].issued)
  BY <1>1, EndsMoves
<1>3. \A v \in Turns : /\ turn'[v].key = turn[v].key /\ turn'[v].user = turn[v].user
                       /\ turn'[v].state.turns = turn[v].state.turns
                       /\ turn'[v].pc \in Open => turn[v].pc \in Open /\ v # t
                       /\ turn'[v].pc = "answered" => v = t \/ turn[v].pc = "answered"
                       /\ turn[v].pc # "new" => turn'[v].pc # "new"
  BY <1>2 DEF Moved, Open
<1>4. /\ sessions \in [Keys -> Record] /\ expired \subseteq Turns /\ k \in Keys /\ turn[t].state \in Record
      /\ \A u \in Turns : turn[u].state.turns \subseteq Turns /\ turn[u].key \in Keys
      /\ \A x \in Keys : sessions[x].turns \subseteq Turns
  BY DEF TypeOK, Record, Turn
<1>5. sessions'[k].turns = turn[t].state.turns /\ \A x \in Keys \ {k} : sessions'[x] = sessions[x]
  <2>1. Saved(t).turns = turn[t].state.turns
    BY <1>4 DEF Saved, Record
  <2> QED
    BY <2>1, <1>1, <1>4
<1>6. Apart(turn[t].state, k) /\ t \in turn[t].state.turns /\ turn[t].pc \in Open
  BY <1>1 DEF History, RecordsApart, Open
<1> HIDE DEF k
<1>7. RecordsApart'
  <2>1. \A u \in expired : turn'[u].pc # "new"
    BY <1>3, <1>4 DEF History, RecordsApart
  <2>2. ASSUME NEW x \in Keys PROVE Apart(sessions[x], x)'
    <3>1. CASE x = k
      BY <3>1, <1>1, <1>3, <1>4, <1>5, <1>6 DEF Apart
    <3>2. CASE x # k
      <4>1. Apart(sessions[x], x) /\ sessions'[x] = sessions[x]
        BY <3>2, <1>5 DEF History, RecordsApart
      <4> QED
        BY <4>1, <1>1, <1>3, <1>4 DEF Apart
    <3> QED
      BY <3>1, <3>2
  <2>3. ASSUME NEW v \in Turns, turn'[v].pc \in Open
        PROVE  Apart(turn[v].state, turn[v].key)' /\ v \in turn'[v].state.turns
    <3>1. Apart(turn[v].state, turn[v].key) /\ v \in turn[v].state.turns
      BY <2>3, <1>3 DEF History, RecordsApart
    <3> QED
      BY <3>1, <1>1, <1>3, <1>4 DEF Apart
  <2>4. \A v \in Turns : OwnKey(v)'
    BY <1>3, ZenonT(40) DEF History, RecordsApart, OwnKey
  <2> QED
    BY <2>1, <2>2, <2>3, <2>4, <1>1 DEF RecordsApart
<1>8. OpenOverlap'
  BY <1>1, <1>3 DEF History, OpenOverlap
<1>9. OpenKnows'
  <2> SUFFICES ASSUME NEW v \in Turns, NEW u \in Turns, turn'[v].pc \in Open,
                      turn'[u].pc = "answered", turn'[u].key = turn'[v].key
               PROVE  u \in turn'[v].state.turns \cup expired' \cup overlapped'
    BY DEF OpenKnows
  <2>1. CASE u = t
    BY <2>1, <1>1, <1>3, <1>6 DEF History, OpenOverlap
  <2>2. CASE u # t
    BY <2>2, <1>1, <1>3 DEF History, OpenKnows
  <2> QED
    BY <2>1, <2>2
<1>10. TurnsRemembered'
  <2> SUFFICES ASSUME NEW u \in Turns, turn'[u].pc = "answered"
               PROVE  u \in sessions'[turn'[u].key].turns \cup expired' \cup overlapped'
    BY DEF TurnsRemembered
  <2>1. CASE u = t
    BY <2>1, <1>3, <1>5, <1>6 DEF k
  <2>2. CASE u # t /\ turn[u].key = k
    <3>1. u \in turn[t].state.turns \cup expired \cup overlapped
      BY <2>2, <1>3, <1>6 DEF History, OpenKnows, k
    <3> QED
      BY <2>2, <3>1, <1>1, <1>3, <1>5
  <2>3. CASE u # t /\ turn[u].key # k
    <3>1. u \in sessions[turn[u].key].turns \cup expired \cup overlapped
      BY <2>3, <1>3 DEF History, TurnsRemembered
    <3> QED
      BY <2>3, <3>1, <1>1, <1>3, <1>4, <1>5
  <2> QED
    BY <2>1, <2>2, <2>3
<1> QED
  BY <1>7, <1>8, <1>9, <1>10 DEF History

LEMMA ExpireHistory ==
  ASSUME TypeOK, History, NEW k \in Keys, Expire(k)
  PROVE  History'
<1>1. sessions' = [sessions EXCEPT ![k].live = FALSE] /\ UNCHANGED <<turn, overlapped, expired>>
  BY DEF Expire
<1>2. \A x \in Keys : sessions'[x].turns = sessions[x].turns
  BY <1>1 DEF TypeOK, Record
<1>3. \A u \in Turns : turn[u].key \in Keys
  BY DEF TypeOK, Turn
<1>4. RecordsApart'
  BY <1>1, <1>2 DEF History, RecordsApart, Apart, OwnKey
<1>5. OpenOverlap' /\ OpenKnows' /\ TurnsRemembered'
  BY <1>1, <1>2, <1>3 DEF History, OpenOverlap, OpenKnows, TurnsRemembered
<1> QED
  BY <1>4, <1>5 DEF History

LEMMA HistoryStep ==
  ASSUME IInv, Next
  PROVE  History'
<1>1. TypeOK /\ History
  BY DEF IInv, Base
<1>2. ASSUME NEW t \in Turns, Routed(t) PROVE History'
  <2>1. PICK pc \in {"plan", "answer"} : Moved(t, pc, turn[t].issued)
    BY <1>1, <1>2, RoutedMoves
  <2>2. turn[t].pc \in Open /\ UNCHANGED <<sessions, overlapped, expired>>
    BY <1>2 DEF Routed, Open
  <2> QED
    BY <2>1, <2>2, <1>1, OngoingHistory
<1>3. ASSUME NEW t \in Turns, Planned(t) PROVE History'
  <2>1. PICK issued \in [Items -> Nat], fails \in BOOLEAN : Carried(t, issued, fails)
    BY <1>1, <1>3, PlannedMoves
  <2>2. PICK pc \in {"answer", "error"} : Moved(t, pc, issued)
    BY <2>1 DEF Carried
  <2>3. turn[t].pc \in Open /\ UNCHANGED <<sessions, overlapped, expired>>
    BY <1>1, <1>3, PlannedMoves DEF Open
  <2> QED
    BY <2>2, <2>3, <1>1, OngoingHistory
<1>4. ASSUME NEW t \in Turns, ModelFails(t) PROVE History'
  <2>1. Moved(t, "error", turn[t].issued)
    BY <1>1, <1>4, EndsMoves DEF ModelFails
  <2>2. turn[t].pc \in Open /\ UNCHANGED <<sessions, overlapped, expired>>
    BY <1>4 DEF ModelFails
  <2> QED
    BY <2>1, <2>2, <1>1, OngoingHistory
<1> QED
  BY <1>1, <1>2, <1>3, <1>4, AnsweredHistory, ReceiveHistory, ExpireHistory DEF Next, Wake

LEMMA InitIInv == Init => IInv
<1> SUFFICES ASSUME Init PROVE IInv
  OBVIOUS
<1>1. Base
  BY InitBase
<1>2. /\ \A t \in Turns : turn[t].pc = "new" /\ turn[t].issued = NoneIssued
      /\ \A k \in Keys : sessions[k].turns = {}
      /\ expired = {}
  BY DEF Init, NewSession
<1>3. Unissued
  BY <1>2 DEF Unissued
<1>4. RefundsCounted
  <2> SUFFICES ASSUME NEW u \in Users, NEW i \in Items
               PROVE  /\ IsFiniteSet(Tokens(turn, u, i))
                      /\ refunds[<<u, i>>] = traced[<<u, i>>] + unreported[<<u, i>>]
                                               + Cardinality(Tokens(turn, u, i))
    BY DEF RefundsCounted
  <2>1. Tokens(turn, u, i) = {}
    BY <1>2 DEF Tokens, Open
  <2>2. IsFiniteSet(Tokens(turn, u, i)) /\ Cardinality(Tokens(turn, u, i)) = 0
    BY <2>1, FS_EmptySet
  <2>3. refunds[<<u, i>>] = 0 /\ traced[<<u, i>>] = 0 /\ unreported[<<u, i>>] = 0
    BY DEF Init
  <2> QED
    BY <2>2, <2>3
<1>5. History
  <2>1. \A t \in Turns : OwnKey(t)
    <3>1. PICK x \in Asking : \A t \in Turns : turn[t].user = x[1] /\ turn[t].key = KeyOf[x]
      BY DEF Init
    <3>2. x \in Users \X SessionIds
      BY BotConstants
    <3>3. x = <<x[1], x[2]>> /\ x[2] \in SessionIds
      BY <3>2
    <3> QED
      BY <3>1, <3>3 DEF OwnKey
  <2> QED
    BY <2>1, <1>2 DEF History, RecordsApart, Apart, OpenOverlap, OpenKnows, TurnsRemembered, Open
<1> QED
  BY <1>1, <1>3, <1>4, <1>5 DEF IInv

LEMMA NextIInv == IInv /\ [Next]_vars => IInv'
<1> SUFFICES ASSUME IInv, [Next]_vars PROVE IInv'
  OBVIOUS
<1>1. Base'
  BY NextBase DEF IInv
<1>2. CASE Next
  BY <1>1, <1>2, RefundsStep, HistoryStep DEF IInv
<1>3. CASE UNCHANGED vars
  <2>1. Unissued' /\ RefundsCounted'
    <3>1. Unissued'
      BY <1>3 DEF IInv, Unissued, NoneIssued, vars
    <3>2. UNCHANGED <<refunds, traced, unreported, turn>> /\ RefundsCounted
      BY <1>3 DEF IInv, vars
    <3>3. RefundsCounted'
      <4> SUFFICES ASSUME NEW u \in Users, NEW i \in Items
                   PROVE  /\ IsFiniteSet(Tokens(turn', u, i))
                          /\ refunds'[<<u, i>>] = traced'[<<u, i>>] + unreported'[<<u, i>>]
                                                    + Cardinality(Tokens(turn', u, i))
        BY DEF RefundsCounted, Tokens
      <4>1. Tokens(turn', u, i) = Tokens(turn, u, i)
        BY <3>2
      <4> QED
        BY <3>2, <4>1 DEF RefundsCounted
    <3> QED
      BY <3>1, <3>3
  <2>2. RecordsApart'
    BY <1>3 DEF IInv, History, RecordsApart, Apart, OwnKey, vars
  <2>3. OpenOverlap' /\ OpenKnows' /\ TurnsRemembered'
    BY <1>3 DEF IInv, History, OpenOverlap, OpenKnows, TurnsRemembered, vars
  <2> QED
    BY <1>1, <2>1, <2>2, <2>3 DEF IInv, History
<1> QED
  BY <1>2, <1>3

LEMMA Invariance == Spec => []IInv
BY InitIInv, NextIInv, PTL DEF Spec

-----------------------------------------------------------------------------
(* The theorems. *)

\* Sessions, turns and counters keep their types through every handler.
THEOREM BotTypeCorrect == Spec => []TypeOK
BY Invariance, PTL DEF IInv, Base

\* Whatever the planner proposes, whoever shares a session id, and however the
\* turns interleave, a refund is for an eligible line of the user's own
\* (_normalize_planner_output and _validate_refund_call).
THEOREM RefundsAlwaysDue == Spec => []RefundsAreDue
BY Invariance, PTL DEF IInv, Base

LEMMA RefundStep ==
  ASSUME IInv, Next, refunds' # refunds
  PROVE  \E t \in Turns : /\ turn[t].pc = "plan" /\ turn'[t].pc # "plan"
                          /\ turn[t].intent = "return_request" /\ turn[t].state.fields.reason
                          /\ Refundable(t)
<1>1. PICK t \in Turns : Planned(t)
  <2>1. ASSUME NEW t \in Turns, NEW u \in Users, NEW s \in SessionIds, Receive(t, u, s)
        PROVE  FALSE
    BY <2>1 DEF Receive
  <2>2. ASSUME NEW k \in Keys, Expire(k) PROVE FALSE
    BY <2>2 DEF Expire
  <2>3. ASSUME NEW t \in Turns, Routed(t) \/ Answered(t) \/ ModelFails(t) PROVE FALSE
    BY <2>3 DEF Routed, Answered, ModelFails
  <2> QED
    BY <2>1, <2>2, <2>3 DEF Next, Wake
<1>2. TypeOK /\ Planning
  BY DEF IInv, Base
<1>3. PICK proposals \in Proposals :
        /\ turn[t].pc = "plan"
        /\ refunds' = Plus(refunds, User(t), Issues(t, Normalized(t, proposals)))
        /\ \E pc \in {"error", "answer"} :
             turn' = [turn EXCEPT ![t].pc = pc, ![t].issued = Issues(t, Normalized(t, proposals))]
  BY <1>1 DEF Planned
<1> DEFINE issued == Issues(t, Normalized(t, proposals))
<1>4. issued \in [Items -> Nat]
  BY <1>2, IssuesType
<1>5. PICK i \in Items : issued[i] # 0
  <2> SUFFICES ASSUME \A i \in Items : issued[i] = 0
               PROVE  FALSE
    OBVIOUS
  <2>1. refunds \in [Users \X Items -> Nat]
    BY <1>2 DEF TypeOK
  <2> HIDE DEF issued
  <2>2. \A p \in Users \X Items :
          (IF p[1] = User(t) THEN refunds[p] + issued[p[2]] ELSE refunds[p]) = refunds[p]
    BY <2>1
  <2>3. Plus(refunds, User(t), issued) = refunds
    BY <2>1, <2>2 DEF Plus
  <2> QED
    BY <2>3, <1>3 DEF issued
<1>6. Refundable(t)
  BY <1>2, <1>5, IssuedIsDue
<1>7. turn'[t].pc # "plan"
  <2> HIDE DEF issued
  <2>1. PICK pc \in {"error", "answer"} : turn' = [turn EXCEPT ![t].pc = pc, ![t].issued = issued]
    BY <1>3 DEF issued
  <2> QED
    BY <1>2, <2>1 DEF TypeOK, Turn
<1> QED
  BY <1>2, <1>3, <1>6, <1>7 DEF Planning

\* Money moves only when the plan of a complete request about an eligible line
\* of the user's own is carried out (_normalize_planner_output).
THEOREM RefundsAreAskedFor == Spec => RefundNeedsRequest
<1>1. IInv /\ [Next]_vars =>
        [refunds' # refunds =>
           \E t \in Turns : /\ turn[t].pc = "plan" /\ turn'[t].pc # "plan"
                            /\ turn[t].intent = "return_request" /\ turn[t].state.fields.reason
                            /\ Refundable(t)]_vars
  BY RefundStep
<1> QED
  BY <1>1, Invariance, PTL DEF Spec, RefundNeedsRequest

\* Every refund is in a trace, in the hands of an open turn, or in a turn that
\* ended in an error; no count is ever higher than the money moved.
THEOREM NoRefundLost == Spec => []RefundsAccountedFor
<1>1. IInv => RefundsAccountedFor
  <2> SUFFICES ASSUME IInv, NEW u \in Users, NEW i \in Items
               PROVE  /\ traced[<<u, i>>] + unreported[<<u, i>>] <= refunds[<<u, i>>]
                      /\ InHand(u, i) = {} =>
                           refunds[<<u, i>>] = traced[<<u, i>>] + unreported[<<u, i>>]
    BY DEF RefundsAccountedFor
  <2>1. TypeOK /\ RefundsCounted
    BY DEF IInv, Base
  <2>2. PICK x \in Nat, y \in Nat, n \in Nat :
          /\ x = traced[<<u, i>>] /\ y = unreported[<<u, i>>] /\ n = Cardinality(Tokens(turn, u, i))
          /\ refunds[<<u, i>>] = x + y + n
    <3>1. traced[<<u, i>>] \in Nat /\ unreported[<<u, i>>] \in Nat
      BY <2>1 DEF TypeOK
    <3>2. Cardinality(Tokens(turn, u, i)) \in Nat
      BY <2>1, FS_CardinalityType DEF RefundsCounted
    <3> QED
      BY <3>1, <3>2, <2>1 DEF RefundsCounted
  <2>3. ASSUME InHand(u, i) = {} PROVE n = 0
    <3>1. \A t \in Turns : turn[t].issued[i] \in Nat
      BY <2>1 DEF TypeOK, Turn
    <3>2. \A p \in Tokens(turn, u, i) : p[1] \in InHand(u, i)
      BY <3>1 DEF Tokens, InHand, User
    <3>3. Tokens(turn, u, i) = {}
      BY <2>3, <3>2
    <3> QED
      BY <2>2, <3>3, FS_EmptySet
  <2> QED
    BY <2>2, <2>3
<1> QED
  BY <1>1, Invariance, PTL

\* What a session said is not forgotten before it expires, unless two of its
\* turns ran at once and the later save won.
THEOREM HistoryIsKept == Spec => []TurnsRemembered
BY Invariance, PTL DEF IInv, History

\* A turn is shown turns of its own record only, however many share it, and an
\* expired history only comes back through the save of a turn that had loaded it.
THEOREM SessionsKeptApart == Spec => SessionsApart
<1>1. IInv /\ [Next]_vars =>
        [\A t \in Turns, u \in Users, s \in SessionIds :
           Receive(t, u, s) =>
             LET seen == turn'[t].state.turns \ {t} IN
             /\ \A v \in seen :
                  /\ turn'[v].key = KeyOf[<<u, s>>]
                  /\ \E x \in SessionIds : turn'[v].key = KeyOf[<<turn'[v].user, x>>]
             /\ seen \cap expired' # {} => seen \cap overlapped' # {}]_vars
  BY ReceiveHistory DEF IInv, Base
<1> QED
  BY <1>1, Invariance, PTL DEF Spec, SessionsApart

\* No two pairs of ids make one key: so it is when no user id has a colon.
KeysDiffer == \A x, y \in Users \X SessionIds : KeyOf[x] = KeyOf[y] => x = y

OwnTurnsOnly ==
  [][\A t \in Turns, u \in Users, s \in SessionIds :
       Receive(t, u, s) => \A v \in turn'[t].state.turns : turn'[v].user = u]_vars

\* Then, and only on this assumption, a turn never sees what was said in another
\* user's session, as the comment on JsonSessionStore has it.
THEOREM UsersApartIfKeysDiffer ==
  ASSUME KeysDiffer
  PROVE  Spec => OwnTurnsOnly
<1>1. IInv /\ [Next]_vars =>
        [\A t \in Turns, u \in Users, s \in SessionIds :
           Receive(t, u, s) => \A v \in turn'[t].state.turns : turn'[v].user = u]_vars
  <2> SUFFICES ASSUME IInv, Next, NEW t \in Turns, NEW u \in Users, NEW s \in SessionIds,
                      Receive(t, u, s), NEW v \in turn'[t].state.turns
               PROVE  turn'[v].user = u
    BY DEF vars
  <2>1. TypeOK /\ History /\ TypeOK'
    BY NextBase DEF IInv, Base
  <2>2. turn'[t].user = u
    BY <2>1, ReceiveMoves
  <2>3. CASE v # t
    <3>1. PICK x \in SessionIds : KeyOf[<<turn'[v].user, x>>] = KeyOf[<<u, s>>]
      BY <2>1, <2>3, ReceiveHistory
    <3>2. turn'[v].user \in Users
      BY <2>1 DEF TypeOK, Turn, Record
    <3> QED
      BY <3>1, <3>2 DEF KeysDiffer
  <2> QED
    BY <2>2, <2>3
<1> QED
  BY <1>1, Invariance, PTL DEF Spec, OwnTurnsOnly
=============================================================================

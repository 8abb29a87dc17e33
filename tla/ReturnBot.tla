------------------------------ MODULE ReturnBot ------------------------------
(***************************************************************************)
(* The return chatbot: ReturnConversationService, its planner's            *)
(* normalisation, the backend's refund validation and the session file.    *)
(*                                                                         *)
(* A turn loads its session, waits for the routing agent, for the planner  *)
(* agent (only when a complete return request came out) and for the answer *)
(* agent, and saves session and trace at the end.  What the agents answer  *)
(* is up to a language model: any intent, any fields, any proposed calls.  *)
(* The tools run without suspending, between the last two waits.           *)
(*                                                                         *)
(* A definition marked (mutant) is no part of the specification: it is the *)
(* slip the definition after it guards against, kept to show that the      *)
(* properties notice it.                                                   *)
(***************************************************************************)
EXTENDS Naturals, FiniteSets, Sequences

CONSTANTS
  Users,         \* user ids
  SessionIds,    \* session ids, which users may share
  Keys,          \* keys of session records
  KeyOf,         \* [Users \X SessionIds -> Keys], see _record_key
  Asking,        \* bound on who may ask: pairs of user and session id
  Items,         \* order lines of the catalog
  Owner,         \* [Items -> Users]: whose order the line is in
  Eligible,      \* the lines check_return_policy finds eligible
  NoItem,        \* order or item id still missing
  Unknown,       \* ids that name no line
  Turns,         \* turns that may be taken
  MaxProposals,  \* bound on the writes a planner proposes at once
  MaxExpiries    \* bound on sessions that pass their TTL

\* _record_key joins the two ids with a colon, which either may contain, so two
\* users may have one key.
ASSUME BotConstants ==
  /\ KeyOf \in [Users \X SessionIds -> Keys] /\ Asking \subseteq Users \X SessionIds
  /\ Owner \in [Items -> Users] /\ Eligible \subseteq Items
  /\ {NoItem, Unknown} \cap Items = {} /\ NoItem # Unknown
  /\ MaxProposals \in Nat /\ MaxExpiries \in Nat

VARIABLES
  sessions,     \* [Keys -> the record in sessions.json]
  refunds,      \* [Users \X Items -> refund records made in turns of the user]
  tickets,      \* [Users -> support tickets]
  traced,       \* [Users \X Items -> refunds that conversation traces show]
  turn,         \* [Turns -> what the service knows of the turn]
  \* history
  unreported,   \* [Users \X Items -> refunds of turns that ended in an error]
  overlapped,   \* turns that ran while another turn of their session did
  expired,      \* turns in records that were expired when they were loaded
  expiries      \* records that passed their TTL so far

vars == <<sessions, refunds, tickets, traced, turn, unreported, overlapped,
          expired, expiries>>

\* other: every intent that no plan follows.
Intents == {"return_request", "other"}

\* Routing fields: reason says whether a return reason is known.
Fields == [item: Items \cup {NoItem, Unknown}, reason: BOOLEAN]

Record == [turns: SUBSET Turns, fields: Fields, live: BOOLEAN]

NewSession == [turns |-> {}, fields |-> [item |-> NoItem, reason |-> FALSE], live |-> TRUE]

\* Proposed writes.  A malformed amount is one Decimal refuses.
Amounts == {"exact", "wrong", "malformed"}
Proposal == [name: {"issue_refund"}, item: Items, amount: Amounts]
            \cup [name: {"create_support_ticket"}]

NoneIssued == [i \in Items |-> 0]

Turn == [pc: {"new", "route", "plan", "answer", "answered", "error"},
         user: Users, key: Keys, state: Record, intent: Intents, issued: [Items -> Nat]]

Open == {"route", "plan", "answer"}

Init ==
  /\ sessions = [k \in Keys |-> NewSession]
  /\ refunds = [p \in Users \X Items |-> 0] /\ tickets = [u \in Users |-> 0]
  /\ traced = [p \in Users \X Items |-> 0]
  /\ \E x \in Asking :
       turn = [t \in Turns |-> [pc |-> "new", user |-> x[1], key |-> KeyOf[x],
                                state |-> NewSession, intent |-> "other",
                                issued |-> NoneIssued]]
  /\ unreported = [p \in Users \X Items |-> 0]
  /\ overlapped = {} /\ expired = {} /\ expiries = 0

-----------------------------------------------------------------------------
(* Sessions *)

\* (mutant: the record of an expired session is handed out)
ServedAnyway(k) == sessions[k]

\* load: an expired record is dropped and a new session handed out.  The user a
\* record names is not compared.
Loaded(k) == IF sessions[k].live THEN sessions[k] ELSE NewSession

Beside(t, k) == {u \in Turns \ {t} : turn[u].key = k /\ turn[u].pc \in Open}

Receive(t, u, s) ==
  LET k == KeyOf[<<u, s>>]  found == Loaded(k)  beside == Beside(t, k) IN
  /\ turn[t].pc = "new" /\ <<u, s>> \in Asking
  /\ sessions' = [sessions EXCEPT ![k] = IF @.live THEN @ ELSE NewSession]
  /\ turn' = [turn EXCEPT ![t].pc = "route", ![t].user = u, ![t].key = k,
                          ![t].state = [found EXCEPT !.turns = found.turns \cup {t}]]
  /\ overlapped' = overlapped \cup (IF beside = {} THEN {} ELSE beside \cup {t})
  /\ expired' = expired \cup (IF sessions[k].live THEN {} ELSE sessions[k].turns)
  /\ UNCHANGED <<refunds, tickets, traced, unreported, expiries>>

\* The TTL of a stored session runs out.
Expire(k) ==
  /\ expiries < MaxExpiries /\ expiries' = expiries + 1
  /\ sessions[k].live /\ sessions[k].turns # {}
  /\ sessions' = [sessions EXCEPT ![k].live = FALSE]
  /\ UNCHANGED <<refunds, tickets, traced, turn, unreported, overlapped, expired>>

-----------------------------------------------------------------------------
(* Routing and planning *)

Complete(fields) == fields.item # NoItem /\ fields.reason

\* The routing agent's fields are merged into the session's; a return request
\* with all its fields goes to the planner agent, anything else to the answer
\* with reading tools at most.
Routed(t) ==
  LET old == turn[t].state.fields IN
  /\ turn[t].pc = "route"
  /\ \E intent \in Intents, item \in Items \cup {Unknown, old.item},
        reason \in {TRUE, old.reason} :
       LET fields == [item |-> item, reason |-> reason] IN
       turn' = [turn EXCEPT
         ![t].pc = IF intent = "return_request" /\ Complete(fields) THEN "plan" ELSE "answer",
         ![t].intent = intent, ![t].state.fields = fields]
  /\ UNCHANGED <<sessions, refunds, tickets, traced, unreported, overlapped,
                 expired, expiries>>

User(t) == turn[t].user

\* Facts of _normalize_planner_output about the line the customer asked for.
Owned(t) == turn[t].state.fields.item \in {i \in Items : Owner[i] = User(t)}
Foreign(t) == turn[t].state.fields.item \in {i \in Items : Owner[i] # User(t)}
Refundable(t) == Owned(t) /\ turn[t].state.fields.item \in Eligible

Refund(i, amount) == [name |-> "issue_refund", item |-> i, amount |-> amount]

IsRefund(p) == p.name = "issue_refund"

\* (mutant: the planner's proposals are taken as they are)
TakenAsProposed(t, proposals) == proposals

\* The calls that are left keep their places.
WithoutRefunds(proposals) ==
  [k \in {n \in DOMAIN proposals : ~IsRefund(proposals[n])} |-> proposals[k]]

\* Nothing for somebody else's order; no refund unless the line asked for is
\* eligible; a refund of it is added when none was proposed.
Normalized(t, proposals) ==
  LET asked == turn[t].state.fields.item IN
  IF Foreign(t) THEN <<>>
  ELSE IF ~Refundable(t) THEN WithoutRefunds(proposals)
  ELSE IF \E k \in DOMAIN proposals : IsRefund(proposals[k]) THEN proposals
  ELSE Append(proposals, Refund(asked, "exact"))

\* (mutant: the owner of the order is not compared)
ValidForAnyone(t, p) ==
  IsRefund(p) /\ p.amount = "exact" /\ p.item \in Eligible

\* _validate_refund_call, once the amount has been parsed.
Valid(t, p) ==
  IsRefund(p) /\ p.amount = "exact" /\ p.item \in Eligible /\ Owner[p.item] = User(t)

\* The tools run in order; a malformed amount raises past the loop, and what
\* came before it stays done.
Reached(calls) ==
  {k \in DOMAIN calls : \A j \in DOMAIN calls :
     j <= k => ~(IsRefund(calls[j]) /\ calls[j].amount = "malformed")}

Issues(t, calls) ==
  [i \in Items |-> Cardinality({k \in Reached(calls) : Valid(t, calls[k]) /\ calls[k].item = i})]

Plus(counts, u, issued) ==
  [p \in Users \X Items |-> IF p[1] = u THEN counts[p] + issued[p[2]] ELSE counts[p]]

Proposals == UNION {[1..n -> Proposal] : n \in 0..MaxProposals}

Planned(t) ==
  /\ turn[t].pc = "plan"
  /\ \E proposals \in Proposals :
       LET calls  == Normalized(t, proposals)
           issued == Issues(t, calls)
           fails  == Reached(calls) # DOMAIN calls
       IN
       /\ refunds' = Plus(refunds, User(t), issued)
       /\ tickets' = [tickets EXCEPT ![User(t)] =
                        @ + Cardinality({k \in Reached(calls) : ~IsRefund(calls[k])})]
       /\ unreported' = IF fails THEN Plus(unreported, User(t), issued) ELSE unreported
       /\ turn' = [turn EXCEPT ![t].pc = IF fails THEN "error" ELSE "answer",
                               ![t].issued = issued]
       /\ UNCHANGED <<sessions, traced, overlapped, expired, expiries>>

-----------------------------------------------------------------------------
(* Answer *)

\* (mutant: the trace shows the plan before the tools ran)
ShownBefore(t) == NoneIssued

Shown(t) == turn[t].issued

\* (mutant: the session is saved as it was found)
SavedAsFound(t) == [turn[t].state EXCEPT !.turns = @ \ {t}, !.live = TRUE]

\* save: the loaded copy replaces the record it came from, with a new TTL.
Saved(t) == [turn[t].state EXCEPT !.live = TRUE]

\* The answer is written: session and trace are saved without suspending.
Answered(t) ==
  /\ turn[t].pc = "answer"
  /\ sessions' = [sessions EXCEPT ![turn[t].key] = Saved(t)]
  /\ traced' = Plus(traced, User(t), Shown(t))
  /\ turn' = [turn EXCEPT ![t].pc = "answered"]
  /\ UNCHANGED <<refunds, tickets, unreported, overlapped, expired, expiries>>

\* (mutant: a failed call is made again without a limit)
RetriedForever(t) ==
  /\ turn[t].pc \in Open
  /\ turn' = [turn EXCEPT ![t].pc = "route"]
  /\ UNCHANGED <<sessions, refunds, tickets, traced, unreported, overlapped,
                 expired, expiries>>

\* A model call raises - no answer, a refusal, an answer that does not validate:
\* the turn ends with neither session nor trace.
ModelFails(t) ==
  /\ turn[t].pc \in Open
  /\ unreported' = Plus(unreported, User(t), turn[t].issued)
  /\ turn' = [turn EXCEPT ![t].pc = "error"]
  /\ UNCHANGED <<sessions, refunds, tickets, traced, overlapped, expired, expiries>>

-----------------------------------------------------------------------------
Wake(t) == Routed(t) \/ Planned(t) \/ Answered(t) \/ ModelFails(t)

Next ==
  \/ \E t \in Turns : Wake(t) \/ \E u \in Users, s \in SessionIds : Receive(t, u, s)
  \/ \E k \in Keys : Expire(k)

\* Every call of the model ends with an answer or an error.
Fairness == \A t \in Turns : WF_vars(Wake(t))

Spec == Init /\ [][Next]_vars
FairSpec == Spec /\ Fairness

-----------------------------------------------------------------------------
(* Properties *)

TypeOK ==
  /\ sessions \in [Keys -> Record] /\ turn \in [Turns -> Turn]
  /\ refunds \in [Users \X Items -> Nat] /\ traced \in [Users \X Items -> Nat]
  /\ unreported \in [Users \X Items -> Nat] /\ tickets \in [Users -> Nat]
  /\ overlapped \in SUBSET Turns /\ expired \in SUBSET Turns /\ expiries \in Nat

\* The safety boundary: whatever the model proposes, a refund is for a line of
\* the authenticated user's own order that the policy finds eligible.
RefundsAreDue ==
  \A u \in Users, i \in Items :
    refunds[<<u, i>>] > 0 => Owner[i] = u /\ i \in Eligible

\* Refunds happen only in a turn about an eligible line of the user's own: a
\* question, an unclear request or one about another order moves no money,
\* even if the model proposes to refund a line that would be due.
RefundNeedsRequest ==
  [][refunds' # refunds =>
       \E t \in Turns : /\ turn[t].pc = "plan" /\ turn'[t].pc # "plan"
                        /\ turn[t].intent = "return_request" /\ turn[t].state.fields.reason
                        /\ Refundable(t)]_vars

\* Every refund is in a trace, or in the hands of an open turn, or its turn
\* ended in an error after the money moved.
InHand(u, i) ==
  {t \in Turns : turn[t].pc \in Open /\ User(t) = u /\ turn[t].issued[i] > 0}

RefundsAccountedFor ==
  \A u \in Users, i \in Items :
    /\ traced[<<u, i>>] + unreported[<<u, i>>] <= refunds[<<u, i>>]
    /\ InHand(u, i) = {} => refunds[<<u, i>>] = traced[<<u, i>>] + unreported[<<u, i>>]

\* A finished turn stays in the history of its session until that expires,
\* unless another turn of the session ran beside it.
TurnsRemembered ==
  \A t \in Turns :
    turn[t].pc = "answered" =>
      t \in sessions[turn[t].key].turns \cup expired \cup overlapped

\* A turn sees what was said in another session, its own user's or another's,
\* only if user id and session id make the same record key there: the store keeps
\* apart keys, not users.  It never sees what a record held that had expired,
\* unless a turn that had loaded it before ran beside another one and saved it
\* again.
SessionsApart ==
  [][\A t \in Turns, u \in Users, s \in SessionIds :
       Receive(t, u, s) =>
         LET seen == turn'[t].state.turns \ {t} IN
         /\ \A v \in seen : /\ turn'[v].key = KeyOf[<<u, s>>]
                            /\ \E x \in SessionIds : turn'[v].key = KeyOf[<<turn'[v].user, x>>]
         /\ seen \cap expired' # {} => seen \cap overlapped' # {}]_vars

\* Every turn is answered or ends in an error: none stays open for ever, and
\* once received it is never new again.
TurnsEnd == \A t \in Turns : []<>(turn[t].pc \notin Open)
=============================================================================

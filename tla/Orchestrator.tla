----------------------------- MODULE Orchestrator -----------------------------
(***************************************************************************)
(* The customer support orchestrator: ConversationService of Project 2     *)
(* with its specialist agents, session file and support tickets.           *)
(*                                                                         *)
(* A turn waits for the routing model, then for its specialists - one      *)
(* after the other, or all of a parallel step at once under                *)
(* asyncio.gather - and perhaps for the escalation agent.  Its actions and *)
(* the save of the session run without suspending once the last answer is  *)
(* there.  When a call of a parallel step fails, gather raises and the     *)
(* turn ends, but the other calls go on.  Tickets are kept in memory and   *)
(* go with the process, so no crash appears.                               *)
(*                                                                         *)
(* A definition marked (mutant) is no part of the specification: it is the *)
(* slip the definition after it guards against, kept to show that the      *)
(* properties notice it.                                                   *)
(***************************************************************************)
EXTENDS Naturals, Sequences

CONSTANTS
  Users,        \* user ids
  NoUser,       \* of a session id without a record
  SessionIds,   \* session ids, which users may share
  Turns,        \* turns that may be taken
  Agents,       \* agents in use
  MaxSelected,  \* bound on the agents the routing model names for a turn
  Outputs       \* what an agent's model may answer, see AgentOutput

AgentName == {"return_agent", "shipping_agent", "payment_agent", "account_agent",
              "escalation_agent"}

\* Proposed support tickets: a held one needs approval, is not a safe write or
\* gives no reason.  Actions of another name are never carried out.
Proposal == {"ticket", "held"}

\* escalates: needs_escalation, or a confidence below 0.6.
AgentOutput == [escalates: BOOLEAN, proposals: Seq(Proposal)]

ASSUME OrchestratorConstants ==
  /\ NoUser \notin Users
  /\ "escalation_agent" \in Agents /\ Agents \subseteq AgentName
  /\ MaxSelected \in Nat \ {0} /\ Outputs \subseteq AgentOutput

VARIABLES
  sessions,    \* [SessionIds -> the record in sessions.json]
  tickets,     \* support_tickets: who asked for which, and where
  turn,        \* [Turns -> what the service knows of the turn]
  \* history
  displaced,   \* turns in records that another user's turn replaced
  overlapped   \* turns that ran while another turn of their session id did

vars == <<sessions, tickets, turn, displaced, overlapped>>

Record == [user: Users \cup {NoUser}, turns: SUBSET Turns]

\* given: the agents whose results the escalation agent was shown.
Result == [agent: Agents, escalates: BOOLEAN, proposals: Seq(Proposal),
           given: SUBSET Agents]

Ticket == [user: Users, turn: Turns, agent: Agents, place: Nat]

\* waiting: agents whose calls are under way; results: in order of arrival
\* while the turn is open, as they are answered in the end.
Turn == [pc: {"new", "route", "run", "escalate", "answered", "error"},
         session: SessionIds, state: Record, selected: Seq(Agents), parallel: BOOLEAN,
         waiting: SUBSET Agents, results: Seq(Result)]

Open == {"route", "run", "escalate"}

NoRecord == [user |-> NoUser, turns |-> {}]

Init ==
  /\ sessions = [s \in SessionIds |-> NoRecord]
  /\ \E s \in SessionIds :
       turn = [t \in Turns |->
                 [pc |-> "new", session |-> s, state |-> NoRecord, selected |-> <<>>,
                  parallel |-> FALSE, waiting |-> {}, results |-> <<>>]]
  /\ tickets = {} /\ displaced = {} /\ overlapped = {}

User(t) == turn[t].state.user

-----------------------------------------------------------------------------
(* Sessions *)

\* (mutant: the record is found by its session id alone)
LoadedForAnyone(u, s) == [sessions[s] EXCEPT !.user = u]

\* load: a record of another user is not handed out.
Loaded(u, s) ==
  IF sessions[s].user = u THEN sessions[s] ELSE [user |-> u, turns |-> {}]

Receive(t, u, s) ==
  LET beside == {v \in Turns : turn[v].session = s /\ turn[v].pc \in Open} IN
  /\ turn[t].pc = "new"
  /\ turn' = [turn EXCEPT ![t].pc = "route", ![t].session = s,
       ![t].state = [Loaded(u, s) EXCEPT !.turns = @ \cup {t}]]
  /\ overlapped' = overlapped \cup (IF beside = {} THEN {} ELSE beside \cup {t})
  /\ UNCHANGED <<sessions, tickets, displaced>>

-----------------------------------------------------------------------------
(* Routing *)

\* The routing model may name any agents, none at all or one several times.
Decisions == UNION {[1..n -> Agents] : n \in 0..MaxSelected}
Modes == {"single_agent", "sequential", "parallel"}

Members(s) == {s[i] : i \in DOMAIN s}

FirstPlace(s, a) == CHOOSE i \in DOMAIN s : s[i] = a /\ \A k \in DOMAIN s : s[k] = a => i <= k

\* Agents to select: a list without repetitions that is not empty.
Selections ==
  {s \in UNION {[1..n -> Agents] : n \in 1..MaxSelected} :
     \A i, k \in DOMAIN s : s[i] = s[k] => i = k}

\* _normalize_selected_agents: every agent once, where it is named first; the
\* escalation agent when none is.
Normalizes(selected, decided) ==
  IF decided = <<>> THEN selected = <<"escalation_agent">>
  ELSE /\ Members(selected) = Members(decided)
       /\ \A i, k \in DOMAIN selected :
            i < k => FirstPlace(decided, selected[i]) < FirstPlace(decided, selected[k])

\* _requires_sequential: the message asks for a sensitive change, or returns
\* and payments are to wait for the shipment.
NeedsOrder(selected, sensitive) ==
  \/ sensitive
  \/ /\ "shipping_agent" \in Members(selected)
     /\ {"return_agent", "payment_agent"} \cap Members(selected) # {}

\* _build_execution_plan: several agents run side by side only when the model
\* asked for neither of the other modes and nothing needs an order.
RunsParallel(selected, mode, sensitive) ==
  Len(selected) > 1 /\ mode = "parallel" /\ ~NeedsOrder(selected, sensitive)

\* The plan's steps: every agent at once, or the first alone.
Plan(t, selected, parallel) ==
  turn' = [turn EXCEPT
    ![t].pc = "run", ![t].selected = selected, ![t].parallel = parallel,
    ![t].waiting = IF parallel THEN Members(selected) ELSE {selected[1]}]

Routed(t) ==
  /\ turn[t].pc = "route"
  /\ \E selected \in Selections, mode \in Modes, sensitive \in BOOLEAN :
       /\ \E decided \in Decisions : Normalizes(selected, decided)
       /\ Plan(t, selected, RunsParallel(selected, mode, sensitive))
  /\ UNCHANGED <<sessions, tickets, displaced, overlapped>>

-----------------------------------------------------------------------------
(* Specialists *)

\* The escalation agent always proposes a ticket of some kind.
Proposed(a, proposals) ==
  IF a = "escalation_agent" /\ proposals = <<>> THEN <<"ticket">> ELSE proposals

\* Only the escalation agent is shown results, those that are complete when it
\* starts: none in a parallel step.
Given(t, a) ==
  IF a = "escalation_agent" /\ (turn[t].pc = "escalate" \/ ~turn[t].parallel)
  THEN {turn[t].results[i].agent : i \in DOMAIN turn[t].results} ELSE {}

Answer(t, a, output) ==
  [agent |-> a, escalates |-> output.escalates,
   proposals |-> Proposed(a, output.proposals), given |-> Given(t, a)]

\* The next call of a sequential plan.
Following(t, n) ==
  IF ~turn[t].parallel /\ n < Len(turn[t].selected) THEN {turn[t].selected[n + 1]} ELSE {}

\* An agent answers and others are still to answer.
AgentAnswers(t, a, output) ==
  LET results == Append(turn[t].results, Answer(t, a, output))
      waiting == (turn[t].waiting \ {a}) \cup Following(t, Len(results))
  IN
  /\ turn[t].pc = "run" /\ a \in turn[t].waiting /\ waiting # {}
  /\ turn' = [turn EXCEPT ![t].results = results, ![t].waiting = waiting]
  /\ UNCHANGED <<sessions, tickets, displaced, overlapped>>

\* (mutant: the results are left as they came in)
InOrderOfArrival(t, results) == results

\* gather returns the results in the order of the plan.
InOrder(t, results) ==
  [i \in DOMAIN turn[t].selected |->
     results[CHOOSE k \in DOMAIN results : results[k].agent = turn[t].selected[i]]]

\* The last answer of the plan is there.
Completes(t, a) ==
  /\ turn[t].pc = "run" /\ turn[t].waiting = {a}
  /\ Following(t, Len(turn[t].results) + 1) = {}

\* (mutant: only the last result is asked)
LastAsksToEscalate(results) == results[Len(results)].escalates

AskedToEscalate(results) == \E i \in DOMAIN results : results[i].escalates

\* _maybe_escalate: the escalation agent is called unless it was selected.
\* Results may always disagree, since their reason codes are free.
SpecialistsEscalate(t, a, output) ==
  LET results == InOrder(t, Append(turn[t].results, Answer(t, a, output))) IN
  /\ Completes(t, a)
  /\ "escalation_agent" \notin Members(turn[t].selected)
  /\ turn' = [turn EXCEPT ![t].pc = "escalate", ![t].results = results,
                          ![t].waiting = {"escalation_agent"}]
  /\ UNCHANGED <<sessions, tickets, displaced, overlapped>>

-----------------------------------------------------------------------------
(* Actions and the end of the turn *)

\* Needs no approval and passes validate_and_execute_action.
Executed(proposal) == proposal = "ticket"

\* _execute_backend_actions, over the results in their order.
CarriesOut(t, results) ==
  UNION {{[user |-> User(t), turn |-> t, agent |-> results[i].agent, place |-> k] :
            k \in {n \in DOMAIN results[i].proposals : Executed(results[i].proposals[n])}} :
         i \in DOMAIN results}

\* (mutant: the session is saved as it was loaded)
SavedAsLoaded(t) == [turn[t].state EXCEPT !.turns = @ \ {t}]

\* save: the loaded copy replaces whatever the session id names.
Saved(t) == turn[t].state

Conclude(t, results) ==
  LET s == turn[t].session IN
  /\ tickets' = tickets \cup CarriesOut(t, results)
  /\ sessions' = [sessions EXCEPT ![s] = Saved(t)]
  /\ displaced' = displaced \cup (IF sessions[s].user = User(t) THEN {}
                                  ELSE sessions[s].turns)
  /\ turn' = [turn EXCEPT ![t].pc = "answered", ![t].results = results,
                          ![t].waiting = {}]
  /\ UNCHANGED overlapped

SpecialistsConclude(t, a, output) ==
  LET results == InOrder(t, Append(turn[t].results, Answer(t, a, output))) IN
  /\ Completes(t, a)
  /\ "escalation_agent" \in Members(turn[t].selected) \/ ~AskedToEscalate(results)
  /\ Conclude(t, results)

EscalationConcludes(t, output) ==
  /\ turn[t].pc = "escalate"
  /\ Conclude(t, Append(turn[t].results, Answer(t, "escalation_agent", output)))

\* (mutant: what the others proposed is carried out before the error)
FailsHalfDone(t) ==
  /\ turn[t].pc \in Open
  /\ tickets' = tickets \cup CarriesOut(t, turn[t].results)
  /\ turn' = [turn EXCEPT ![t].pc = "error", ![t].waiting = {}]
  /\ UNCHANGED <<sessions, displaced, overlapped>>

\* (mutant: a turn that failed is taken again without a limit)
TakenAgain(t) ==
  /\ turn[t].pc \in Open
  /\ turn' = [turn EXCEPT ![t].pc = "route", ![t].waiting = {}, ![t].results = <<>>]
  /\ UNCHANGED <<sessions, tickets, displaced, overlapped>>

\* A model call raises - no answer, a refusal, an answer that does not validate -
\* and the turn ends; its other calls are not cancelled.
ModelFails(t) ==
  /\ turn[t].pc \in Open
  /\ \/ turn[t].pc = "route" /\ turn' = [turn EXCEPT ![t].pc = "error"]
     \/ \E a \in turn[t].waiting :
          turn' = [turn EXCEPT ![t].pc = "error", ![t].waiting = @ \ {a}]
  /\ UNCHANGED <<sessions, tickets, displaced, overlapped>>

\* A call of a turn that has failed ends; nobody reads the result.
StrayEnds(t) ==
  /\ turn[t].pc = "error"
  /\ \E a \in turn[t].waiting : turn' = [turn EXCEPT ![t].waiting = @ \ {a}]
  /\ UNCHANGED <<sessions, tickets, displaced, overlapped>>

-----------------------------------------------------------------------------
Wake(t) ==
  \/ Routed(t) \/ ModelFails(t) \/ StrayEnds(t)
  \/ \E output \in Outputs :
       \/ \E a \in turn[t].waiting : \/ AgentAnswers(t, a, output)
                                     \/ SpecialistsEscalate(t, a, output)
                                     \/ SpecialistsConclude(t, a, output)
       \/ EscalationConcludes(t, output)

Next ==
  \E t \in Turns : Wake(t) \/ \E u \in Users, s \in SessionIds : Receive(t, u, s)

\* Every call of the model ends with an answer or an error.
Fairness == \A t \in Turns : WF_vars(Wake(t))

Spec == Init /\ [][Next]_vars
FairSpec == Spec /\ Fairness

-----------------------------------------------------------------------------
(* Properties *)

TypeOK ==
  /\ sessions \in [SessionIds -> Record] /\ tickets \in SUBSET Ticket
  /\ turn \in [Turns -> Turn]
  /\ displaced \in SUBSET Turns /\ overlapped \in SUBSET Turns

\* Tickets are exactly the unheld proposals of the turns that were answered:
\* a turn that fails has created none, whatever its agents had proposed by
\* then and however many calls go on, and no ticket is there unasked.
TicketsAreProposed ==
  /\ \A t \in Turns : \A i \in DOMAIN turn[t].results :
       LET r == turn[t].results[i] IN
       \A k \in DOMAIN r.proposals :
         [user |-> User(t), turn |-> t, agent |-> r.agent, place |-> k] \in tickets
           <=> turn[t].pc = "answered" /\ r.proposals[k] = "ticket"
  /\ \A x \in tickets : \E i \in DOMAIN turn[x.turn].results :
       LET r == turn[x.turn].results[i] IN
       x.user = User(x.turn) /\ x.agent = r.agent /\ x.place \in DOMAIN r.proposals

\* Whatever order a parallel step answers in, the response has one result for
\* each selected agent in the order of selection, and at most one more.
ResultsFollowPlan ==
  \A t \in Turns :
    turn[t].pc = "answered" =>
      LET agents == [i \in DOMAIN turn[t].results |-> turn[t].results[i].agent] IN
      agents \in {turn[t].selected, Append(turn[t].selected, "escalation_agent")}

\* A specialist that asks for a human gets one: the escalation agent was shown
\* its result and a ticket was created or is held for approval - unless the
\* router had selected the escalation agent itself, at a place of its own.
EscalationsHandled ==
  \A t \in Turns : \A i \in DOMAIN turn[t].results :
    LET r == turn[t].results[i]  last == turn[t].results[Len(turn[t].results)] IN
    /\ turn[t].pc = "answered" /\ r.escalates
    /\ "escalation_agent" \notin Members(turn[t].selected)
    => /\ last.agent = "escalation_agent" /\ last.proposals # <<>>
       /\ r.agent \in last.given \cup {"escalation_agent"}

\* A turn never sees what was said in another user's session of the same id.
SessionsApart ==
  [][\A t \in Turns, u \in Users, s \in SessionIds :
       Receive(t, u, s) =>
         \A v \in turn'[t].state.turns : turn'[v].state.user = u /\ turn'[v].session = s]_vars

\* An answered turn stays in the history of its session until another user
\* takes the session id, unless another turn of that id ran beside it.
TurnsRemembered ==
  \A t \in Turns :
    turn[t].pc = "answered" =>
      t \in sessions[turn[t].session].turns \cup displaced \cup overlapped

\* Every turn ends, and so do the calls a failed one leaves behind.
TurnsEnd ==
  \A t \in Turns :
    turn[t].pc = "route" ~> turn[t].pc \in {"answered", "error"} /\ turn[t].waiting = {}
=============================================================================

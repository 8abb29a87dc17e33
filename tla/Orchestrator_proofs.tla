-------------------------- MODULE Orchestrator_proofs --------------------------
(* Proofs about Orchestrator, for every value of its constants. *)
EXTENDS Orchestrator, TLAPS

\* Every agent selected for the turn w has one of these results.
Covers(w, results) ==
  \A i \in DOMAIN w.selected :
    \E k \in DOMAIN results : results[k].agent = w.selected[i]

\* These results are the selected agents', in the order of the plan.
Follows(w, results) ==
  /\ DOMAIN results = DOMAIN w.selected
  /\ \A i \in DOMAIN results : results[i].agent = w.selected[i]

OnePerAgent(results) ==
  \A i, k \in DOMAIN results : results[i].agent = results[k].agent => i = k

\* A user is known from the request on.
Begun(w) == w.pc # "new" => w.state.user \in Users

\* What is known of the results at each point of a turn w.
InParallel(w) ==
  \A i \in DOMAIN w.selected :
    \/ w.selected[i] \in w.waiting
    \/ \E k \in DOMAIN w.results : w.results[k].agent = w.selected[i]

InSequence(w) ==
  /\ Len(w.results) < Len(w.selected)
  /\ w.waiting = {w.selected[Len(w.results) + 1]}
  /\ \A i \in DOMAIN w.results : w.results[i].agent = w.selected[i]

Planned(w) ==
  /\ w.pc \in {"new", "route"} => w.results = <<>>
  /\ w.pc \in {"run", "escalate", "answered"} => w.selected \in Selections
  /\ w.pc = "run" => IF w.parallel THEN InParallel(w) ELSE InSequence(w)
  /\ w.pc = "escalate" => /\ Follows(w, w.results)
                          /\ "escalation_agent" \notin Members(w.selected)
  /\ w.pc = "answered" => OnePerAgent(w.results)

TicketFor(t, i, k) ==
  [user |-> User(t), turn |-> t, agent |-> turn[t].results[i].agent, place |-> k]

\* An unheld proposal of an answered turn, at place k of its i-th result.
Unheld(t, i, k) ==
  /\ turn[t].pc = "answered" /\ i \in DOMAIN turn[t].results
  /\ k \in DOMAIN turn[t].results[i].proposals
  /\ turn[t].results[i].proposals[k] = "ticket"

\* Tickets are the unheld proposals of answered turns.
TicketInv ==
  /\ \A t \in Turns : \A i \in DOMAIN turn[t].results :
       \A k \in DOMAIN turn[t].results[i].proposals :
         Unheld(t, i, k) => TicketFor(t, i, k) \in tickets
  /\ \A x \in tickets : \E i \in DOMAIN turn[x.turn].results :
       Unheld(x.turn, i, x.place) /\ x = TicketFor(x.turn, i, x.place)

\* Records, stored or loaded, hold turns of their own user and session.
RecordsApart ==
  /\ \A s \in SessionIds : \A v \in sessions[s].turns :
       turn[v].pc # "new" /\ turn[v].session = s /\ User(v) = sessions[s].user
  /\ \A t \in Turns : \A v \in turn[t].state.turns :
       turn[v].pc # "new" /\ turn[v].session = turn[t].session /\ User(v) = User(t)

\* Two open turns of a session id have run beside each other.
OpenOverlap ==
  \A t, v \in Turns :
    t # v /\ turn[t].pc \in Open /\ turn[v].pc \in Open /\ turn[t].session = turn[v].session
      => t \in overlapped

\* An open turn has loaded the answered turns of its user and session id.
OpenKnows ==
  \A t \in Turns : turn[t].pc \in Open =>
    /\ t \in turn[t].state.turns
    /\ \A v \in Turns \ (displaced \cup overlapped) :
         turn[v].pc = "answered" /\ turn[v].session = turn[t].session /\ User(v) = User(t)
           => v \in turn[t].state.turns

TypeInv == TypeOK /\ \A t \in Turns : Begun(turn[t]) /\ Planned(turn[t])
HistoryInv == RecordsApart /\ OpenOverlap /\ OpenKnows /\ TurnsRemembered

-----------------------------------------------------------------------------
(* Operators *)

LEMMA SelectionType ==
  ASSUME NEW selected \in Selections
  PROVE  /\ selected \in Seq(Agents) /\ Len(selected) \in Nat \ {0}
         /\ DOMAIN selected = 1..Len(selected)
         /\ \A i \in DOMAIN selected : selected[i] \in Agents
         /\ \A i, k \in DOMAIN selected : selected[i] = selected[k] => i = k
<1>1. PICK n \in 1..MaxSelected : selected \in [1..n -> Agents]
  BY DEF Selections
<1>2. n \in Nat \ {0}
  BY OrchestratorConstants
<1>3. selected \in Seq(Agents) /\ Len(selected) = n /\ DOMAIN selected = 1..n
  BY <1>1, <1>2
<1> QED
  BY <1>1, <1>2, <1>3 DEF Selections

LEMMA AnswerType ==
  ASSUME TypeOK, NEW t \in Turns, NEW a \in Agents, NEW output \in Outputs
  PROVE  Answer(t, a, output) \in Result
<1>1. output \in AgentOutput
  BY OrchestratorConstants
<1>2. turn[t].results \in Seq(Result)
  BY DEF TypeOK, Turn
<1>3. Given(t, a) \subseteq Agents
  <2>1. \A i \in DOMAIN turn[t].results : turn[t].results[i] \in Result
    BY <1>2
  <2>2. \A i \in DOMAIN turn[t].results : turn[t].results[i].agent \in Agents
    BY <2>1 DEF Result
  <2> QED
    BY <2>2 DEF Given
<1>4. Proposed(a, output.proposals) \in Seq(Proposal)
  <2>1. <<"ticket">> \in Seq(Proposal)
    BY DEF Proposal
  <2> QED
    BY <2>1, <1>1 DEF Proposed, AgentOutput
<1> QED
  BY <1>1, <1>3, <1>4 DEF Answer, Result, AgentOutput

\* gather: whatever the order of arrival, the results follow the plan.
LEMMA InOrderFollows ==
  ASSUME NEW t \in Turns, turn[t].selected \in Selections,
         NEW results \in Seq(Result), Covers(turn[t], results)
  PROVE  /\ InOrder(t, results) \in Seq(Result)
         /\ Follows(turn[t], InOrder(t, results))
<1> DEFINE selected == turn[t].selected
           place(i) == CHOOSE k \in DOMAIN results : results[k].agent = selected[i]
<1>1. \A i \in DOMAIN selected :
        place(i) \in DOMAIN results /\ results[place(i)].agent = selected[i]
  BY DEF Covers
<1>2. InOrder(t, results) = [i \in DOMAIN selected |-> results[place(i)]]
  BY DEF InOrder
<1>3. DOMAIN selected = 1..Len(selected) /\ Len(selected) \in Nat
  BY SelectionType
<1> HIDE DEF place, selected
<1>4. \A i \in DOMAIN selected : results[place(i)] \in Result
  BY <1>1
<1>5. [i \in DOMAIN selected |-> results[place(i)]] \in Seq(Result)
  <2>1. [i \in 1..Len(selected) |-> results[place(i)]] \in [1..Len(selected) -> Result]
    BY <1>3, <1>4
  <2> QED
    BY <2>1, <1>3
<1>6. Follows(turn[t], [i \in DOMAIN selected |-> results[place(i)]])
  BY <1>1 DEF Follows, selected
<1> QED
  BY <1>2, <1>5, <1>6

\* When the last answer of the plan arrives, every selected agent has answered.
LEMMA CompleteCovers ==
  ASSUME TypeInv, NEW t \in Turns, NEW a \in Agents, NEW output \in Outputs, Completes(t, a)
  PROVE  /\ turn[t].selected \in Selections
         /\ Append(turn[t].results, Answer(t, a, output)) \in Seq(Result)
         /\ Covers(turn[t], Append(turn[t].results, Answer(t, a, output)))
<1> DEFINE old == turn[t].results
           new == Append(old, Answer(t, a, output))
           selected == turn[t].selected
<1>1. turn[t].pc = "run" /\ turn[t].waiting = {a}
  BY DEF Completes
<1>2. selected \in Selections
  BY <1>1 DEF TypeInv, Planned
<1>3. old \in Seq(Result) /\ new \in Seq(Result)
  BY AnswerType DEF TypeInv, TypeOK, Turn
<1>4. /\ \A k \in DOMAIN old : k \in DOMAIN new /\ new[k] = old[k]
      /\ Len(old) + 1 \in DOMAIN new /\ new[Len(old) + 1].agent = a
      /\ DOMAIN old = 1..Len(old) /\ Len(old) \in Nat
  BY <1>3 DEF Answer
<1>5. Covers(turn[t], new)
  <2> SUFFICES ASSUME NEW i \in DOMAIN selected
               PROVE  \E k \in DOMAIN new : new[k].agent = selected[i]
    BY DEF Covers
  <2>1. CASE turn[t].parallel
    <3>1. selected[i] = a \/ \E k \in DOMAIN old : old[k].agent = selected[i]
      BY <2>1, <1>1 DEF TypeInv, Planned, InParallel
    <3> QED
      BY <3>1, <1>4
  <2>2. CASE ~turn[t].parallel
    <3>1. /\ Len(old) < Len(selected) /\ selected[Len(old) + 1] = a
          /\ \A k \in DOMAIN old : old[k].agent = selected[k]
      BY <2>2, <1>1 DEF TypeInv, Planned, InSequence
    <3>2. Len(new) = Len(old) + 1
      BY <1>3
    <3>3. ~(Len(old) + 1 < Len(selected))
      BY <2>2, <3>2 DEF Completes, Following
    <3>4. i \in 1..Len(old) \/ i = Len(old) + 1
      BY <3>1, <3>3, <1>2, <1>4, SelectionType, SMTT(20)
    <3> QED
      BY <3>1, <3>4, <1>4
  <2> QED
    BY <2>1, <2>2
<1> QED
  BY <1>2, <1>3, <1>5

-----------------------------------------------------------------------------
(* Steps and types *)

\* A step moves one turn.
LEMMA OneTurn ==
  ASSUME TypeInv, NEW t \in Turns, NEW new \in Turn, Begun(new), Planned(new),
         turn' = [turn EXCEPT ![t] = new]
  PROVE  /\ turn' \in [Turns -> Turn]
         /\ \A v \in Turns : Begun(turn'[v]) /\ Planned(turn'[v])
<1>1. turn \in [Turns -> Turn] /\ turn'[t] = new /\ \A v \in Turns \ {t} : turn'[v] = turn[v]
  BY DEF TypeInv, TypeOK
<1>2. turn' \in [Turns -> Turn]
  BY <1>1
<1>3. \A v \in Turns : Begun(turn'[v]) /\ Planned(turn'[v])
  BY <1>1 DEF TypeInv
<1> QED
  BY <1>2, <1>3

LEMMA ReceiveType ==
  ASSUME TypeInv, NEW t \in Turns, NEW u \in Users, NEW s \in SessionIds, Receive(t, u, s)
  PROVE  TypeInv'
<1> DEFINE loaded == [Loaded(u, s) EXCEPT !.turns = @ \cup {t}]
           new == [turn[t] EXCEPT !.pc = "route", !.session = s, !.state = loaded]
<1>1. turn[t] \in Turn /\ sessions[s] \in Record /\ Planned(turn[t])
  BY DEF TypeInv, TypeOK
<1>2. loaded \in Record /\ loaded.user = u
  BY <1>1 DEF Loaded, Record
<1>3. new \in Turn
  BY <1>1, <1>2 DEF Turn
<1>4. Begun(new)
  BY <1>1, <1>2 DEF Begun, Turn
<1>5. Planned(new)
  BY <1>1 DEF Planned, Receive, Turn
<1>6. turn' = [turn EXCEPT ![t] = new]
  BY DEF Receive, TypeInv, TypeOK
<1> HIDE DEF new
<1>7. /\ turn' \in [Turns -> Turn]
      /\ \A v \in Turns : Begun(turn'[v]) /\ Planned(turn'[v])
  BY <1>3, <1>4, <1>5, <1>6, OneTurn
<1>8. overlapped' \in SUBSET Turns
  BY DEF Receive, TypeInv, TypeOK
<1> QED
  BY <1>7, <1>8 DEF Receive, TypeInv, TypeOK

(* A routed turn starts the agents of a selection, all of them or the first. *)
LEMMA RoutedPlan ==
  ASSUME NEW t \in Turns, Routed(t)
  PROVE  \E selected \in Selections, parallel \in BOOLEAN :
      turn' = [turn EXCEPT
            ![t].pc = "run", ![t].selected = selected, ![t].parallel = parallel,
            ![t].waiting = IF parallel THEN Members(selected) ELSE {selected[1]}]
<1>1. PICK selected \in Selections, mode \in Modes, sensitive \in BOOLEAN :
        Plan(t, selected, RunsParallel(selected, mode, sensitive))
  BY DEF Routed
<1>2. RunsParallel(selected, mode, sensitive) \in BOOLEAN
  BY DEF RunsParallel
<1> QED
  BY <1>1, <1>2 DEF Plan

LEMMA RoutedType ==
  ASSUME TypeInv, NEW t \in Turns, Routed(t)
  PROVE  TypeInv'
<1>1. PICK selected \in Selections, parallel \in BOOLEAN :
        turn' = [turn EXCEPT
            ![t].pc = "run", ![t].selected = selected, ![t].parallel = parallel,
            ![t].waiting = IF parallel THEN Members(selected) ELSE {selected[1]}]
  BY RoutedPlan
<1> DEFINE waiting == IF parallel THEN Members(selected) ELSE {selected[1]}
           new == [turn[t] EXCEPT !.pc = "run", !.selected = selected,
                                  !.parallel = parallel, !.waiting = waiting]
<1>2. turn[t] \in Turn /\ turn[t].pc = "route" /\ Begun(turn[t]) /\ Planned(turn[t])
  BY DEF TypeInv, TypeOK, Routed
<1>3. /\ selected \in Seq(Agents) /\ Len(selected) \in Nat \ {0}
      /\ DOMAIN selected = 1..Len(selected)
      /\ \A i \in DOMAIN selected : selected[i] \in Agents
  BY SelectionType
<1>4. waiting \subseteq Agents
  BY <1>3 DEF Members
<1>5. new \in Turn
  BY <1>2, <1>3, <1>4 DEF Turn
<1>6. Begun(new)
  BY <1>2 DEF Begun, Turn
<1>7. Planned(new)
  <2>1. /\ new.pc = "run" /\ new.results = <<>> /\ new.selected = selected
        /\ new.parallel = parallel /\ new.waiting = waiting
    BY <1>2 DEF Planned, Turn
  <2>2. CASE parallel
    <3>1. InParallel(new)
      BY <2>1, <2>2 DEF InParallel, Members
    <3> QED
      BY <2>1, <2>2, <3>1 DEF Planned
  <2>3. CASE ~parallel
    <3>1. InSequence(new)
      BY <2>1, <2>3, <1>3 DEF InSequence
    <3> QED
      BY <2>1, <2>3, <3>1 DEF Planned
  <2> QED
    BY <2>2, <2>3
<1>8. turn' = [turn EXCEPT ![t] = new]
  BY <1>1 DEF TypeInv, TypeOK
<1> HIDE DEF new
<1>9. /\ turn' \in [Turns -> Turn]
      /\ \A v \in Turns : Begun(turn'[v]) /\ Planned(turn'[v])
  BY <1>5, <1>6, <1>7, <1>8, OneTurn
<1> QED
  BY <1>9 DEF Routed, TypeInv, TypeOK

LEMMA AgentAnswersType ==
  ASSUME TypeInv, NEW t \in Turns, NEW a \in Agents, NEW output \in Outputs,
         AgentAnswers(t, a, output)
  PROVE  TypeInv'
<1> DEFINE old == turn[t].results
           results == Append(old, Answer(t, a, output))
           waiting == (turn[t].waiting \ {a}) \cup Following(t, Len(results))
           new == [turn[t] EXCEPT !.results = results, !.waiting = waiting]
<1>1. turn[t] \in Turn /\ turn[t].pc = "run" /\ Begun(turn[t]) /\ Planned(turn[t])
  BY DEF TypeInv, TypeOK, AgentAnswers
<1>2. /\ old \in Seq(Result) /\ results \in Seq(Result) /\ Len(results) = Len(old) + 1
      /\ DOMAIN old = 1..Len(old) /\ Len(old) \in Nat /\ DOMAIN results = 1..(Len(old) + 1)
      /\ \A k \in DOMAIN old : results[k] = old[k]
      /\ results[Len(old) + 1].agent = a
  BY <1>1, AnswerType DEF TypeInv, Turn, Answer
<1>3. /\ turn[t].selected \in Seq(Agents)
      /\ DOMAIN turn[t].selected = 1..Len(turn[t].selected)
      /\ Len(turn[t].selected) \in Nat
      /\ \A i \in DOMAIN turn[t].selected : turn[t].selected[i] \in Agents
  BY <1>1, SelectionType DEF Planned
<1>4. waiting \subseteq Agents
  BY <1>1, <1>2, <1>3 DEF Turn, Following
<1>5. new \in Turn
  BY <1>1, <1>2, <1>4 DEF Turn
<1>6. Begun(new)
  BY <1>1 DEF Begun, Turn
<1>7. Planned(new)
  <2>1. /\ new.pc = "run" /\ new.results = results /\ new.selected = turn[t].selected
        /\ new.parallel = turn[t].parallel /\ new.waiting = waiting
    BY <1>1 DEF Turn
  <2>2. CASE turn[t].parallel
    <3>1. InParallel(turn[t])
      BY <1>1, <2>2 DEF Planned
    <3>2. InParallel(new)
      BY <3>1, <2>1, <1>2, SMTT(20) DEF InParallel
    <3> QED
      BY <1>1, <2>1, <2>2, <3>2 DEF Planned
  <2>3. CASE ~turn[t].parallel
    <3>1. InSequence(turn[t])
      BY <1>1, <2>3 DEF Planned
    <3>2. turn[t].waiting = {a} /\ a = turn[t].selected[Len(old) + 1]
      BY <3>1 DEF InSequence, AgentAnswers
    <3>3. waiting = Following(t, Len(results)) /\ waiting # {}
      BY <3>2 DEF AgentAnswers
    <3>4. Len(results) < Len(turn[t].selected)
          /\ waiting = {turn[t].selected[Len(results) + 1]}
      BY <3>3 DEF Following
    <3>5. \A k \in DOMAIN results : results[k].agent = turn[t].selected[k]
      <4> TAKE k \in DOMAIN results
      <4>1. k \in DOMAIN old \/ k = Len(old) + 1
        BY <1>2
      <4> QED
        BY <4>1, <1>2, <3>1, <3>2 DEF InSequence
    <3>6. InSequence(new)
      BY <2>1, <3>4, <3>5 DEF InSequence
    <3> QED
      BY <1>1, <2>1, <2>3, <3>6 DEF Planned
  <2> QED
    BY <2>2, <2>3
<1>8. turn' = [turn EXCEPT ![t] = new]
  BY DEF AgentAnswers, TypeInv, TypeOK
<1> HIDE DEF new
<1>9. /\ turn' \in [Turns -> Turn]
      /\ \A v \in Turns : Begun(turn'[v]) /\ Planned(turn'[v])
  BY <1>5, <1>6, <1>7, <1>8, OneTurn
<1> QED
  BY <1>9 DEF AgentAnswers, TypeInv, TypeOK

LEMMA SpecialistsEscalateType ==
  ASSUME TypeInv, NEW t \in Turns, NEW a \in Agents, NEW output \in Outputs,
         SpecialistsEscalate(t, a, output)
  PROVE  TypeInv'
<1> DEFINE results == InOrder(t, Append(turn[t].results, Answer(t, a, output)))
           new == [turn[t] EXCEPT !.pc = "escalate", !.results = results,
                                  !.waiting = {"escalation_agent"}]
<1>1. turn[t] \in Turn /\ Begun(turn[t])
  BY DEF TypeInv, TypeOK
<1>2. Completes(t, a) /\ turn[t].pc = "run"
  BY DEF SpecialistsEscalate, Completes
<1>3. /\ turn[t].selected \in Selections
      /\ Append(turn[t].results, Answer(t, a, output)) \in Seq(Result)
      /\ Covers(turn[t], Append(turn[t].results, Answer(t, a, output)))
  BY <1>2, CompleteCovers
<1>4. results \in Seq(Result) /\ Follows(turn[t], results)
  BY <1>3, InOrderFollows
<1> HIDE DEF results
<1>5. new \in Turn
  BY <1>1, <1>4, OrchestratorConstants DEF Turn
<1>6. Begun(new)
  BY <1>1, <1>2 DEF Begun, Turn
<1>7. Planned(new)
  <2>1. new.pc = "escalate" /\ new.results = results /\ new.selected = turn[t].selected
    BY <1>1 DEF Turn
  <2>2. Follows(new, new.results)
    BY <2>1, <1>4 DEF Follows
  <2>3. "escalation_agent" \notin Members(new.selected)
    BY <2>1 DEF SpecialistsEscalate
  <2> QED
    BY <2>1, <2>2, <2>3, <1>3 DEF Planned
<1>8. turn' = [turn EXCEPT ![t] = new]
  BY DEF SpecialistsEscalate, TypeInv, TypeOK, results
<1> HIDE DEF new
<1>9. /\ turn' \in [Turns -> Turn]
      /\ \A v \in Turns : Begun(turn'[v]) /\ Planned(turn'[v])
  BY <1>5, <1>6, <1>7, <1>8, OneTurn
<1> QED
  BY <1>9 DEF SpecialistsEscalate, TypeInv, TypeOK

LEMMA CarriesOutType ==
  ASSUME TypeInv, NEW t \in Turns, turn[t].pc # "new", NEW results \in Seq(Result)
  PROVE  CarriesOut(t, results) \subseteq Ticket
<1>1. User(t) \in Users
  BY DEF TypeInv, Begun, User
<1>2. SUFFICES ASSUME NEW i \in DOMAIN results, NEW k \in DOMAIN results[i].proposals
               PROVE  [user |-> User(t), turn |-> t, agent |-> results[i].agent,
                       place |-> k] \in Ticket
  BY DEF CarriesOut, Executed
<1>3. results[i] \in Result
  OBVIOUS
<1>4. results[i].agent \in Agents /\ results[i].proposals \in Seq(Proposal)
  BY <1>3 DEF Result
<1>5. k \in Nat
  BY <1>4
<1> QED
  BY <1>1, <1>4, <1>5 DEF Ticket

LEMMA ConcludeType ==
  ASSUME TypeInv, NEW t \in Turns, turn[t].pc \in Open, NEW results \in Seq(Result),
         turn[t].selected \in Selections, OnePerAgent(results), Conclude(t, results)
  PROVE  TypeInv'
<1> DEFINE new == [turn[t] EXCEPT !.pc = "answered", !.results = results, !.waiting = {}]
<1>1. turn[t] \in Turn /\ Begun(turn[t]) /\ turn[t].pc # "new"
  BY DEF TypeInv, TypeOK, Open
<1>2. new \in Turn
  BY <1>1 DEF Turn
<1>3. Begun(new)
  BY <1>1 DEF Begun, Turn
<1>4. Planned(new)
  <2>1. new.pc = "answered" /\ new.results = results /\ new.selected = turn[t].selected
    BY <1>1 DEF Turn
  <2> QED
    BY <2>1 DEF Planned
<1>5. turn' = [turn EXCEPT ![t] = new]
  BY DEF Conclude, TypeInv, TypeOK
<1> HIDE DEF new
<1>6. /\ turn' \in [Turns -> Turn]
      /\ \A v \in Turns : Begun(turn'[v]) /\ Planned(turn'[v])
  BY <1>2, <1>3, <1>4, <1>5, OneTurn
<1>7. tickets' \in SUBSET Ticket
  BY <1>1, CarriesOutType DEF Conclude, TypeInv, TypeOK
<1>8. turn[t].state \in Record /\ turn[t].session \in SessionIds
  BY <1>1 DEF Turn
<1>9. sessions' \in [SessionIds -> Record] /\ displaced' \in SUBSET Turns
  BY <1>8 DEF Conclude, Saved, Record, TypeInv, TypeOK
<1> QED
  BY <1>6, <1>7, <1>9 DEF Conclude, TypeInv, TypeOK

\* The results of a plan that is through.
LEMMA SpecialistResults ==
  ASSUME TypeInv, NEW t \in Turns, NEW a \in Agents, NEW output \in Outputs,
         SpecialistsConclude(t, a, output)
  PROVE  LET results == InOrder(t, Append(turn[t].results, Answer(t, a, output))) IN
         /\ turn[t].pc = "run" /\ turn[t].selected \in Selections
         /\ results \in Seq(Result) /\ Follows(turn[t], results) /\ OnePerAgent(results)
<1> DEFINE results == InOrder(t, Append(turn[t].results, Answer(t, a, output)))
<1>1. Completes(t, a) /\ turn[t].pc = "run"
  BY DEF SpecialistsConclude, Completes
<1>2. /\ turn[t].selected \in Selections
      /\ Append(turn[t].results, Answer(t, a, output)) \in Seq(Result)
      /\ Covers(turn[t], Append(turn[t].results, Answer(t, a, output)))
  BY <1>1, CompleteCovers
<1>3. results \in Seq(Result) /\ Follows(turn[t], results)
  BY <1>2, InOrderFollows
<1>4. OnePerAgent(results)
  BY <1>2, <1>3, SelectionType DEF OnePerAgent, Follows
<1> QED
  BY <1>1, <1>2, <1>3, <1>4

\* The results of a plan with the escalation agent's after them.
LEMMA EscalationResults ==
  ASSUME TypeInv, NEW t \in Turns, NEW output \in Outputs, EscalationConcludes(t, output)
  PROVE  LET old == turn[t].results
             results == Append(old, Answer(t, "escalation_agent", output)) IN
         /\ turn[t].pc = "escalate" /\ turn[t].selected \in Selections
         /\ Follows(turn[t], old)
         /\ old \in Seq(Result) /\ results \in Seq(Result) /\ OnePerAgent(results)
         /\ DOMAIN old = 1..Len(old) /\ Len(old) \in Nat /\ DOMAIN results = 1..(Len(old) + 1)
         /\ \A k \in 1..Len(old) : results[k] = old[k]
         /\ results[Len(old) + 1] = Answer(t, "escalation_agent", output)
         /\ Len(results) = Len(old) + 1
<1> DEFINE old == turn[t].results
           last == Answer(t, "escalation_agent", output)
           results == Append(old, last)
<1>1. /\ turn[t].pc = "escalate" /\ turn[t].selected \in Selections
      /\ Follows(turn[t], old) /\ "escalation_agent" \notin Members(turn[t].selected)
  BY DEF EscalationConcludes, TypeInv, Planned
<1>2. last \in Result /\ last.agent = "escalation_agent"
  BY AnswerType, OrchestratorConstants DEF TypeInv, Answer
<1>3. old \in Seq(Result)
  BY DEF TypeInv, TypeOK, Turn
<1> HIDE DEF last, old
<1>4. /\ results \in Seq(Result) /\ Len(results) = Len(old) + 1
      /\ DOMAIN old = 1..Len(old) /\ Len(old) \in Nat /\ DOMAIN results = 1..(Len(old) + 1)
      /\ \A k \in 1..Len(old) : results[k] = old[k]
      /\ results[Len(old) + 1] = last
  BY <1>2, <1>3
<1>5. \A k \in 1..Len(old) : results[k].agent \in Members(turn[t].selected)
                             /\ results[k].agent = turn[t].selected[k]
                             /\ k \in DOMAIN turn[t].selected
  BY <1>1, <1>4 DEF Follows, Members
<1>6. OnePerAgent(results)
  <2> SUFFICES ASSUME NEW i \in DOMAIN results, NEW k \in DOMAIN results,
                      results[i].agent = results[k].agent
               PROVE  i = k
    BY DEF OnePerAgent
  <2>1. (i \in 1..Len(old) \/ i = Len(old) + 1) /\ (k \in 1..Len(old) \/ k = Len(old) + 1)
    BY <1>4
  <2>2. CASE i \in 1..Len(old) /\ k \in 1..Len(old)
    BY <2>2, <1>5, <1>1, SelectionType
  <2>3. CASE ~(i \in 1..Len(old) /\ k \in 1..Len(old))
    BY <2>1, <2>3, <1>4, <1>5, <1>2, <1>1
  <2> QED
    BY <2>2, <2>3
<1> QED
  BY <1>1, <1>3, <1>4, <1>6 DEF last, old

LEMMA ModelFailsType ==
  ASSUME TypeInv, NEW t \in Turns, ModelFails(t) \/ StrayEnds(t)
  PROVE  TypeInv'
<1>1. turn[t] \in Turn /\ Begun(turn[t]) /\ turn[t].pc # "new"
  BY DEF TypeInv, TypeOK, ModelFails, StrayEnds, Open
<1>2. PICK waiting \in SUBSET Agents :
        turn' = [turn EXCEPT ![t] = [turn[t] EXCEPT !.pc = "error", !.waiting = waiting]]
  <2>1. turn[t].waiting \in SUBSET Agents
    BY <1>1 DEF Turn
  <2>2. CASE ModelFails(t) /\ turn[t].pc = "route" /\ turn' = [turn EXCEPT ![t].pc = "error"]
    <3>1. turn' = [turn EXCEPT ![t] = [turn[t] EXCEPT !.pc = "error", !.waiting = turn[t].waiting]]
      BY <2>2, <1>1 DEF TypeInv, TypeOK, Turn
    <3> QED
      BY <2>1, <3>1
  <2>3. ASSUME NEW a \in turn[t].waiting,
               turn' = [turn EXCEPT ![t].pc = "error", ![t].waiting = @ \ {a}]
        PROVE  turn' = [turn EXCEPT ![t] = [turn[t] EXCEPT !.pc = "error",
                                              !.waiting = turn[t].waiting \ {a}]]
    BY <2>3 DEF TypeInv, TypeOK
  <2>4. ASSUME NEW a \in turn[t].waiting, turn[t].pc = "error",
               turn' = [turn EXCEPT ![t].waiting = @ \ {a}]
        PROVE  turn' = [turn EXCEPT ![t] = [turn[t] EXCEPT !.pc = "error",
                                              !.waiting = turn[t].waiting \ {a}]]
    BY <2>4, <1>1 DEF TypeInv, TypeOK, Turn
  <2> QED
    BY <2>1, <2>2, <2>3, <2>4 DEF ModelFails, StrayEnds
<1> DEFINE new == [turn[t] EXCEPT !.pc = "error", !.waiting = waiting]
<1>3. new \in Turn /\ Begun(new) /\ Planned(new)
  BY <1>1 DEF Turn, Begun, Planned
<1> HIDE DEF new
<1>4. /\ turn' \in [Turns -> Turn]
      /\ \A v \in Turns : Begun(turn'[v]) /\ Planned(turn'[v])
  BY <1>2, <1>3, OneTurn DEF new
<1> QED
  BY <1>4 DEF ModelFails, StrayEnds, TypeInv, TypeOK

\* The disjuncts of Next.
LEMMA Steps ==
  ASSUME TypeInv, Next
  PROVE  \E t \in Turns :
           \/ \E u \in Users, s \in SessionIds : Receive(t, u, s)
           \/ Routed(t) \/ ModelFails(t) \/ StrayEnds(t)
           \/ \E a \in Agents, output \in Outputs :
                \/ AgentAnswers(t, a, output)
                \/ SpecialistsEscalate(t, a, output)
                \/ SpecialistsConclude(t, a, output)
           \/ \E output \in Outputs : EscalationConcludes(t, output)
<1>1. \A t \in Turns : turn[t].waiting \subseteq Agents
  BY DEF TypeInv, TypeOK, Turn
<1> QED
  BY <1>1 DEF Next, Wake

LEMMA TypeStep ==
  ASSUME TypeInv, [Next]_vars
  PROVE  TypeInv'
<1>1. CASE UNCHANGED vars
  BY <1>1 DEF vars, TypeInv, TypeOK
<1>2. ASSUME NEW t \in Turns, NEW a \in Agents, NEW output \in Outputs,
             SpecialistsConclude(t, a, output)
      PROVE  TypeInv'
  BY <1>2, SpecialistResults, ConcludeType DEF SpecialistsConclude, Open
<1>3. ASSUME NEW t \in Turns, NEW output \in Outputs, EscalationConcludes(t, output)
      PROVE  TypeInv'
  BY <1>3, EscalationResults, ConcludeType DEF EscalationConcludes, Open
<1>4. CASE Next
  BY <1>4, <1>2, <1>3, Steps, ReceiveType, RoutedType, AgentAnswersType,
     SpecialistsEscalateType, ModelFailsType
<1> QED
  BY <1>1, <1>4

LEMMA TypeInit ==
  ASSUME Init
  PROVE  TypeInv
<1>1. PICK s \in SessionIds :
        turn = [t \in Turns |->
                  [pc |-> "new", session |-> s, state |-> NoRecord, selected |-> <<>>,
                   parallel |-> FALSE, waiting |-> {}, results |-> <<>>]]
  BY DEF Init
<1>2. NoRecord \in Record
  BY DEF NoRecord, Record
<1>3. turn \in [Turns -> Turn]
  <2>1. <<>> \in Seq(Agents) /\ <<>> \in Seq(Result)
    OBVIOUS
  <2> QED
    BY <1>1, <1>2, <2>1 DEF Turn
<1>4. \A t \in Turns : Begun(turn[t]) /\ Planned(turn[t])
  BY <1>1 DEF Begun, Planned
<1> QED
  BY <1>2, <1>3, <1>4 DEF Init, TypeInv, TypeOK

\* Types: every handler leaves records, tickets, results and the agents under
\* way as they should be, and no ticket is made out to an unknown user.
THEOREM OrchestratorTypeCorrect == Spec => []TypeOK
<1>1. Init => TypeInv
  BY TypeInit
<1>2. TypeInv /\ [Next]_vars => TypeInv'
  BY TypeStep
<1>3. TypeInv => TypeOK
  BY DEF TypeInv
<1> QED
  BY <1>1, <1>2, <1>3, PTL DEF Spec

-----------------------------------------------------------------------------
(* Kinds of steps: a turn begins, moves on, or concludes. *)

Others(t) == \A v \in Turns \ {t} : turn'[v] = turn[v]

Begins(t, u, s) ==
  /\ turn[t].pc = "new" /\ turn'[t].pc = "route"
  /\ turn'[t].session = s /\ turn'[t].results = turn[t].results
  /\ turn'[t].state = [Loaded(u, s) EXCEPT !.turns = @ \cup {t}]
  /\ Others(t)

Moves(t) ==
  /\ turn[t].pc \in Open \cup {"error"} /\ turn'[t].pc \in Open \cup {"error"}
  /\ turn'[t].pc \in Open => turn[t].pc \in Open
  /\ turn'[t].session = turn[t].session /\ turn'[t].state = turn[t].state
  /\ Others(t)
  /\ UNCHANGED <<sessions, tickets, displaced, overlapped>>

\* What ResultsFollowPlan and EscalationsHandled ask of an answered turn.
AsPlanned(selected, results) ==
  [i \in DOMAIN results |-> results[i].agent]
    \in {selected, Append(selected, "escalation_agent")}

Handled(selected, results) ==
  \A i \in DOMAIN results :
    LET last == results[Len(results)] IN
    results[i].escalates /\ "escalation_agent" \notin Members(selected)
      => /\ last.agent = "escalation_agent" /\ last.proposals # <<>>
         /\ results[i].agent \in last.given \cup {"escalation_agent"}

Concludes(t, results) ==
  /\ turn[t].pc \in Open /\ turn'[t].pc = "answered"
  /\ turn'[t].session = turn[t].session /\ turn'[t].state = turn[t].state
  /\ turn'[t].selected = turn[t].selected /\ turn'[t].results = results
  /\ Others(t)
  /\ AsPlanned(turn[t].selected, results) /\ Handled(turn[t].selected, results)
  /\ Conclude(t, results)

LEMMA ReceiveBegins ==
  ASSUME TypeInv, NEW t \in Turns, NEW u \in Users, NEW s \in SessionIds, Receive(t, u, s)
  PROVE  Begins(t, u, s)
<1>1. turn \in [Turns -> Turn] /\ turn[t] \in Turn
  BY DEF TypeInv, TypeOK
<1> QED
  BY <1>1 DEF Receive, Begins, Others, Turn

LEMMA RoutedMoves ==
  ASSUME TypeInv, NEW t \in Turns, Routed(t)
  PROVE  Moves(t)
<1>1. turn \in [Turns -> Turn] /\ turn[t] \in Turn
  BY DEF TypeInv, TypeOK
<1>2. PICK selected \in Selections, parallel \in BOOLEAN :
        turn' = [turn EXCEPT
            ![t].pc = "run", ![t].selected = selected, ![t].parallel = parallel,
            ![t].waiting = IF parallel THEN Members(selected) ELSE {selected[1]}]
  BY RoutedPlan
<1> QED
  BY <1>1, <1>2 DEF Routed, Moves, Others, Open, Turn

LEMMA AgentAnswersMoves ==
  ASSUME TypeInv, NEW t \in Turns, NEW a \in Agents, NEW output \in Outputs,
         AgentAnswers(t, a, output) \/ SpecialistsEscalate(t, a, output)
  PROVE  Moves(t)
<1>1. turn \in [Turns -> Turn] /\ turn[t] \in Turn
  BY DEF TypeInv, TypeOK
<1>2. CASE AgentAnswers(t, a, output)
  BY <1>1, <1>2 DEF AgentAnswers, Moves, Others, Open, Turn
<1>3. CASE SpecialistsEscalate(t, a, output)
  BY <1>1, <1>3 DEF SpecialistsEscalate, Completes, Moves, Others, Open, Turn
<1> QED
  BY <1>2, <1>3

LEMMA ModelFailsMoves ==
  ASSUME TypeInv, NEW t \in Turns, ModelFails(t) \/ StrayEnds(t)
  PROVE  Moves(t)
<1>1. turn \in [Turns -> Turn] /\ turn[t] \in Turn
  BY DEF TypeInv, TypeOK
<1>2. CASE ModelFails(t)
  BY <1>1, <1>2 DEF ModelFails, Moves, Others, Open, Turn
<1>3. CASE StrayEnds(t)
  BY <1>1, <1>3 DEF StrayEnds, Moves, Others, Open, Turn
<1> QED
  BY <1>2, <1>3

LEMMA ConcludeEffect ==
  ASSUME TypeInv, NEW t \in Turns, NEW results, Conclude(t, results)
  PROVE  /\ turn'[t].pc = "answered" /\ turn'[t].results = results
         /\ turn'[t].session = turn[t].session /\ turn'[t].state = turn[t].state
         /\ turn'[t].selected = turn[t].selected
         /\ Others(t)
<1>1. turn \in [Turns -> Turn] /\ turn[t] \in Turn
  BY DEF TypeInv, TypeOK
<1> QED
  BY <1>1 DEF Conclude, Others, Turn

LEMMA SpecialistsConcludes ==
  ASSUME TypeInv, NEW t \in Turns, NEW a \in Agents, NEW output \in Outputs,
         SpecialistsConclude(t, a, output)
  PROVE  \E results \in Seq(Result) : OnePerAgent(results) /\ Concludes(t, results)
<1> DEFINE results == InOrder(t, Append(turn[t].results, Answer(t, a, output)))
<1>1. /\ turn[t].pc = "run" /\ turn[t].selected \in Selections
      /\ results \in Seq(Result) /\ Follows(turn[t], results) /\ OnePerAgent(results)
  BY SpecialistResults
<1>2. /\ "escalation_agent" \in Members(turn[t].selected) \/ ~AskedToEscalate(results)
      /\ Conclude(t, results)
  BY DEF SpecialistsConclude
<1> HIDE DEF results
<1>3. AsPlanned(turn[t].selected, results)
  <2>1. turn[t].selected = [i \in DOMAIN turn[t].selected |-> turn[t].selected[i]]
    BY <1>1 DEF Selections
  <2>2. [i \in DOMAIN results |-> results[i].agent] = turn[t].selected
    BY <1>1, <2>1 DEF Follows
  <2> QED
    BY <2>2 DEF AsPlanned
<1>4. Handled(turn[t].selected, results)
  BY <1>2 DEF Handled, AskedToEscalate
<1>5. Concludes(t, results)
  BY <1>1, <1>2, <1>3, <1>4, ConcludeEffect DEF Concludes, Open
<1> QED
  BY <1>1, <1>5

LEMMA EscalationConcludesTurn ==
  ASSUME TypeInv, NEW t \in Turns, NEW output \in Outputs, EscalationConcludes(t, output)
  PROVE  \E results \in Seq(Result) : OnePerAgent(results) /\ Concludes(t, results)
<1> DEFINE old == turn[t].results
           last == Answer(t, "escalation_agent", output)
           results == Append(old, last)
           selected == turn[t].selected
<1>1. /\ turn[t].pc = "escalate" /\ selected \in Selections
      /\ Follows(turn[t], old)
      /\ results \in Seq(Result) /\ OnePerAgent(results)
      /\ DOMAIN old = 1..Len(old) /\ Len(old) \in Nat /\ DOMAIN results = 1..(Len(old) + 1)
      /\ \A k \in 1..Len(old) : results[k] = old[k]
      /\ results[Len(old) + 1] = last
      /\ Len(results) = Len(old) + 1
  BY EscalationResults
<1>2. Conclude(t, results)
  BY DEF EscalationConcludes
<1>3. last.agent = "escalation_agent" /\ last.proposals # <<>>
  <2>1. Proposed("escalation_agent", output.proposals) # <<>>
    BY DEF Proposed
  <2> QED
    BY <2>1 DEF Answer
<1>4. last.given = {old[i].agent : i \in DOMAIN old}
  BY <1>1 DEF Answer, Given
<1> HIDE DEF last, old, results
<1>5. AsPlanned(selected, results)
  <2>1. /\ selected \in Seq(Agents) /\ DOMAIN selected = 1..Len(selected)
        /\ Len(selected) \in Nat
    BY <1>1, SelectionType
  <2>2. DOMAIN old = DOMAIN selected /\ \A i \in DOMAIN old : old[i].agent = selected[i]
    BY <1>1 DEF Follows, old
  <2>3. Len(old) = Len(selected)
    BY <2>1, <2>2, <1>1
  <2>4. /\ Append(selected, "escalation_agent") \in Seq(Agents)
        /\ DOMAIN Append(selected, "escalation_agent") = 1..(Len(selected) + 1)
        /\ \A i \in 1..Len(selected) : Append(selected, "escalation_agent")[i] = selected[i]
        /\ Append(selected, "escalation_agent")[Len(selected) + 1] = "escalation_agent"
    BY <2>1, OrchestratorConstants
  <2>5. \A i \in 1..(Len(selected) + 1) :
          results[i].agent = Append(selected, "escalation_agent")[i]
    <3> TAKE i \in 1..(Len(selected) + 1)
    <3>1. i \in 1..Len(selected) \/ i = Len(selected) + 1
      BY <2>1
    <3> QED
      BY <3>1, <2>1, <2>2, <2>3, <2>4, <1>1, <1>3
  <2>6. Append(selected, "escalation_agent")
          = [i \in 1..(Len(selected) + 1) |-> Append(selected, "escalation_agent")[i]]
    BY <2>1, <2>4
  <2>7. [i \in DOMAIN results |-> results[i].agent] = Append(selected, "escalation_agent")
    BY <2>3, <2>5, <2>6, <1>1
  <2> QED
    BY <2>7 DEF AsPlanned
<1>6. Handled(selected, results)
  <2>1. \A i \in DOMAIN results : results[i].agent \in last.given \cup {"escalation_agent"}
    <3> TAKE i \in DOMAIN results
    <3>1. i \in 1..Len(old) \/ i = Len(old) + 1
      BY <1>1
    <3> QED
      BY <3>1, <1>1, <1>3, <1>4
  <2> QED
    BY <2>1, <1>1, <1>3 DEF Handled
<1>7. Concludes(t, results)
  BY <1>1, <1>2, <1>5, <1>6, ConcludeEffect DEF Concludes, Open
<1> QED
  BY <1>1, <1>7

LEMMA StepKinds ==
  ASSUME TypeInv, Next
  PROVE  \E t \in Turns :
           \/ \E u \in Users, s \in SessionIds : Receive(t, u, s) /\ Begins(t, u, s)
           \/ Moves(t)
           \/ \E results \in Seq(Result) : OnePerAgent(results) /\ Concludes(t, results)
BY Steps, ReceiveBegins, RoutedMoves, AgentAnswersMoves, ModelFailsMoves,
   SpecialistsConcludes, EscalationConcludesTurn

-----------------------------------------------------------------------------
(* The response *)

\* A step that leaves answered turns alone, or answers one as it should.
LEMMA ResponseStep ==
  ASSUME TypeInv, ResultsFollowPlan /\ EscalationsHandled, [Next]_vars
  PROVE  ResultsFollowPlan' /\ EscalationsHandled'
<1> DEFINE Good(v) == turn[v].pc = "answered" => /\ AsPlanned(turn[v].selected, turn[v].results)
                                                 /\ Handled(turn[v].selected, turn[v].results)
<1>1. (\A v \in Turns : Good(v)) <=> ResultsFollowPlan /\ EscalationsHandled
  BY DEF ResultsFollowPlan, EscalationsHandled, AsPlanned, Handled
<1>2. (\A v \in Turns : Good(v)') <=> ResultsFollowPlan' /\ EscalationsHandled'
  BY DEF ResultsFollowPlan, EscalationsHandled, AsPlanned, Handled, Members
<1>3. CASE UNCHANGED vars
  BY <1>1, <1>2, <1>3 DEF vars, AsPlanned, Handled, Members
<1>4. CASE Next
  <2>1. PICK t \in Turns :
           \/ \E u \in Users, s \in SessionIds : Begins(t, u, s)
           \/ Moves(t)
           \/ \E results \in Seq(Result) : Concludes(t, results)
    BY <1>4, StepKinds
  <2>2. \A v \in Turns \ {t} : turn'[v] = turn[v]
    BY <2>1 DEF Begins, Moves, Concludes, Others
  <2>3. \A v \in Turns \ {t} : Good(v)'
    BY <2>2, <1>1
  <2>4. Good(t)'
    <3>1. CASE \E results \in Seq(Result) : Concludes(t, results)
      BY <3>1 DEF Concludes
    <3>2. CASE ~\E results \in Seq(Result) : Concludes(t, results)
      BY <3>2, <2>1 DEF Begins, Moves, Open
    <3> QED
      BY <3>1, <3>2
  <2> QED
    BY <2>3, <2>4, <1>2
<1> QED
  BY <1>3, <1>4

-----------------------------------------------------------------------------
(* Tickets *)

\* Turns other than the one that moves keep their tickets.
LEMMA OtherTickets ==
  ASSUME NEW t \in Turns, NEW v \in Turns, turn'[v] = turn[v]
  PROVE  /\ DOMAIN turn'[v].results = DOMAIN turn[v].results
         /\ \A i \in DOMAIN turn[v].results :
              DOMAIN turn'[v].results[i].proposals = DOMAIN turn[v].results[i].proposals
         /\ \A i, k : (Unheld(v, i, k)' <=> Unheld(v, i, k)) /\ TicketFor(v, i, k)' = TicketFor(v, i, k)
BY DEF Unheld, TicketFor, User

\* Of a turn that is not answered now or next nothing is asked.
LEMMA TicketsKept ==
  ASSUME TypeInv, TicketInv, NEW t \in Turns, Others(t), tickets' = tickets,
         turn[t].pc # "answered", turn'[t].pc # "answered"
  PROVE  TicketInv'
<1>1. \A v \in Turns : \A i \in DOMAIN turn'[v].results :
        \A k \in DOMAIN turn'[v].results[i].proposals :
          Unheld(v, i, k)' => TicketFor(v, i, k)' \in tickets'
  <2> TAKE v \in Turns
  <2>1. CASE v = t
    BY <2>1 DEF Unheld
  <2>2. CASE v # t
    BY <2>2, OtherTickets DEF Others, TicketInv
  <2> QED
    BY <2>1, <2>2
<1>2. \A x \in tickets' : \E i \in DOMAIN turn'[x.turn].results :
        Unheld(x.turn, i, x.place)' /\ x = TicketFor(x.turn, i, x.place)'
  <2> TAKE x \in tickets'
  <2>1. PICK i \in DOMAIN turn[x.turn].results :
          Unheld(x.turn, i, x.place) /\ x = TicketFor(x.turn, i, x.place)
    BY DEF TicketInv
  <2>2. x.turn \in Turns /\ x.turn # t
    BY <2>1 DEF Unheld, TypeInv, TypeOK, Ticket
  <2>3. turn'[x.turn] = turn[x.turn]
    BY <2>2 DEF Others
  <2> QED
    BY <2>1, <2>2, <2>3, OtherTickets
<1> QED
  BY <1>1, <1>2 DEF TicketInv

\* A turn that is answered gets the tickets of its unheld proposals.
LEMMA TicketsIssued ==
  ASSUME TypeInv, TypeInv', TicketInv, NEW t \in Turns, NEW results \in Seq(Result),
         Concludes(t, results)
  PROVE  TicketInv'
<1>1. /\ turn[t].pc # "answered" /\ turn'[t].pc = "answered"
      /\ turn'[t].results = results /\ User(t)' = User(t)
      /\ tickets' = tickets \cup CarriesOut(t, results)
  BY DEF Concludes, Open, Conclude, User
<1>2. \A v \in Turns : \A i \in DOMAIN turn'[v].results :
        \A k \in DOMAIN turn'[v].results[i].proposals :
          Unheld(v, i, k)' => TicketFor(v, i, k)' \in tickets'
  <2> TAKE v \in Turns
  <2>1. CASE v # t
    BY <2>1, <1>1, OtherTickets DEF Concludes, Others, TicketInv
  <2>2. CASE v = t
    <3> SUFFICES ASSUME NEW i \in DOMAIN results, NEW k \in DOMAIN results[i].proposals,
                        results[i].proposals[k] = "ticket"
                 PROVE  [user |-> User(t), turn |-> t, agent |-> results[i].agent,
                         place |-> k] \in CarriesOut(t, results)
      BY <2>2, <1>1 DEF Unheld, TicketFor
    <3> QED
      BY DEF CarriesOut, Executed
  <2> QED
    BY <2>1, <2>2
<1>3. \A x \in tickets' : \E i \in DOMAIN turn'[x.turn].results :
        Unheld(x.turn, i, x.place)' /\ x = TicketFor(x.turn, i, x.place)'
  <2> TAKE x \in tickets'
  <2>1. CASE x \in tickets
    <3>1. PICK i \in DOMAIN turn[x.turn].results :
            Unheld(x.turn, i, x.place) /\ x = TicketFor(x.turn, i, x.place)
      BY <2>1 DEF TicketInv
    <3>2. x.turn \in Turns /\ x.turn # t
      BY <2>1, <3>1, <1>1 DEF Unheld, TypeInv, TypeOK, Ticket
    <3>3. turn'[x.turn] = turn[x.turn]
      BY <3>2 DEF Concludes, Others
    <3> QED
      BY <3>1, <3>2, <3>3, OtherTickets
  <2>2. CASE x \in CarriesOut(t, results)
    <3>1. \E i \in DOMAIN results : \E k \in DOMAIN results[i].proposals :
            /\ results[i].proposals[k] = "ticket"
            /\ x = [user |-> User(t), turn |-> t, agent |-> results[i].agent, place |-> k]
      BY <2>2 DEF CarriesOut, Executed
    <3> PICK i \in DOMAIN results : \E k \in DOMAIN results[i].proposals :
          /\ results[i].proposals[k] = "ticket"
          /\ x = [user |-> User(t), turn |-> t, agent |-> results[i].agent, place |-> k]
      BY <3>1
    <3> PICK k \in DOMAIN results[i].proposals :
          /\ results[i].proposals[k] = "ticket"
          /\ x = [user |-> User(t), turn |-> t, agent |-> results[i].agent, place |-> k]
      OBVIOUS
    <3>2. x.turn = t /\ x.place = k
      OBVIOUS
    <3>3. Unheld(t, i, k)' /\ x = TicketFor(t, i, k)'
      BY <1>1 DEF Unheld, TicketFor
    <3> QED
      BY <3>2, <3>3, <1>1
  <2> QED
    BY <2>1, <2>2, <1>1
<1> QED
  BY <1>2, <1>3 DEF TicketInv

LEMMA TicketStep ==
  ASSUME TypeInv, TypeInv', TicketInv, [Next]_vars
  PROVE  TicketInv'
<1>1. CASE UNCHANGED vars
  BY <1>1 DEF vars, TicketInv, Unheld, TicketFor, User
<1>2. ASSUME NEW t \in Turns, NEW u \in Users, NEW s \in SessionIds,
             Receive(t, u, s), Begins(t, u, s)
      PROVE  TicketInv'
  BY <1>2, TicketsKept DEF Begins, Receive
<1>3. ASSUME NEW t \in Turns, Moves(t)
      PROVE  TicketInv'
  BY <1>3, TicketsKept DEF Moves, Open
<1>4. CASE Next
  BY <1>4, <1>2, <1>3, StepKinds, TicketsIssued
<1> QED
  BY <1>1, <1>4

LEMMA TicketsProposed ==
  ASSUME TypeInv, TicketInv
  PROVE  TicketsAreProposed
<1>1. ASSUME NEW t \in Turns, NEW i \in DOMAIN turn[t].results,
             NEW k \in DOMAIN turn[t].results[i].proposals
      PROVE  TicketFor(t, i, k) \in tickets <=> Unheld(t, i, k)
  <2>1. Unheld(t, i, k) => TicketFor(t, i, k) \in tickets
    BY DEF TicketInv
  <2>2. ASSUME TicketFor(t, i, k) \in tickets
        PROVE  Unheld(t, i, k)
    <3> DEFINE x == TicketFor(t, i, k)
    <3>1. x.turn = t /\ x.place = k /\ x.agent = turn[t].results[i].agent
      BY DEF TicketFor
    <3>2. PICK n \in DOMAIN turn[t].results : Unheld(t, n, k) /\ x = TicketFor(t, n, k)
      BY <2>2, <3>1 DEF TicketInv
    <3>3. turn[t].results[n].agent = turn[t].results[i].agent
      BY <3>1, <3>2 DEF TicketFor
    <3>4. OnePerAgent(turn[t].results)
      BY <3>2 DEF TypeInv, Planned, Unheld
    <3> QED
      BY <3>2, <3>3, <3>4 DEF OnePerAgent
  <2> QED
    BY <2>1, <2>2
<1>2. ASSUME NEW x \in tickets
      PROVE  \E i \in DOMAIN turn[x.turn].results :
               LET r == turn[x.turn].results[i] IN
               x.user = User(x.turn) /\ x.agent = r.agent /\ x.place \in DOMAIN r.proposals
  <2>1. PICK i \in DOMAIN turn[x.turn].results :
          Unheld(x.turn, i, x.place) /\ x = TicketFor(x.turn, i, x.place)
    BY DEF TicketInv
  <2>2. x.user = User(x.turn) /\ x.agent = turn[x.turn].results[i].agent
    BY <2>1 DEF TicketFor
  <2> QED
    BY <2>1, <2>2 DEF Unheld
<1> QED
  BY <1>1, <1>2 DEF TicketsAreProposed, TicketFor, Unheld

-----------------------------------------------------------------------------
(* Sessions *)

\* What a turn that begins has loaded.
LEMMA LoadedTurns ==
  ASSUME TypeInv, RecordsApart, NEW t \in Turns, NEW u \in Users, NEW s \in SessionIds,
         Begins(t, u, s)
  PROVE  /\ User(t)' = u /\ t \in turn'[t].state.turns
         /\ sessions[s].user = u => sessions[s].turns \subseteq turn'[t].state.turns
         /\ \A v \in turn'[t].state.turns :
              v # t => turn[v].pc # "new" /\ turn[v].session = s /\ User(v) = u
<1>1. sessions[s] \in Record
  BY DEF TypeInv, TypeOK
<1>2. /\ Loaded(u, s) \in Record /\ Loaded(u, s).user = u
      /\ Loaded(u, s).turns = IF sessions[s].user = u THEN sessions[s].turns ELSE {}
  BY <1>1 DEF Loaded, Record
<1>3. /\ turn'[t].state.user = u
      /\ turn'[t].state.turns = Loaded(u, s).turns \cup {t}
  BY <1>2 DEF Begins, Record
<1>4. User(t)' = u
  BY <1>3 DEF User
<1>5. ASSUME NEW v \in turn'[t].state.turns, v # t
      PROVE  turn[v].pc # "new" /\ turn[v].session = s /\ User(v) = u
  <2>1. sessions[s].user = u /\ v \in sessions[s].turns
    BY <1>2, <1>3, <1>5
  <2> QED
    BY <2>1 DEF RecordsApart
<1> QED
  BY <1>2, <1>3, <1>4, <1>5

LEMMA BeginsHistory ==
  ASSUME TypeInv, HistoryInv, NEW t \in Turns, NEW u \in Users, NEW s \in SessionIds,
         Receive(t, u, s), Begins(t, u, s)
  PROVE  HistoryInv'
<1>1. /\ turn[t].pc = "new" /\ turn'[t].pc = "route" /\ turn'[t].session = s
      /\ \A v \in Turns \ {t} : turn'[v] = turn[v] /\ User(v)' = User(v)
  BY DEF Begins, Others, User
<1>2. /\ sessions' = sessions /\ displaced' = displaced /\ overlapped \subseteq overlapped'
      /\ sessions \in [SessionIds -> Record]
  BY DEF Receive, TypeInv, TypeOK
<1>3. /\ User(t)' = u /\ t \in turn'[t].state.turns
      /\ sessions[s].user = u => sessions[s].turns \subseteq turn'[t].state.turns
      /\ \A v \in turn'[t].state.turns :
           v # t => turn[v].pc # "new" /\ turn[v].session = s /\ User(v) = u
  BY LoadedTurns DEF HistoryInv
<1>4. /\ \A w \in SessionIds : sessions[w].turns \subseteq Turns
      /\ \A v \in Turns : turn[v].state.turns \subseteq Turns
      /\ turn'[t].state.turns \subseteq Turns
  <2>1. \A v \in Turns : turn[v] \in Turn
    BY DEF TypeInv, TypeOK
  <2>2. TypeInv'
    BY ReceiveType
  <2>3. turn'[t] \in Turn
    BY <2>2 DEF TypeInv, TypeOK
  <2> QED
    BY <1>2, <2>1, <2>3 DEF Turn, Record
<1>5. RecordsApart'
  <2>1. \A w \in SessionIds : \A v \in sessions'[w].turns :
          turn'[v].pc # "new" /\ turn'[v].session = w /\ User(v)' = sessions'[w].user
    BY <1>1, <1>2, <1>4 DEF HistoryInv, RecordsApart
  <2>2. \A z \in Turns : \A v \in turn'[z].state.turns :
          turn'[v].pc # "new" /\ turn'[v].session = turn'[z].session /\ User(v)' = User(z)'
    <3> TAKE z \in Turns
    <3>1. CASE z = t
      BY <3>1, <1>1, <1>3, <1>4
    <3>2. CASE z # t
      BY <3>2, <1>1, <1>4 DEF HistoryInv, RecordsApart
    <3> QED
      BY <3>1, <3>2
  <2> QED
    BY <2>1, <2>2 DEF RecordsApart
<1>6. OpenOverlap'
  <2> SUFFICES ASSUME NEW z \in Turns, NEW v \in Turns, z # v,
                      turn'[z].pc \in Open, turn'[v].pc \in Open,
                      turn'[z].session = turn'[v].session
               PROVE  z \in overlapped'
    BY DEF OpenOverlap
  <2>1. CASE z = t
    <3>1. v \in {x \in Turns : turn[x].session = s /\ turn[x].pc \in Open}
      BY <2>1, <1>1
    <3> QED
      BY <2>1, <3>1 DEF Receive
  <2>2. CASE v = t
    <3>1. z \in {x \in Turns : turn[x].session = s /\ turn[x].pc \in Open}
      BY <2>2, <1>1
    <3> QED
      BY <2>2, <3>1 DEF Receive
  <2>3. CASE z # t /\ v # t
    BY <2>3, <1>1, <1>2 DEF HistoryInv, OpenOverlap
  <2> QED
    BY <2>1, <2>2, <2>3
<1>7. OpenKnows'
  <2> SUFFICES ASSUME NEW z \in Turns, turn'[z].pc \in Open
               PROVE  /\ z \in turn'[z].state.turns
                      /\ \A v \in Turns \ (displaced' \cup overlapped') :
                           /\ turn'[v].pc = "answered" /\ turn'[v].session = turn'[z].session
                           /\ User(v)' = User(z)'
                           => v \in turn'[z].state.turns
    BY DEF OpenKnows
  <2>1. CASE z # t
    BY <2>1, <1>1, <1>2 DEF HistoryInv, OpenKnows
  <2>2. CASE z = t
    <3> SUFFICES ASSUME NEW v \in Turns \ (displaced' \cup overlapped'),
                        turn'[v].pc = "answered", turn'[v].session = s, User(v)' = u
                 PROVE  v \in turn'[t].state.turns
      BY <2>2, <1>1, <1>3
    <3>1. v # t /\ turn[v].pc = "answered" /\ turn[v].session = s /\ User(v) = u
      BY <1>1
    <3>2. v \in sessions[s].turns
      BY <3>1, <1>2 DEF HistoryInv, TurnsRemembered
    <3> QED
      BY <3>1, <3>2, <1>3 DEF HistoryInv, RecordsApart
  <2> QED
    BY <2>1, <2>2
<1>8. TurnsRemembered'
  BY <1>1, <1>2 DEF HistoryInv, TurnsRemembered
<1> QED
  BY <1>5, <1>6, <1>7, <1>8 DEF HistoryInv

LEMMA MovesHistory ==
  ASSUME TypeInv, HistoryInv, NEW t \in Turns, Moves(t)
  PROVE  HistoryInv'
<1>1. \A v \in Turns :
        /\ turn'[v].state = turn[v].state /\ turn'[v].session = turn[v].session
        /\ User(v)' = User(v)
        /\ turn'[v].pc \in Open => turn[v].pc \in Open
        /\ turn[v].pc # "new" => turn'[v].pc # "new"
        /\ turn'[v].pc = "answered" => turn[v].pc = "answered"
  BY DEF Moves, Others, Open, User
<1>2. sessions' = sessions /\ displaced' = displaced /\ overlapped' = overlapped
  BY DEF Moves
<1>3. /\ \A w \in SessionIds : sessions[w].turns \subseteq Turns
      /\ \A v \in Turns : turn[v].state.turns \subseteq Turns
  <2>1. (\A v \in Turns : turn[v] \in Turn) /\ \A w \in SessionIds : sessions[w] \in Record
    BY DEF TypeInv, TypeOK
  <2> QED
    BY <2>1 DEF Turn, Record
<1>4. RecordsApart'
  BY <1>1, <1>2, <1>3 DEF HistoryInv, RecordsApart
<1>5. OpenOverlap'
  BY <1>1, <1>2 DEF HistoryInv, OpenOverlap
<1>6. OpenKnows'
  BY <1>1, <1>2 DEF HistoryInv, OpenKnows
<1>7. TurnsRemembered'
  BY <1>1, <1>2 DEF HistoryInv, TurnsRemembered, User
<1> QED
  BY <1>4, <1>5, <1>6, <1>7 DEF HistoryInv

LEMMA ConcludesHistory ==
  ASSUME TypeInv, HistoryInv, NEW t \in Turns, NEW results \in Seq(Result),
         Concludes(t, results)
  PROVE  HistoryInv'
<1> DEFINE s == turn[t].session
<1>1. /\ \A v \in Turns :
           /\ turn'[v].state = turn[v].state /\ turn'[v].session = turn[v].session
           /\ User(v)' = User(v)
           /\ turn'[v].pc \in Open => v # t /\ turn[v].pc \in Open
           /\ turn[v].pc # "new" => turn'[v].pc # "new"
           /\ turn'[v].pc = "answered" => v = t \/ turn[v].pc = "answered"
      /\ turn[t].pc \in Open
  BY DEF Concludes, Others, Open, User
<1>2. /\ (\A v \in Turns : turn[v] \in Turn) /\ sessions \in [SessionIds -> Record]
      /\ s \in SessionIds
  BY DEF TypeInv, TypeOK, Turn
<1>3. /\ sessions'[s] = turn[t].state
      /\ \A w \in SessionIds \ {s} : sessions'[w] = sessions[w]
      /\ overlapped' = overlapped
      /\ displaced' = displaced \cup (IF sessions[s].user = User(t) THEN {}
                                      ELSE sessions[s].turns)
  BY <1>2 DEF Concludes, Conclude, Saved
<1>4. /\ \A w \in SessionIds : sessions[w].turns \subseteq Turns
      /\ \A v \in Turns : turn[v].state.turns \subseteq Turns
  BY <1>2 DEF Turn, Record
<1> HIDE DEF s
<1>5. RecordsApart'
  <2>1. ASSUME NEW w \in SessionIds, NEW v \in sessions'[w].turns
        PROVE  turn'[v].pc # "new" /\ turn'[v].session = w /\ User(v)' = sessions'[w].user
    <3>1. CASE w = s
      BY <3>1, <2>1, <1>1, <1>3, <1>4 DEF HistoryInv, RecordsApart, User, s
    <3>2. CASE w # s
      BY <3>2, <2>1, <1>1, <1>3, <1>4 DEF HistoryInv, RecordsApart
    <3> QED
      BY <3>1, <3>2
  <2>2. \A z \in Turns : \A v \in turn'[z].state.turns :
          turn'[v].pc # "new" /\ turn'[v].session = turn'[z].session /\ User(v)' = User(z)'
    BY <1>1, <1>4 DEF HistoryInv, RecordsApart
  <2> QED
    BY <2>1, <2>2 DEF RecordsApart
<1>6. OpenOverlap'
  BY <1>1, <1>3 DEF HistoryInv, OpenOverlap
<1>7. OpenKnows'
  <2> SUFFICES ASSUME NEW z \in Turns, turn'[z].pc \in Open
               PROVE  /\ z \in turn'[z].state.turns
                      /\ \A v \in Turns \ (displaced' \cup overlapped') :
                           /\ turn'[v].pc = "answered" /\ turn'[v].session = turn'[z].session
                           /\ User(v)' = User(z)'
                           => v \in turn'[z].state.turns
    BY DEF OpenKnows
  <2>1. z # t /\ turn[z].pc \in Open /\ turn'[z].state = turn[z].state
    BY <1>1
  <2>2. ASSUME NEW v \in Turns \ (displaced' \cup overlapped'),
               turn'[v].pc = "answered", turn'[v].session = turn'[z].session,
               User(v)' = User(z)'
        PROVE  v \in turn'[z].state.turns
    <3>1. v # t
      BY <2>1, <2>2, <1>1, <1>3 DEF HistoryInv, OpenOverlap
    <3> QED
      BY <3>1, <2>1, <2>2, <1>1, <1>3 DEF HistoryInv, OpenKnows
  <2> QED
    BY <2>1, <2>2 DEF HistoryInv, OpenKnows
<1>8. TurnsRemembered'
  <2> SUFFICES ASSUME NEW v \in Turns, turn'[v].pc = "answered",
                      v \notin displaced' \cup overlapped'
               PROVE  v \in sessions'[turn'[v].session].turns
    BY DEF TurnsRemembered
  <2>1. CASE v = t
    BY <2>1, <1>1, <1>3 DEF HistoryInv, OpenKnows, s
  <2>2. CASE v # t
    <3>1. /\ turn[v].pc = "answered" /\ turn'[v].session = turn[v].session
          /\ v \in sessions[turn[v].session].turns
      BY <2>2, <1>1, <1>3 DEF HistoryInv, TurnsRemembered
    <3>2. CASE turn[v].session # s
      BY <3>1, <3>2, <1>2, <1>3 DEF Turn
    <3>3. CASE turn[v].session = s
      <4>1. sessions[s].user = User(t)
        BY <3>1, <3>3, <1>3
      <4>2. User(v) = User(t)
        BY <3>1, <3>3, <4>1, <1>2 DEF HistoryInv, RecordsApart
      <4>3. v \in turn[t].state.turns
        BY <3>1, <3>3, <4>2, <1>1, <1>3 DEF HistoryInv, OpenKnows, s
      <4> QED
        BY <3>1, <3>3, <4>3, <1>3
    <3> QED
      BY <3>2, <3>3
  <2> QED
    BY <2>1, <2>2
<1> QED
  BY <1>5, <1>6, <1>7, <1>8 DEF HistoryInv

LEMMA HistoryStep ==
  ASSUME TypeInv, HistoryInv, [Next]_vars
  PROVE  HistoryInv'
<1>1. CASE UNCHANGED vars
  BY <1>1 DEF vars, HistoryInv, RecordsApart, OpenOverlap, OpenKnows, TurnsRemembered, User
<1>2. CASE Next
  BY <1>2, StepKinds, BeginsHistory, MovesHistory, ConcludesHistory
<1> QED
  BY <1>1, <1>2

-----------------------------------------------------------------------------
(* The inductive invariant and what follows from it *)

ResponseInv == ResultsFollowPlan /\ EscalationsHandled

IInv == TypeInv /\ ResponseInv /\ TicketInv /\ HistoryInv

LEMMA InvInit ==
  ASSUME Init
  PROVE  IInv
<1>1. TypeInv
  BY TypeInit
<1>2. /\ \A t \in Turns : turn[t].pc = "new" /\ turn[t].state.turns = {}
      /\ \A s \in SessionIds : sessions[s].turns = {}
      /\ tickets = {}
  BY DEF Init, NoRecord
<1>3. ResponseInv
  BY <1>2 DEF ResponseInv, ResultsFollowPlan, EscalationsHandled
<1>4. TicketInv
  BY <1>2 DEF TicketInv, Unheld
<1>5. HistoryInv
  BY <1>2 DEF HistoryInv, RecordsApart, OpenOverlap, OpenKnows, TurnsRemembered, Open
<1> QED
  BY <1>1, <1>3, <1>4, <1>5 DEF IInv

LEMMA InvStep ==
  ASSUME IInv, [Next]_vars
  PROVE  IInv'
BY TypeStep, ResponseStep, TicketStep, HistoryStep DEF IInv, ResponseInv

\* However many agents, turns and failures: a ticket exists exactly for the
\* unheld proposals of answered turns.  The invariant adds that an answered
\* turn has one result for each agent, which tells its tickets apart.
THEOREM TicketsAlwaysProposed == Spec => []TicketsAreProposed
<1>1. IInv => TicketsAreProposed
  BY TicketsProposed DEF IInv
<1> QED
  BY <1>1, InvInit, InvStep, PTL DEF Spec

\* Whatever order the calls of a parallel step answer in, the response lists
\* its results as the router selected the agents.
THEOREM ResultsAlwaysFollowPlan == Spec => []ResultsFollowPlan
<1>1. IInv => ResultsFollowPlan
  BY DEF IInv, ResponseInv
<1> QED
  BY <1>1, InvInit, InvStep, PTL DEF Spec

\* No answered turn passes over a specialist that asks for a human.
THEOREM EscalationsAlwaysHandled == Spec => []EscalationsHandled
<1>1. IInv => EscalationsHandled
  BY DEF IInv, ResponseInv
<1> QED
  BY <1>1, InvInit, InvStep, PTL DEF Spec

\* A turn drops out of its session's history only by another user's save or
\* beside another turn.  By the invariant an open turn has loaded all others.
THEOREM TurnsAlwaysRemembered == Spec => []TurnsRemembered
<1>1. IInv => TurnsRemembered
  BY DEF IInv, HistoryInv
<1> QED
  BY <1>1, InvInit, InvStep, PTL DEF Spec

\* Users who share a session id never see each other's turns.
THEOREM SessionsKeptApart == Spec => SessionsApart
<1> DEFINE Apart == \A t \in Turns, u \in Users, s \in SessionIds :
                      Receive(t, u, s) =>
                        \A v \in turn'[t].state.turns :
                          turn'[v].state.user = u /\ turn'[v].session = s
<1>1. ASSUME IInv, [Next]_vars
      PROVE  [Apart]_vars
  <2> SUFFICES ASSUME NEW t \in Turns, NEW u \in Users, NEW s \in SessionIds,
                      Receive(t, u, s), NEW v \in turn'[t].state.turns
               PROVE  turn'[v].state.user = u /\ turn'[v].session = s
    OBVIOUS
  <2>1. Begins(t, u, s)
    BY <1>1, ReceiveBegins DEF IInv
  <2>2. /\ User(t)' = u
        /\ v # t => turn[v].pc # "new" /\ turn[v].session = s /\ User(v) = u
    BY <1>1, <2>1, LoadedTurns DEF IInv, HistoryInv
  <2>3. v \in Turns
    <3>1. TypeInv'
      BY <1>1, ReceiveType DEF IInv
    <3>2. turn'[t] \in Turn
      BY <3>1 DEF TypeInv, TypeOK
    <3> QED
      BY <3>2 DEF Turn, Record
  <2> QED
    BY <2>1, <2>2, <2>3 DEF Begins, Others, User
<1> QED
  BY <1>1, InvInit, InvStep, PTL DEF Spec, SessionsApart
=============================================================================

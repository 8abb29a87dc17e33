--------------------------- MODULE AutonomousRun ---------------------------
(***************************************************************************)
(* The autonomous evaluation agent: a run lets a planner choose one tool   *)
(* after the other until it finishes, a tool fails or the iterations are   *)
(* used up.  Every run builds an evaluation service of its own, whose      *)
(* artifacts lie in the directory of the run; the traces are those of the  *)
(* evaluation system, which imports more of them meanwhile.                *)
(*                                                                         *)
(* A definition marked (mutant) is the slip the definition after it guards *)
(* against and no part of the specification.                               *)
(***************************************************************************)
EXTENDS EvaluationService

CONSTANTS
  Autos,         \* autonomous runs; each is a job and a store of its own
  MaxBeside,     \* bound on the shared requests beside autonomous runs
  Goals, NoGoal  \* goals to look at; with NoGoal no run is started

Tools == {"evaluate_traces", "run_labeled_benchmark", "generate_candidate_prompts"}

Goal == [rules: BOOLEAN,       \* rule-based planner
         iterations: 1..20, required: BOOLEAN]

ASSUME AutosOK ==
  /\ Autos \subseteq Jobs /\ Autos \subseteq Stores /\ Shared \notin Autos
  /\ \A q \in Autos : StoreOf[q] = q
  /\ \A j \in Jobs \ Autos : StoreOf[j] \notin Autos
  /\ Goals \subseteq Goal /\ NoGoal \notin Goal

VARIABLE auto    \* [Autos -> what the run knows]

autoVars == <<traces, patches, tests, candidates, jobs, past, auto>>
files == <<traces, patches, tests, candidates, past>>
-----------------------------------------------------------------------------
RunStatus == {"none", "completed", "blocked", "max_iterations_reached", "failed"}

AutoState == [pc: {"new", "planning", "evaluating", "benchmarking", "ended"},
              goal: Goals \cup {NoGoal}, used: 0..20,
              did: SUBSET Tools,                \* tools that ended well
              benchmark: {"none", "good", "poor"},
              made: Nat,                        \* candidate files written
              status: RunStatus,
              stale: BOOLEAN]                   \* history: evaluated after generating

AutoInit ==
  /\ Init
  /\ auto \in [Autos -> {[pc |-> "new", goal |-> g, used |-> 0, did |-> {},
       benchmark |-> "none", made |-> 0, status |-> "none", stale |-> FALSE] :
       g \in IF past.left > MaxBeside THEN {NoGoal} ELSE Goals}]

-----------------------------------------------------------------------------
(* The acceptance gates *)

EvaluationsCreated(q) == tests[q] # <<>> /\ patches[q] # <<>>

\* (mutant: some candidate prompt is enough)
AnyCandidatePrompts(q, a) == a.goal.required => patches[q] # <<>> /\ a.made > 0
CandidatePrompts(q, a) ==
  a.goal.required => patches[q] # <<>> /\ a.made >= Len(patches[q])

AllGatesPass(q, a) ==
  EvaluationsCreated(q) /\ a.benchmark = "good" /\ CandidatePrompts(q, a)

\* The rule-based planner tries what a failed gate asks for, once.
Unmet(q, a) ==
  {x \in Tools \ a.did :
     CASE x = "evaluate_traces" -> ~EvaluationsCreated(q)
       [] x = "run_labeled_benchmark" -> a.benchmark # "good"
       [] OTHER -> ~CandidatePrompts(q, a)}

RuleChoice(q, a) ==
  LET u == Unmet(q, a) IN
  CASE "evaluate_traces" \in u -> "evaluate_traces"
    [] "evaluate_traces" \notin u /\ "run_labeled_benchmark" \in u -> "run_labeled_benchmark"
    [] u = {"generate_candidate_prompts"} -> "generate_candidate_prompts"
    [] OTHER -> "finish"

\* The model may choose any tool at any time.
Choices(q) ==
  IF auto[q].goal.rules THEN {RuleChoice(q, auto[q])} ELSE Tools \cup {"finish"}

-----------------------------------------------------------------------------
(* The loop *)

Becomes(q, a) == auto' = [auto EXCEPT ![q] = a]

Ends(a, status) == [a EXCEPT !.pc = "ended", !.status = status]

\* (mutant: a tool that went well does not use up an iteration)
IteratedUncounted(q, a, tool) == [a EXCEPT !.did = @ \cup {tool}, !.pc = "planning"]

\* The end of an iteration whose tool went well.  At the last one the run is
\* completed if the gates pass by now.
Iterated(q, a, tool) ==
  LET b == [a EXCEPT !.used = @ + 1, !.did = @ \cup {tool}, !.pc = "planning"] IN
  IF b.used < b.goal.iterations THEN b
  ELSE Ends(b, IF AllGatesPass(q, b) THEN "completed" ELSE "max_iterations_reached")

Failed(a) == Ends([a EXCEPT !.used = @ + 1], "failed")

StartRun(q) ==
  /\ auto[q].pc = "new" /\ auto[q].goal # NoGoal
  /\ Becomes(q, [auto[q] EXCEPT !.pc = "planning"])
  /\ UNCHANGED <<files, jobs>>

\* Planning is a model call too, and no try is around it.
PlannerFails(q) ==
  /\ auto[q].pc = "planning" /\ ~auto[q].goal.rules
  /\ Becomes(q, Ends(auto[q], "none"))
  /\ UNCHANGED <<files, jobs>>

Finish(q) ==
  /\ auto[q].pc = "planning" /\ "finish" \in Choices(q)
  /\ Becomes(q, Ends([auto[q] EXCEPT !.used = @ + 1],
       IF AllGatesPass(q, auto[q]) THEN "completed" ELSE "blocked"))
  /\ UNCHANGED <<files, jobs>>

\* With a trace limit of the action or of the goal, or with all traces.
StartEvaluation(q, n) ==
  /\ auto[q].pc = "planning" /\ "evaluate_traces" \in Choices(q)
  /\ n > 0 /\ Evaluate(q, traces, n, past)
  /\ Becomes(q, [auto[q] EXCEPT !.pc = "evaluating"])
  /\ UNCHANGED traces

EvaluationEnds(q) ==
  /\ auto[q].pc = "evaluating" /\ jobs[q].pc \in {"done", "raised"}
  /\ jobs' = [jobs EXCEPT ![q] = NoJob]
  /\ UNCHANGED files
  /\ Becomes(q, IF jobs[q].pc = "raised" THEN Failed(auto[q])
                ELSE Iterated(q, [auto[q] EXCEPT !.stale = auto[q].made > 0],
                              "evaluate_traces"))

StartBenchmark(q) ==
  /\ auto[q].pc = "planning" /\ "run_labeled_benchmark" \in Choices(q)
  /\ Becomes(q, [auto[q] EXCEPT !.pc = "benchmarking"])
  /\ UNCHANGED <<files, jobs>>

\* Accuracy and recall over the labelled cases, against those of the goal.
BenchmarkEnds(q, result) ==
  /\ auto[q].pc = "benchmarking"
  /\ UNCHANGED <<files, jobs>>
  /\ Becomes(q, IF result = "none" THEN Failed(auto[q])
                ELSE Iterated(q, [auto[q] EXCEPT !.benchmark = result],
                              "run_labeled_benchmark"))

\* A file for every patch whose target exists, without an await.
WithTarget(q) == {k \in DOMAIN patches[q] : patches[q][k].target}

\* The candidate files once those of the given rows are written.
Generated(q, rows) ==
  [i \in Ids |-> IF Rows(patches[q], i) \cap rows = {} THEN candidates[q][i]
                 ELSE patches[q][Greatest(Rows(patches[q], i) \cap rows)].text]

GenerateCandidates(q) ==
  /\ auto[q].pc = "planning" /\ "generate_candidate_prompts" \in Choices(q)
  /\ candidates' = [candidates EXCEPT ![q] = Generated(q, WithTarget(q))]
  /\ UNCHANGED <<traces, patches, tests, jobs, past>>
  /\ Becomes(q, Iterated(q,
       [auto[q] EXCEPT !.made = Cardinality(WithTarget(q)), !.stale = FALSE],
       "generate_candidate_prompts"))

\* A row cannot be served - its target is a directory or no text, its candidate
\* cannot be written: the files of the rows before it stay, the run knows nothing
\* of them and ends.  Nothing is written when the patch file itself is unreadable.
GenerateFails(q) ==
  /\ auto[q].pc = "planning" /\ "generate_candidate_prompts" \in Choices(q)
  /\ \E k \in {1} \cup DOMAIN patches[q] :
       candidates' = [candidates EXCEPT ![q] = Generated(q, WithTarget(q) \cap 1..(k - 1))]
  /\ UNCHANGED <<traces, patches, tests, jobs, past>>
  /\ Becomes(q, Failed(auto[q]))

AutoStep(q) ==
  \/ PlannerFails(q) \/ Finish(q)
  \/ \E n \in Limits : StartEvaluation(q, n)
  \/ EvaluationEnds(q)
  \/ StartBenchmark(q) \/ \E result \in {"none", "good", "poor"} : BenchmarkEnds(q, result)
  \/ GenerateCandidates(q) \/ GenerateFails(q)

AutoNext ==
  \/ Next /\ UNCHANGED auto
  \/ \E q \in Autos : StartRun(q) \/ AutoStep(q)

\* A model call comes back, with an answer or an error, and the loop resumes
\* the coroutine that awaited it.
Fairness ==
  /\ \A j \in Jobs : WF_autoVars((TraceEvaluated(j) \/ CallFails(j)) /\ UNCHANGED auto)
  /\ \A q \in Autos : WF_autoVars(AutoStep(q))

AutoSpec == AutoInit /\ [][AutoNext]_autoVars /\ Fairness
-----------------------------------------------------------------------------
(* Properties *)

AutoTypeOK == TypeOK /\ auto \in [Autos -> AutoState]

\* The status of a run says what it left behind.  A completed run that must
\* have candidate prompts has one for every patch of its last evaluation,
\* unless it evaluated again after generating them: files that a failed call of
\* the tool left are never taken for them.  A run of the rule-based planner with
\* four iterations or more never just runs out of them.
RunStatusTrue ==
  \A q \in Autos :
    LET a == auto[q] IN
    /\ a.status = "completed" =>
         /\ tests[q] # <<>> /\ "run_labeled_benchmark" \in a.did
         /\ a.goal.required /\ ~a.stale =>
              \A k \in DOMAIN patches[q] : candidates[q][patches[q][k].id] # NoText
    /\ a.status = "max_iterations_reached" => ~a.goal.rules \/ a.goal.iterations < 4

\* Every evaluation and every autonomous run comes to its end, whatever the
\* planner chooses and however often calls fail: none stays under way for ever,
\* and a run that has started is never new again.
RunsEnd ==
  /\ \A j \in Jobs \ Autos : []<>(jobs[j].pc # "running")
  /\ \A q \in Autos : []<>(auto[q].pc \in {"new", "ended"})
=============================================================================

------------------------- MODULE EvaluationService -------------------------
(***************************************************************************)
(* The adaptive evaluation system: runs of the evaluation, improvement and *)
(* test agents over stored traces, which replace the file of prompt        *)
(* patches, and the reviews and promotions of those patches.  The handlers *)
(* are coroutines of one event loop: a run gives way to the others at its  *)
(* model calls and nowhere else, and everything after the last call of a   *)
(* run is one step with it.                                                *)
(*                                                                         *)
(* Every service has artifact files of its own (a store); all of them read *)
(* the same traces.  Scores, reports and the wording of tests are left     *)
(* out.                                                                    *)
(*                                                                         *)
(* A definition marked (mutant) is the slip the definition after it guards *)
(* against and no part of the specification.                               *)
(***************************************************************************)
EXTENDS Integers, Sequences, FiniteSets

CONSTANTS
  Traces,        \* ids of conversation traces
  Ids, Texts,    \* of prompt patches
  Harmless,      \* texts that are not empty and do not ask to be applied
  NoText,
  Drafts,        \* patches the improvement agent may propose
  Jobs,          \* slots for evaluation runs
  Stores, Shared,
  StoreOf,       \* [Jobs -> Stores], where a run saves
  Requests       \* bounds on the requests to the shared service to look at

Statuses == {"proposed", "approved", "rejected"}

\* target: the target prompt of the patch is a file of the repository.
Draft == [id: Ids, text: Texts, target: BOOLEAN]
Patch == [id: Ids, text: Texts, target: BOOLEAN, status: Statuses]

ASSUME StoresOK ==
  /\ Shared \in Stores /\ StoreOf \in [Jobs -> Stores]
  /\ Drafts \subseteq Draft /\ NoText \notin Texts /\ Harmless \subseteq Texts
  /\ Requests \subseteq Nat

VARIABLES
  traces,        \* the trace file, a sequence without repetitions
  patches,       \* [Stores -> Seq(Patch)], prompt_patches.jsonl
  tests,         \* [Stores -> Seq(Traces)], regression_cases.jsonl
  candidates,    \* [Stores -> [Ids -> Texts or NoText]], candidate prompt files
  jobs,          \* [Jobs -> run]
  past           \* history, see Past

vars == <<traces, patches, tests, candidates, jobs, past>>
-----------------------------------------------------------------------------
Job == [pc: {"idle", "running", "done", "raised"}, todo: Seq(Traces),
        failed: Seq(Traces), drafts: Seq(Patch)]
NoJob == [pc |-> "idle", todo |-> <<>>, failed |-> <<>>, drafts |-> <<>>]

\* History of the shared file: the last review of an id while it is in the
\* file, ids that were in it twice meanwhile, the texts somebody approved, and
\* ids whose text a run changed under a review.
Past == [verdict: [Ids -> Statuses], blurred: SUBSET Ids,
         approved: SUBSET (Ids \X Texts), rewritten: SUBSET Ids,
         left: Nat]                    \* requests still to come

Init ==
  /\ traces = <<>>
  /\ patches = [s \in Stores |-> <<>>]
  /\ tests = [s \in Stores |-> <<>>]
  /\ candidates = [s \in Stores |-> [i \in Ids |-> NoText]]
  /\ jobs = [j \in Jobs |-> NoJob]
  /\ \E n \in Requests : past =
            [verdict |-> [i \in Ids |-> "proposed"], blurred |-> {},
             approved |-> {}, rewritten |-> {}, left |-> n]

Rows(file, i) == {k \in DOMAIN file : file[k].id = i}
Least(s) == CHOOSE k \in s : \A l \in s : k <= l
Greatest(s) == CHOOSE k \in s : \A l \in s : k >= l

-----------------------------------------------------------------------------
(* The patch file *)

\* The status the file has for an id; of two rows the last one counts.
Known(file, i) ==
  IF Rows(file, i) = {} THEN "proposed" ELSE file[Greatest(Rows(file, i))].status

\* (mutant: every run starts from proposed again)
ReviewsForgotten(file, drafts) == drafts

\* save_patches: replaces the file and keeps the reviews of ids that stay.
Preserved(file, drafts) ==
  [k \in DOMAIN drafts |-> [drafts[k] EXCEPT !.status = Known(file, drafts[k].id)]]

Kept(drafts, i) == \E k \in DOMAIN drafts : drafts[k].id = i

\* What a save of the shared file does to the history.
Resaved(h, new) ==
  [h EXCEPT
     !.verdict = [i \in Ids |-> IF Kept(new, i) THEN @[i] ELSE "proposed"],
     !.blurred = {i \in Ids : Kept(new, i) /\
                                (i \in @ \/ Cardinality(Rows(new, i)) > 1)},
     !.rewritten = @ \cup
       {i \in Ids : \E k \in Rows(new, i) :
          new[k].status # "proposed" /\ <<i, new[k].text>> \notin h.approved}]

-----------------------------------------------------------------------------
(* Evaluation runs *)

\* What the evaluation agent may find, and what _normalize_evaluation makes of
\* it: a trace that passes without issues needs no regression test.
Evaluation == [passed: BOOLEAN, issues: BOOLEAN]
RequiresRegression(evaluation) == ~evaluation.passed \/ evaluation.issues

\* What becomes of the run with one trace: for a trace that needs it, a test
\* case is generated and a patch drafted.
Outcomes(job) ==
  LET x == Head(job.todo)
      rest == [job EXCEPT !.todo = Tail(@)]
      drafted(d) == [rest EXCEPT !.failed = Append(@, x), !.drafts = Append(@,
         [id |-> d.id, text |-> d.text, target |-> d.target, status |-> "proposed"])]
  IN UNION {IF RequiresRegression(e) THEN {drafted(d) : d \in Drafts} ELSE {rest} :
              e \in Evaluation}

\* The run goes on with its next trace, or saves what it has.
Proceeds(j, job, h) ==
  LET s == StoreOf[j]
      saved == Preserved(patches[s], job.drafts)
  IN
  IF job.todo # <<>>
  THEN /\ jobs' = [jobs EXCEPT ![j] = [job EXCEPT !.pc = "running"]]
       /\ past' = h
       /\ UNCHANGED <<patches, tests>>
  ELSE /\ jobs' = [jobs EXCEPT ![j] = [NoJob EXCEPT !.pc = "done"]]
       /\ tests' = [tests EXCEPT ![s] = job.failed]
       /\ patches' = [patches EXCEPT ![s] = saved]
       /\ past' = IF s = Shared THEN Resaved(h, saved) ELSE h

\* A run over the first n traces; without traces it saves at once.
Limits == 0..Cardinality(Traces)
Prefix(file, n) == SubSeq(file, 1, IF n < Len(file) THEN n ELSE Len(file))

Evaluate(j, file, n, h) ==
  /\ jobs[j].pc = "idle"
  /\ Proceeds(j, [NoJob EXCEPT !.todo = Prefix(file, n)], h)
  /\ UNCHANGED candidates

Counted == [past EXCEPT !.left = @ - 1]

RunEvaluation(j, n) ==
  /\ n > 0 /\ past.left > 0
  /\ Evaluate(j, traces, n, Counted)
  /\ UNCHANGED traces

\* The traces imported from Project 1 go after those there are, by their ids.
Merged(imported) ==
  traces \o SelectSeq(imported, LAMBDA x : \A k \in DOMAIN traces : traces[k] # x)

Orders(s) == {f \in [1..Cardinality(s) -> s] : \A k, l \in DOMAIN f : f[k] = f[l] => k = l}

ImportTraces ==
  /\ past.left > 0 /\ past' = Counted
  /\ \E s \in SUBSET Traces : \E imported \in Orders(s) : traces' = Merged(imported)
  /\ UNCHANGED <<patches, tests, candidates, jobs>>

RunFeedback(j) ==
  \E s \in SUBSET Traces : \E imported \in Orders(s) :
    /\ past.left > 0 /\ traces' = Merged(imported)
    /\ Evaluate(j, imported, Len(imported), Counted)

TraceEvaluated(j) ==
  /\ jobs[j].pc = "running"
  /\ \E job \in Outcomes(jobs[j]) : Proceeds(j, job, past)
  /\ UNCHANGED <<traces, candidates>>

\* One of the three model calls raises - no answer, a refusal, an answer that
\* does not validate: nothing of the run is saved.
CallFails(j) ==
  /\ jobs[j].pc = "running"
  /\ jobs' = [jobs EXCEPT ![j] = [NoJob EXCEPT !.pc = "raised"]]
  /\ UNCHANGED <<traces, patches, tests, candidates, past>>

Responded(j) ==
  /\ jobs[j].pc \in {"done", "raised"}
  /\ jobs' = [jobs EXCEPT ![j] = NoJob]
  /\ UNCHANGED <<traces, patches, tests, candidates, past>>

-----------------------------------------------------------------------------
(* Reviews and promotions: requests without an await *)

\* The first row with the id, whatever its status is; 404 without one.
Review(i, status) ==
  LET file == patches[Shared]
      k == Least(Rows(file, i))
  IN
  /\ Rows(file, i) # {} /\ past.left > 0
  /\ patches' = [patches EXCEPT ![Shared][k].status = status]
  /\ past' = [Counted EXCEPT !.verdict[i] = status,
       !.approved = @ \cup {<<i, t>> : t \in {file[k].text : x \in {status} \ {"rejected"}}}]
  /\ UNCHANGED <<traces, tests, candidates, jobs>>

\* (mutant: a rejected patch may be promoted)
Reviewed(row) == row.status # "proposed" /\ row.text \in Harmless
Promotable(row) == row.status = "approved" /\ row.text \in Harmless

\* The request may name another prompt to render the patch into.
First(i) == patches[Shared][Least(Rows(patches[Shared], i))]
MayPromote(i, override) ==
  /\ Rows(patches[Shared], i) # {}
  /\ Promotable(First(i)) /\ (First(i).target \/ override)

Promote(i, override) ==
  /\ past.left > 0 /\ MayPromote(i, override)
  /\ candidates' = [candidates EXCEPT ![Shared][i] = First(i).text]
  /\ past' = Counted
  /\ UNCHANGED <<traces, patches, tests, jobs>>

\* An unknown id, or a promotion that is not valid: nothing is written.
Refused(i, override) == ~MayPromote(i, override) /\ UNCHANGED vars

-----------------------------------------------------------------------------
Request ==
  \/ ImportTraces
  \/ \E j \in {k \in Jobs : StoreOf[k] = Shared} :
       \/ \E n \in Limits : RunEvaluation(j, n)
       \/ RunFeedback(j) \/ Responded(j)
  \/ \E i \in Ids :
       \/ \E status \in Statuses \ {"proposed"} : Review(i, status)
       \/ \E override \in BOOLEAN : Promote(i, override) \/ Refused(i, override)

Answers == \E j \in Jobs : TraceEvaluated(j) \/ CallFails(j)

Next == Request \/ Answers

Spec == Init /\ [][Next]_vars
-----------------------------------------------------------------------------
(* Properties *)

TypeOK ==
  /\ traces \in Seq(Traces)
  /\ patches \in [Stores -> Seq(Patch)]
  /\ tests \in [Stores -> Seq(Traces)]
  /\ candidates \in [Stores -> [Ids -> Texts \cup {NoText}]]
  /\ jobs \in [Jobs -> Job]
  /\ past \in Past

\* "Prompt patches remain proposed until an explicit review call" and keep
\* that review, however many runs replace the file before, during or after it,
\* as long as every run proposes the id again and none proposes it twice.
ReviewsKept ==
  \A k \in DOMAIN patches[Shared] :
    LET row == patches[Shared][k] IN
    row.id \notin past.blurred => row.status = past.verdict[row.id]

\* A candidate prompt holds a text that somebody approved, unless a run put
\* another text under an approval that was already given for the id.
CandidatesApproved ==
  \A i \in Ids :
    \/ candidates[Shared][i] = NoText
    \/ <<i, candidates[Shared][i]>> \in past.approved
    \/ i \in past.rewritten
=============================================================================

------------------------ MODULE AutonomousRun_proofs ------------------------
(* Proofs about EvaluationService and AutonomousRun, for every value of the *)
(* constants.                                                               *)
EXTENDS AutonomousRun, FiniteSetTheorems, WellFoundedInduction, TLAPS

\* Of a run only the drafts matter here, not which traces they came from.
WellFormed(job) ==
  \E pc, todo, failed, drafts :
    drafts \in Seq(Patch) /\ job = [pc |-> pc, todo |-> todo, failed |-> failed, drafts |-> drafts]

FilesOK ==
  /\ patches \in [Stores -> Seq(Patch)] /\ DOMAIN tests = Stores
  /\ candidates \in [Stores -> [Ids -> Texts \cup {NoText}]]
  /\ DOMAIN jobs = Jobs /\ \A j \in Jobs : WellFormed(jobs[j])
  /\ past \in Past

\* An id that is not blurred has at most one row, and that row its last review.
RowsReviewed(file, h) ==
  \A i \in Ids \ h.blurred :
    /\ \A k, l \in Rows(file, i) : k = l
    /\ Rows(file, i) = {} => h.verdict[i] = "proposed"
    /\ \A k \in Rows(file, i) : file[k].status = h.verdict[i]

\* What may be promoted was approved with this text, or rewritten under its review.
ApprovedRows(file, h) ==
  \A k \in DOMAIN file :
    file[k].status = "approved" =>
      <<file[k].id, file[k].text>> \in h.approved \/ file[k].id \in h.rewritten

SharedOK ==
  RowsReviewed(patches[Shared], past) /\ ApprovedRows(patches[Shared], past) /\ CandidatesApproved

\* Every patch with a target has its candidate prompt.
AllGenerated(q) ==
  \A k \in WithTarget(q) : candidates[q][patches[q][k].id] # NoText

\* How many tools have ended well.
Tried(did) ==
  (IF "evaluate_traces" \in did THEN 1 ELSE 0) +
  (IF "run_labeled_benchmark" \in did THEN 1 ELSE 0) +
  (IF "generate_candidate_prompts" \in did THEN 1 ELSE 0)

\* The rule-based planner has used an iteration for each tool and starts none twice.
OncePerTool(a) ==
  a.goal # NoGoal /\ a.goal.rules /\ a.pc \in {"planning", "evaluating", "benchmarking"} =>
    /\ a.used = Tried(a.did)
    /\ a.pc = "evaluating" => "evaluate_traces" \notin a.did
    /\ a.pc = "benchmarking" => "run_labeled_benchmark" \notin a.did

\* An autonomous run, however many iterations it may use.
Run == [pc: {"new", "planning", "evaluating", "benchmarking", "ended"},
        goal: Goals \cup {NoGoal}, used: Nat, did: SUBSET Tools,
        benchmark: {"none", "good", "poor"}, made: Nat, status: RunStatus, stale: BOOLEAN]

AutoOK(q) ==
  LET a == auto[q] IN
  /\ a \in Run
  /\ a.pc # "new" => a.goal # NoGoal
  /\ a.pc = "new" => a.used = 0 /\ a.did = {} /\ a.made = 0 /\ ~a.stale
  /\ a.pc # "ended" => a.status = "none"
  /\ jobs[q].pc = "idle" <=> a.pc # "evaluating"
  /\ a.benchmark # "none" => "run_labeled_benchmark" \in a.did
  /\ a.pc \in {"planning", "benchmarking"} /\ a.made > 0 /\ ~a.stale =>
       AllGenerated(q) /\ a.made = Cardinality(WithTarget(q))
  /\ OncePerTool(a)

IInv ==
  FilesOK /\ SharedOK /\ DOMAIN auto = Autos /\ (\A q \in Autos : AutoOK(q)) /\ RunStatusTrue

-----------------------------------------------------------------------------
(* Rows of the patch file *)

\* Every non-empty set of naturals has a least element.
LEMMA LeastNatural ==
  ASSUME NEW T, T \subseteq Nat, T # {}
  PROVE  \E x \in T : \A y \in T : x <= y
<1> DEFINE R == {ss \in Nat \X Nat : ss[1] < ss[2]}
<1>1. IsWellFoundedOn(R, Nat)
  BY NatLessThanWellFounded DEF OpToRel
<1>2. \A i, j \in Nat : i < j => <<i, j>> \in R
  OBVIOUS
<1> HIDE DEF R
<1>3. PICK x \in T : \A y \in T : ~(<<y, x>> \in R)
  BY <1>1, WFMin
<1>4. ASSUME NEW y \in T PROVE x <= y
  <2>1. x \in Nat /\ y \in Nat /\ ~(y < x)
    BY <1>2, <1>3
  <2> QED
    BY <2>1
<1> QED
  BY <1>4

LEMMA LeastIsIn ==
  ASSUME NEW T, T \subseteq Nat, T # {}
  PROVE  Least(T) \in T
BY LeastNatural DEF Least

LEMMA GreatestIsIn ==
  ASSUME NEW n \in Nat, NEW T, T \subseteq 1..n, T # {}
  PROVE  Greatest(T) \in T
<1> DEFINE U == {n - k : k \in T}
<1>1. U \subseteq Nat /\ U # {}
  <2>1. \A k \in T : k \in Nat /\ n - k \in Nat
    OBVIOUS
  <2> QED
    BY <2>1
<1>2. PICK x \in U : \A y \in U : x <= y
  BY <1>1, LeastNatural
<1>3. PICK k \in T : x = n - k
  BY <1>2
<1>4. \A l \in T : k >= l
  <2> SUFFICES ASSUME NEW l \in T PROVE k >= l
    OBVIOUS
  <2>1. n - l \in U /\ k \in Nat /\ l \in Nat
    OBVIOUS
  <2> QED
    BY <2>1, <1>2, <1>3
<1> QED
  BY <1>4 DEF Greatest

LEMMA RowsFacts ==
  ASSUME NEW file \in Seq(Patch), NEW i
  PROVE  /\ Rows(file, i) \subseteq 1..Len(file) /\ Rows(file, i) \subseteq Nat
         /\ Len(file) \in Nat /\ DOMAIN file = 1..Len(file)
         /\ IsFiniteSet(Rows(file, i))
         /\ Rows(file, i) # {} => Least(Rows(file, i)) \in Rows(file, i)
         /\ Rows(file, i) # {} => Greatest(Rows(file, i)) \in Rows(file, i)
<1>1. Len(file) \in Nat /\ DOMAIN file = 1..Len(file)
  OBVIOUS
<1>2. Rows(file, i) \subseteq 1..Len(file) /\ Rows(file, i) \subseteq Nat
  BY <1>1 DEF Rows
<1>3. IsFiniteSet(Rows(file, i))
  <2>1. IsFiniteSet(1..Len(file))
    BY <1>1, FS_Interval
  <2> QED
    BY <2>1, <1>2, FS_Subset
<1> QED
  BY <1>1, <1>2, <1>3, LeastIsIn, GreatestIsIn

LEMMA PatchParts ==
  ASSUME NEW file \in Seq(Patch), NEW k \in DOMAIN file
  PROVE  /\ file[k] \in Patch /\ file[k].id \in Ids /\ file[k].text \in Texts
         /\ file[k].target \in BOOLEAN /\ file[k].status \in Statuses
<1>1. file[k] \in Patch
  OBVIOUS
<1> QED
  BY <1>1 DEF Patch

LEMMA KnownType ==
  ASSUME NEW file \in Seq(Patch), NEW i
  PROVE  Known(file, i) \in Statuses
<1>1. CASE Rows(file, i) = {}
  BY <1>1 DEF Known, Statuses
<1>2. CASE Rows(file, i) # {}
  <2>1. Greatest(Rows(file, i)) \in DOMAIN file
    BY <1>2, RowsFacts
  <2> QED
    BY <1>2, <2>1, PatchParts DEF Known
<1> QED
  BY <1>1, <1>2

\* A save keeps every field of the drafts but the status.
LEMMA PreservedFacts ==
  ASSUME NEW file \in Seq(Patch), NEW drafts \in Seq(Patch)
  PROVE  /\ Preserved(file, drafts) \in Seq(Patch)
         /\ DOMAIN Preserved(file, drafts) = DOMAIN drafts
         /\ \A k \in DOMAIN drafts :
              /\ Preserved(file, drafts)[k].id = drafts[k].id
              /\ Preserved(file, drafts)[k].text = drafts[k].text
              /\ Preserved(file, drafts)[k].status = Known(file, drafts[k].id)
<1> DEFINE new == Preserved(file, drafts)
<1>1. DOMAIN drafts = 1..Len(drafts) /\ Len(drafts) \in Nat /\ DOMAIN new = 1..Len(drafts)
  BY DEF Preserved
<1>2. ASSUME NEW k \in DOMAIN drafts
      PROVE  /\ new[k] \in Patch /\ new[k].id = drafts[k].id
             /\ new[k].text = drafts[k].text /\ new[k].status = Known(file, drafts[k].id)
  <2>1. drafts[k] \in Patch /\ Known(file, drafts[k].id) \in Statuses
    BY PatchParts, KnownType
  <2>2. new[k] = [drafts[k] EXCEPT !.status = Known(file, drafts[k].id)]
    BY DEF Preserved
  <2> QED
    BY <2>1, <2>2 DEF Patch
<1>3. new = [k \in 1..Len(drafts) |-> new[k]]
  BY <1>1 DEF Preserved
<1>4. new \in Seq(Patch)
  BY <1>1, <1>2, <1>3
<1> QED
  BY <1>1, <1>2, <1>4

-----------------------------------------------------------------------------
(* A save of the shared file *)

LEMMA ResavedFacts ==
  ASSUME NEW h \in Past, NEW new \in Seq(Patch)
  PROVE  /\ Resaved(h, new) \in Past
         /\ Resaved(h, new).approved = h.approved /\ Resaved(h, new).left = h.left
         /\ h.rewritten \subseteq Resaved(h, new).rewritten
         /\ \A i \in Ids :
              /\ Resaved(h, new).verdict[i] = IF Kept(new, i) THEN h.verdict[i] ELSE "proposed"
              /\ i \in Resaved(h, new).blurred <=>
                   Kept(new, i) /\ (i \in h.blurred \/ Cardinality(Rows(new, i)) > 1)
         /\ \A k \in DOMAIN new :
              new[k].status # "proposed" =>
                \/ <<new[k].id, new[k].text>> \in h.approved
                \/ new[k].id \in Resaved(h, new).rewritten
<1> DEFINE verdict == [i \in Ids |-> IF Kept(new, i) THEN h.verdict[i] ELSE "proposed"]
<1> DEFINE blurred == {i \in Ids : Kept(new, i) /\
                                (i \in h.blurred \/ Cardinality(Rows(new, i)) > 1)}
<1> DEFINE changed == {i \in Ids : \E k \in Rows(new, i) :
          new[k].status # "proposed" /\ <<i, new[k].text>> \notin h.approved}
<1>1. /\ h.verdict \in [Ids -> Statuses] /\ h.rewritten \in SUBSET Ids
      /\ h.approved \in SUBSET (Ids \X Texts) /\ h.left \in Nat
  BY DEF Past
<1>2. Resaved(h, new) = [verdict |-> verdict, blurred |-> blurred, approved |-> h.approved,
                         rewritten |-> h.rewritten \cup changed, left |-> h.left]
  <2>1. h = [verdict |-> h.verdict, blurred |-> h.blurred, approved |-> h.approved,
             rewritten |-> h.rewritten, left |-> h.left]
    BY DEF Past
  <2>2. Resaved(h, new) = [h EXCEPT !.verdict = verdict, !.blurred = blurred,
                                    !.rewritten = h.rewritten \cup changed]
    BY DEF Resaved
  <2> HIDE DEF verdict, blurred, changed
  <2> QED
    BY <2>1, <2>2
<1>3. verdict \in [Ids -> Statuses] /\ blurred \in SUBSET Ids /\ changed \in SUBSET Ids
  BY <1>1 DEF Statuses
<1>4. ASSUME NEW k \in DOMAIN new, new[k].status # "proposed"
      PROVE  <<new[k].id, new[k].text>> \in h.approved \/ new[k].id \in changed
  <2>1. k \in Rows(new, new[k].id) /\ new[k].id \in Ids
    BY PatchParts DEF Rows
  <2> QED
    BY <1>4, <2>1
<1> HIDE DEF changed
<1>5. Resaved(h, new) \in Past
  <2> HIDE DEF verdict, blurred
  <2> QED
    BY <1>1, <1>2, <1>3 DEF Past
<1> QED
  BY <1>2, <1>4, <1>5

LEMMA SaveReviewed ==
  ASSUME NEW h \in Past, NEW file \in Seq(Patch), NEW drafts \in Seq(Patch),
         RowsReviewed(file, h)
  PROVE  LET new == Preserved(file, drafts) IN
         RowsReviewed(new, Resaved(h, new)) /\ ApprovedRows(new, Resaved(h, new))
<1> DEFINE new == Preserved(file, drafts)
<1> DEFINE g == Resaved(h, new)
<1>1. /\ new \in Seq(Patch) /\ DOMAIN new = DOMAIN drafts
      /\ \A k \in DOMAIN new : new[k].status = Known(file, new[k].id)
  BY PreservedFacts
<1>2. /\ g.approved = h.approved
      /\ \A i \in Ids :
           /\ g.verdict[i] = IF Kept(new, i) THEN h.verdict[i] ELSE "proposed"
           /\ i \in g.blurred <=>
                Kept(new, i) /\ (i \in h.blurred \/ Cardinality(Rows(new, i)) > 1)
      /\ \A k \in DOMAIN new :
           new[k].status # "proposed" =>
             <<new[k].id, new[k].text>> \in h.approved \/ new[k].id \in g.rewritten
  BY <1>1, ResavedFacts
<1>3. ApprovedRows(new, g)
  BY <1>2 DEF ApprovedRows
<1> HIDE DEF g
<1>4. ASSUME NEW i \in Ids, i \notin g.blurred
      PROVE  /\ \A k, l \in Rows(new, i) : k = l
             /\ Rows(new, i) = {} => g.verdict[i] = "proposed"
             /\ \A k \in Rows(new, i) : new[k].status = g.verdict[i]
  <2>1. Kept(new, i) <=> Rows(new, i) # {}
    BY DEF Kept, Rows
  <2>2. CASE Rows(new, i) = {}
    BY <2>1, <2>2, <1>2
  <2>3. CASE Rows(new, i) # {}
    <3>1. i \notin h.blurred /\ ~(Cardinality(Rows(new, i)) > 1) /\ g.verdict[i] = h.verdict[i]
      BY <2>1, <2>3, <1>2, <1>4
    <3>2. \A k, l \in Rows(new, i) : k = l
      <4> SUFFICES ASSUME NEW k \in Rows(new, i), NEW l \in Rows(new, i), k # l
                   PROVE  Cardinality(Rows(new, i)) > 1
        BY <3>1
      <4>1. IsFiniteSet(Rows(new, i)) /\ {k, l} \subseteq Rows(new, i)
        BY <1>1, RowsFacts
      <4>2. Cardinality({k, l}) <= Cardinality(Rows(new, i))
        BY <4>1, FS_Subset
      <4>3. Cardinality({k, l}) = 2
        <5>1. Cardinality({k}) = 1 /\ IsFiniteSet({k})
          BY FS_Singleton
        <5>2. Cardinality({k} \cup {l}) = Cardinality({k}) + 1
          BY <5>1, FS_AddElement
        <5>3. {k} \cup {l} = {k, l}
          OBVIOUS
        <5> QED
          BY <5>1, <5>2, <5>3
      <4>4. Cardinality(Rows(new, i)) \in Nat
        BY <4>1, FS_CardinalityType
      <4> QED
        BY <4>2, <4>3, <4>4
    <3>3. Known(file, i) = h.verdict[i]
      <4>1. CASE Rows(file, i) = {}
        BY <3>1, <4>1 DEF Known, RowsReviewed
      <4>2. CASE Rows(file, i) # {}
        BY <3>1, <4>2, RowsFacts DEF Known, RowsReviewed
      <4> QED
        BY <4>1, <4>2
    <3>4. \A k \in Rows(new, i) : new[k].status = Known(file, i)
      BY <1>1 DEF Rows
    <3> QED
      BY <2>3, <3>1, <3>2, <3>3, <3>4
  <2> QED
    BY <2>2, <2>3
<1>5. RowsReviewed(new, g)
  BY <1>4 DEF RowsReviewed
<1> QED
  BY <1>3, <1>5 DEF g

-----------------------------------------------------------------------------
(* Steps of the evaluation service *)

FilesAndShared == FilesOK /\ SharedOK

\* What a step of a run leaves of the other runs and their stores.
OnlyRun(j) ==
  /\ \A s \in Stores \ {StoreOf[j]} : patches'[s] = patches[s] /\ tests'[s] = tests[s]
  /\ \A k \in Jobs \ {j} : jobs'[k] = jobs[k]

LEMMA NoJobWellFormed ==
  ASSUME NEW pc
  PROVE  WellFormed([NoJob EXCEPT !.pc = pc]) /\ [NoJob EXCEPT !.pc = pc].pc = pc
<1>1. [NoJob EXCEPT !.pc = pc] = [pc |-> pc, todo |-> <<>>, failed |-> <<>>, drafts |-> <<>>]
  BY DEF NoJob
<1>2. <<>> \in Seq(Patch)
  OBVIOUS
<1> QED
  BY <1>1, <1>2 DEF WellFormed

LEMMA ProceedsStep ==
  ASSUME FilesOK, NEW h \in Past, NEW j \in Jobs, NEW job, WellFormed(job), Proceeds(j, job, h),
         RowsReviewed(patches[Shared], h), ApprovedRows(patches[Shared], h)
  PROVE  /\ patches' \in [Stores -> Seq(Patch)] /\ DOMAIN tests' = Stores
         /\ DOMAIN jobs' = Jobs /\ (\A k \in Jobs : WellFormed(jobs'[k])) /\ past' \in Past
         /\ RowsReviewed(patches'[Shared], past') /\ ApprovedRows(patches'[Shared], past')
         /\ h.approved \subseteq past'.approved /\ h.rewritten \subseteq past'.rewritten
         /\ OnlyRun(j) /\ jobs'[j].pc \in {"running", "done"}
<1> DEFINE s == StoreOf[j]
<1> DEFINE saved == Preserved(patches[s], job.drafts)
<1>1. s \in Stores /\ Shared \in Stores
  BY StoresOK
<1>2. /\ patches \in [Stores -> Seq(Patch)] /\ DOMAIN tests = Stores /\ DOMAIN jobs = Jobs
      /\ \A k \in Jobs : WellFormed(jobs[k])
  BY DEF FilesOK
<1>3. CASE job.todo # <<>>
  <2> DEFINE new == [job EXCEPT !.pc = "running"]
  <2>1. jobs' = [jobs EXCEPT ![j] = new] /\ past' = h /\ UNCHANGED <<patches, tests>>
    BY <1>3 DEF Proceeds
  <2>2. WellFormed(new) /\ new.pc = "running"
    <3>1. PICK pc, todo, failed, drafts :
            drafts \in Seq(Patch) /\ job = [pc |-> pc, todo |-> todo, failed |-> failed, drafts |-> drafts]
      BY DEF WellFormed
    <3>2. new = [pc |-> "running", todo |-> todo, failed |-> failed, drafts |-> drafts]
      BY <3>1
    <3> HIDE DEF new
    <3> QED
      BY <3>1, <3>2 DEF WellFormed
  <2> HIDE DEF new
  <2>3. /\ DOMAIN jobs' = Jobs /\ jobs'[j] = new
        /\ \A k \in Jobs \ {j} : jobs'[k] = jobs[k]
    BY <2>1, <1>2
  <2> QED
    BY <2>1, <2>2, <2>3, <1>2 DEF OnlyRun
<1>4. CASE job.todo = <<>>
  <2> DEFINE new == [NoJob EXCEPT !.pc = "done"]
  <2>1. /\ jobs' = [jobs EXCEPT ![j] = new] /\ tests' = [tests EXCEPT ![s] = job.failed]
        /\ patches' = [patches EXCEPT ![s] = saved]
        /\ past' = IF s = Shared THEN Resaved(h, saved) ELSE h
    BY <1>4 DEF Proceeds
  <2>2. WellFormed(new) /\ new.pc = "done"
    BY NoJobWellFormed
  <2>3. job.drafts \in Seq(Patch) /\ patches[s] \in Seq(Patch)
    BY <1>1, <1>2 DEF WellFormed
  <2>4. saved \in Seq(Patch)
    BY <2>3, PreservedFacts
  <2>5. s = Shared => RowsReviewed(saved, Resaved(h, saved)) /\ ApprovedRows(saved, Resaved(h, saved))
    BY <2>3, SaveReviewed
  <2>6. /\ Resaved(h, saved) \in Past /\ h.approved \subseteq Resaved(h, saved).approved
        /\ h.rewritten \subseteq Resaved(h, saved).rewritten
    BY <2>4, ResavedFacts
  <2> HIDE DEF new, saved, s
  <2>7. /\ DOMAIN jobs' = Jobs /\ jobs'[j] = new /\ DOMAIN tests' = Stores
        /\ \A k \in Jobs \ {j} : jobs'[k] = jobs[k]
        /\ \A t \in Stores \ {s} : patches'[t] = patches[t] /\ tests'[t] = tests[t]
        /\ patches' \in [Stores -> Seq(Patch)] /\ patches'[s] = saved
    BY <2>1, <2>4, <1>1, <1>2
  <2>8. /\ past' \in Past
        /\ RowsReviewed(patches'[Shared], past') /\ ApprovedRows(patches'[Shared], past')
        /\ h.approved \subseteq past'.approved /\ h.rewritten \subseteq past'.rewritten
    <3>1. CASE s = Shared
      BY <3>1, <2>1, <2>5, <2>6, <2>7
    <3>2. CASE s # Shared
      BY <3>2, <2>1, <2>7, <1>1
    <3> QED
      BY <3>1, <3>2
  <2>9. OnlyRun(j)
    BY <2>7 DEF OnlyRun, s
  <2> QED
    BY <2>2, <2>7, <2>8, <2>9, <1>2
<1> QED
  BY <1>3, <1>4

LEMMA CountedFacts ==
  ASSUME past \in Past, past.left > 0
  PROVE  /\ Counted \in Past /\ Counted.verdict = past.verdict /\ Counted.blurred = past.blurred
         /\ Counted.approved = past.approved /\ Counted.rewritten = past.rewritten
BY DEF Counted, Past

LEMMA SameHistory ==
  ASSUME NEW h, NEW g, g.verdict = h.verdict, g.blurred = h.blurred, g.approved = h.approved,
         g.rewritten = h.rewritten, NEW file
  PROVE  /\ RowsReviewed(file, h) => RowsReviewed(file, g)
         /\ ApprovedRows(file, h) => ApprovedRows(file, g)
BY DEF RowsReviewed, ApprovedRows

\* Every way a run proceeds.
LEMMA ProceedsKeeps ==
  ASSUME FilesAndShared, NEW h, h = past \/ (h = Counted /\ past.left > 0),
         NEW j \in Jobs, NEW job, WellFormed(job), Proceeds(j, job, h), UNCHANGED candidates
  PROVE  FilesAndShared' /\ OnlyRun(j) /\ jobs'[j].pc \in {"running", "done"}
<1>1. /\ h \in Past /\ h.verdict = past.verdict /\ h.blurred = past.blurred
      /\ h.approved = past.approved /\ h.rewritten = past.rewritten
  BY CountedFacts DEF FilesAndShared, FilesOK
<1>2. FilesOK /\ RowsReviewed(patches[Shared], h) /\ ApprovedRows(patches[Shared], h)
  BY <1>1, SameHistory DEF FilesAndShared, SharedOK
<1>3. /\ patches' \in [Stores -> Seq(Patch)] /\ DOMAIN tests' = Stores
      /\ DOMAIN jobs' = Jobs /\ (\A k \in Jobs : WellFormed(jobs'[k])) /\ past' \in Past
      /\ RowsReviewed(patches'[Shared], past') /\ ApprovedRows(patches'[Shared], past')
      /\ h.approved \subseteq past'.approved /\ h.rewritten \subseteq past'.rewritten
      /\ OnlyRun(j) /\ jobs'[j].pc \in {"running", "done"}
  BY <1>1, <1>2, ProceedsStep
<1>4. FilesOK'
  BY <1>2, <1>3 DEF FilesOK
<1>5. CandidatesApproved'
  BY <1>1, <1>3 DEF FilesAndShared, SharedOK, CandidatesApproved
<1> QED
  BY <1>3, <1>4, <1>5 DEF FilesAndShared, SharedOK

LEMMA EvaluateKeeps ==
  ASSUME FilesAndShared, NEW h, h = past \/ (h = Counted /\ past.left > 0),
         NEW j \in Jobs, NEW file, NEW n, Evaluate(j, file, n, h)
  PROVE  FilesAndShared' /\ OnlyRun(j) /\ jobs'[j].pc \in {"running", "done"}
<1> DEFINE job == [NoJob EXCEPT !.todo = Prefix(file, n)]
<1>1. job = [pc |-> "idle", todo |-> Prefix(file, n), failed |-> <<>>, drafts |-> <<>>]
  BY DEF NoJob
<1>2. WellFormed(job)
  <2>1. <<>> \in Seq(Patch)
    OBVIOUS
  <2> QED
    BY <1>1, <2>1, ZenonT(40) DEF WellFormed
<1>3. Proceeds(j, job, h) /\ UNCHANGED candidates
  BY DEF Evaluate
<1> HIDE DEF job
<1> QED
  BY <1>2, <1>3, ProceedsKeeps

LEMMA TraceKeeps ==
  ASSUME FilesAndShared, NEW j \in Jobs, TraceEvaluated(j)
  PROVE  FilesAndShared' /\ OnlyRun(j) /\ jobs'[j].pc \in {"running", "done"}
<1>1. PICK job \in Outcomes(jobs[j]) : Proceeds(j, job, past)
  BY DEF TraceEvaluated
<1>2. UNCHANGED candidates
  BY DEF TraceEvaluated
<1>3. WellFormed(job)
  <2> DEFINE rest == [jobs[j] EXCEPT !.todo = Tail(@)]
  <2>1. WellFormed(jobs[j])
    BY DEF FilesAndShared, FilesOK
  <2>2. PICK pc, todo, failed, drafts :
          /\ drafts \in Seq(Patch)
          /\ jobs[j] = [pc |-> pc, todo |-> todo, failed |-> failed, drafts |-> drafts]
    BY <2>1 DEF WellFormed
  <2>3. rest = [pc |-> pc, todo |-> Tail(todo), failed |-> failed, drafts |-> drafts]
    <3>1. ASSUME NEW old, old = [pc |-> pc, todo |-> todo, failed |-> failed, drafts |-> drafts]
          PROVE  [old EXCEPT !.todo = Tail(@)] =
                   [pc |-> pc, todo |-> Tail(todo), failed |-> failed, drafts |-> drafts]
      <4>1. old.todo = todo
        BY <3>1
      <4>2. \A t : [old EXCEPT !.todo = t] =
                      [pc |-> pc, todo |-> t, failed |-> failed, drafts |-> drafts]
        BY <3>1
      <4>3. [old EXCEPT !.todo = Tail(old.todo)] =
              [pc |-> pc, todo |-> Tail(old.todo), failed |-> failed, drafts |-> drafts]
        BY <4>2, Zenon
      <4> QED
        BY <4>1, <4>3, Zenon
    <3> QED
      BY <2>2, <3>1
  <2>5. CASE job = rest
    BY <2>2, <2>3, <2>5 DEF WellFormed
  <2>6. CASE job # rest
    <3> DEFINE x == Head(jobs[j].todo)
    <3> DEFINE made(d) == [id |-> d.id, text |-> d.text, target |-> d.target, status |-> "proposed"]
    <3>1. PICK d \in Drafts :
            job = [rest EXCEPT !.failed = Append(@, x), !.drafts = Append(@, made(d))]
      BY <1>1, <2>6 DEF Outcomes
    <3>2. made(d) \in Patch
      BY StoresOK DEF Draft, Patch, Statuses
    <3> HIDE DEF made, x
    <3>3. job = [pc |-> pc, todo |-> Tail(todo), failed |-> Append(failed, x),
                 drafts |-> Append(drafts, made(d))]
      BY <2>3, <3>1
    <3>4. Append(drafts, made(d)) \in Seq(Patch)
      BY <2>2, <3>2
    <3> QED
      BY <3>3, <3>4 DEF WellFormed
  <2> QED
    BY <2>5, <2>6
<1> QED
  BY <1>1, <1>2, <1>3, ProceedsKeeps

-----------------------------------------------------------------------------
\* A run that ends or is answered leaves the files alone.
LEMMA JobEndsKeeps ==
  ASSUME FilesAndShared, NEW j \in Jobs, NEW pc, jobs' = [jobs EXCEPT ![j] = [NoJob EXCEPT !.pc = pc]],
         UNCHANGED <<patches, tests, candidates, past>>
  PROVE  FilesAndShared' /\ OnlyRun(j) /\ jobs'[j].pc = pc
<1> DEFINE new == [NoJob EXCEPT !.pc = pc]
<1>1. WellFormed(new) /\ new.pc = pc
  BY NoJobWellFormed
<1> HIDE DEF new
<1>2. /\ DOMAIN jobs' = Jobs /\ jobs'[j] = new
      /\ \A k \in Jobs \ {j} : jobs'[k] = jobs[k]
  BY DEF FilesAndShared, FilesOK, new
<1>3. FilesOK'
  BY <1>1, <1>2 DEF FilesAndShared, FilesOK
<1>4. SharedOK'
  BY DEF FilesAndShared, SharedOK, CandidatesApproved
<1> QED
  BY <1>1, <1>2, <1>3, <1>4 DEF FilesAndShared, OnlyRun

LEMMA ImportKeeps ==
  ASSUME FilesAndShared, ImportTraces
  PROVE  FilesAndShared'
<1>1. /\ past' = Counted /\ past.left > 0
      /\ UNCHANGED <<patches, tests, candidates, jobs>>
  BY DEF ImportTraces
<1>2. /\ Counted \in Past /\ Counted.verdict = past.verdict /\ Counted.blurred = past.blurred
      /\ Counted.approved = past.approved /\ Counted.rewritten = past.rewritten
  BY <1>1, CountedFacts DEF FilesAndShared, FilesOK
<1>3. RowsReviewed(patches[Shared], Counted) /\ ApprovedRows(patches[Shared], Counted)
  BY <1>2, SameHistory DEF FilesAndShared, SharedOK
<1> QED
  BY <1>1, <1>2, <1>3 DEF FilesAndShared, FilesOK, SharedOK, CandidatesApproved

LEMMA ReviewKeeps ==
  ASSUME FilesAndShared, NEW i \in Ids, NEW status \in Statuses \ {"proposed"}, Review(i, status)
  PROVE  /\ FilesAndShared' /\ UNCHANGED <<tests, candidates, jobs>>
         /\ \A s \in Stores \ {Shared} : patches'[s] = patches[s]
<1> DEFINE file == patches[Shared]
<1> DEFINE k == Least(Rows(file, i))
<1> DEFINE row == [file[k] EXCEPT !.status = status]
<1>1. /\ Rows(file, i) # {} /\ past.left > 0
      /\ patches' = [patches EXCEPT ![Shared][k].status = status]
      /\ past' = [Counted EXCEPT !.verdict[i] = status,
           !.approved = @ \cup {<<i, t>> : t \in {file[k].text : x \in {status} \ {"rejected"}}}]
      /\ UNCHANGED <<traces, tests, candidates, jobs>>
  BY DEF Review
<1>2. /\ patches \in [Stores -> Seq(Patch)] /\ file \in Seq(Patch) /\ past \in Past /\ Shared \in Stores
  BY StoresOK DEF FilesAndShared, FilesOK
<1>3. k \in DOMAIN file /\ file[k].id = i /\ file[k] \in Patch /\ file[k].text \in Texts
  <2>1. k \in Rows(file, i)
    BY <1>1, <1>2, RowsFacts
  <2>2. k \in DOMAIN file /\ file[k].id = i
    BY <2>1 DEF Rows
  <2> QED
    BY <2>2, <1>2, PatchParts
<1> DEFINE more == {<<i, t>> : t \in {file[k].text : x \in {status} \ {"rejected"}}}
<1>4. more \subseteq Ids \X Texts /\ (status = "approved" => <<i, file[k].text>> \in more)
  BY <1>3
<1>5. row \in Patch /\ row.id = i /\ row.text = file[k].text /\ row.status = status
  BY <1>3 DEF Patch
<1> DEFINE new == [file EXCEPT ![k] = row]
<1>6. patches' = [patches EXCEPT ![Shared] = new]
  BY <1>1
<1>7. /\ new \in Seq(Patch) /\ DOMAIN new = DOMAIN file /\ new[k] = row
      /\ \A l \in DOMAIN file \ {k} : new[l] = file[l]
  BY <1>2, <1>3, <1>5
<1>8. /\ past' \in Past /\ past'.verdict = [past.verdict EXCEPT ![i] = status]
      /\ past'.blurred = past.blurred /\ past'.approved = past.approved \cup more
      /\ past'.rewritten = past.rewritten
  <2>1. /\ Counted \in Past /\ Counted.verdict = past.verdict /\ Counted.blurred = past.blurred
        /\ Counted.approved = past.approved /\ Counted.rewritten = past.rewritten
    BY <1>1, <1>2, CountedFacts
  <2>2. past' = [Counted EXCEPT !.verdict = [past.verdict EXCEPT ![i] = status],
                                !.approved = past.approved \cup more]
    BY <1>1, <2>1
  <2> HIDE DEF more
  <2>3. [past.verdict EXCEPT ![i] = status] \in [Ids -> Statuses]
    BY <1>2 DEF Past
  <2>4. past.approved \cup more \in SUBSET (Ids \X Texts)
    BY <1>2, <1>4 DEF Past
  <2> QED
    BY <2>1, <2>2, <2>3, <2>4 DEF Past
<1> HIDE DEF k, row, new, more
<1>9. /\ patches' \in [Stores -> Seq(Patch)] /\ patches'[Shared] = new
      /\ \A s \in Stores \ {Shared} : patches'[s] = patches[s]
  BY <1>2, <1>6, <1>7
<1>10. \A l \in DOMAIN file : new[l].id = file[l].id /\ new[l].text = file[l].text
  BY <1>3, <1>5, <1>7
<1>11. \A x : Rows(new, x) = Rows(file, x)
  BY <1>7, <1>10 DEF Rows
<1>12. RowsReviewed(new, past')
  <2> SUFFICES ASSUME NEW x \in Ids \ past.blurred
               PROVE  /\ \A l, m \in Rows(new, x) : l = m
                      /\ Rows(new, x) = {} => past'.verdict[x] = "proposed"
                      /\ \A l \in Rows(new, x) : new[l].status = past'.verdict[x]
    BY <1>8 DEF RowsReviewed
  <2>1. /\ \A l, m \in Rows(file, x) : l = m
        /\ Rows(file, x) = {} => past.verdict[x] = "proposed"
        /\ \A l \in Rows(file, x) : file[l].status = past.verdict[x]
    BY DEF FilesAndShared, SharedOK, RowsReviewed
  <2>2. past'.verdict[x] = IF x = i THEN status ELSE past.verdict[x]
    BY <1>2, <1>8 DEF Past
  <2>3. CASE x = i
    <3>1. Rows(new, x) # {} /\ k \in Rows(new, x)
      BY <2>3, <1>3, <1>5, <1>7 DEF Rows
    <3> QED
      BY <3>1, <2>1, <2>2, <2>3, <1>5, <1>7, <1>11
  <2>4. CASE x # i
    <3>1. k \notin Rows(file, x)
      BY <2>4, <1>3 DEF Rows
    <3>2. \A l \in Rows(file, x) : new[l] = file[l]
      BY <3>1, <1>7 DEF Rows
    <3> QED
      BY <3>2, <2>1, <2>2, <2>4, <1>11
  <2> QED
    BY <2>3, <2>4
<1>13. ApprovedRows(new, past')
  <2> SUFFICES ASSUME NEW l \in DOMAIN file, new[l].status = "approved"
               PROVE  <<new[l].id, new[l].text>> \in past'.approved \/ new[l].id \in past'.rewritten
    BY <1>7 DEF ApprovedRows
  <2>1. CASE l = k
    BY <2>1, <1>4, <1>5, <1>7, <1>8
  <2>2. CASE l # k
    BY <2>2, <1>7, <1>8 DEF FilesAndShared, SharedOK, ApprovedRows
  <2> QED
    BY <2>1, <2>2
<1>14. CandidatesApproved'
  BY <1>1, <1>8 DEF FilesAndShared, SharedOK, CandidatesApproved
<1>15. FilesOK'
  BY <1>1, <1>8, <1>9 DEF FilesAndShared, FilesOK
<1> QED
  BY <1>1, <1>9, <1>12, <1>13, <1>14, <1>15 DEF FilesAndShared, SharedOK

LEMMA PromoteKeeps ==
  ASSUME FilesAndShared, NEW i \in Ids, NEW override \in BOOLEAN, Promote(i, override)
  PROVE  /\ FilesAndShared' /\ UNCHANGED <<patches, tests, jobs>>
         /\ \A s \in Stores \ {Shared} : candidates'[s] = candidates[s]
<1> DEFINE file == patches[Shared]
<1> DEFINE k == Least(Rows(file, i))
<1>1. /\ past.left > 0 /\ Rows(file, i) # {} /\ file[k].status = "approved"
      /\ candidates' = [candidates EXCEPT ![Shared][i] = file[k].text]
      /\ past' = Counted /\ UNCHANGED <<traces, patches, tests, jobs>>
  BY DEF Promote, MayPromote, First, Promotable
<1>2. /\ file \in Seq(Patch) /\ past \in Past /\ Shared \in Stores
      /\ candidates \in [Stores -> [Ids -> Texts \cup {NoText}]]
  BY StoresOK DEF FilesAndShared, FilesOK
<1>3. k \in DOMAIN file /\ file[k].id = i /\ file[k].text \in Texts
  <2>1. k \in Rows(file, i)
    BY <1>1, <1>2, RowsFacts
  <2>2. k \in DOMAIN file /\ file[k].id = i
    BY <2>1 DEF Rows
  <2> QED
    BY <2>2, <1>2, PatchParts
<1> HIDE DEF k
<1>4. /\ Counted \in Past /\ Counted.verdict = past.verdict /\ Counted.blurred = past.blurred
      /\ Counted.approved = past.approved /\ Counted.rewritten = past.rewritten
  BY <1>1, <1>2, CountedFacts
<1>5. RowsReviewed(file, Counted) /\ ApprovedRows(file, Counted)
  BY <1>4, SameHistory DEF FilesAndShared, SharedOK
<1>6. /\ candidates' \in [Stores -> [Ids -> Texts \cup {NoText}]]
      /\ candidates'[Shared][i] = file[k].text
      /\ \A x \in Ids \ {i} : candidates'[Shared][x] = candidates[Shared][x]
      /\ \A s \in Stores \ {Shared} : candidates'[s] = candidates[s]
  BY <1>1, <1>2, <1>3
<1>7. <<i, file[k].text>> \in past.approved \/ i \in past.rewritten
  BY <1>1, <1>3 DEF FilesAndShared, SharedOK, ApprovedRows
<1>8. CandidatesApproved'
  <2> SUFFICES ASSUME NEW x \in Ids
               PROVE  \/ candidates'[Shared][x] = NoText
                      \/ <<x, candidates'[Shared][x]>> \in past.approved
                      \/ x \in past.rewritten
    BY <1>1, <1>4 DEF CandidatesApproved
  <2>1. CASE x = i
    BY <2>1, <1>6, <1>7
  <2>2. CASE x # i
    BY <2>2, <1>6 DEF FilesAndShared, SharedOK, CandidatesApproved
  <2> QED
    BY <2>1, <2>2
<1> QED
  BY <1>1, <1>4, <1>5, <1>6, <1>8 DEF FilesAndShared, FilesOK, SharedOK

-----------------------------------------------------------------------------
(* Autonomous runs *)

StatusTrue(q) ==
  LET a == auto[q] IN
  /\ a.status = "completed" =>
       /\ tests[q] # <<>> /\ "run_labeled_benchmark" \in a.did
       /\ a.goal.required /\ ~a.stale =>
            \A k \in DOMAIN patches[q] : candidates[q][patches[q][k].id] # NoText
  /\ a.status = "max_iterations_reached" => ~a.goal.rules \/ a.goal.iterations < 4

LEMMA RunStatusIsStatusTrue == RunStatusTrue <=> \A q \in Autos : StatusTrue(q)
BY DEF RunStatusTrue, StatusTrue

\* A step that a run does not notice; its files only change while it evaluates.
Quiet(q) ==
  /\ auto'[q] = auto[q] /\ (jobs'[q].pc = "idle" <=> jobs[q].pc = "idle")
  /\ auto[q].pc # "evaluating" =>
       patches'[q] = patches[q] /\ tests'[q] = tests[q] /\ candidates'[q] = candidates[q]

LEMMA QuietKeeps ==
  ASSUME NEW q \in Autos, AutoOK(q), StatusTrue(q), Quiet(q)
  PROVE  AutoOK(q)' /\ StatusTrue(q)'
<1>1. auto'[q] = auto[q] /\ (jobs'[q].pc = "idle" <=> jobs[q].pc = "idle")
  BY DEF Quiet
<1>2. CASE auto[q].pc = "evaluating"
  <2>1. auto[q].status = "none"
    BY <1>2 DEF AutoOK
  <2> QED
    BY <1>1, <1>2, <2>1 DEF AutoOK, StatusTrue
<1>3. CASE auto[q].pc # "evaluating"
  <2>1. patches'[q] = patches[q] /\ tests'[q] = tests[q] /\ candidates'[q] = candidates[q]
    BY <1>3 DEF Quiet
  <2>2. WithTarget(q)' = WithTarget(q) /\ AllGenerated(q)' = AllGenerated(q)
    BY <2>1 DEF WithTarget, AllGenerated
  <2> QED
    BY <1>1, <2>1, <2>2 DEF AutoOK, StatusTrue
<1> QED
  BY <1>2, <1>3

LEMMA AutosFacts ==
  /\ \A q \in Autos : q \in Jobs /\ q \in Stores /\ StoreOf[q] = q /\ q # Shared
  /\ \A j \in Jobs, q \in Autos : j # q => StoreOf[j] # q
BY AutosOK

\* Steps of another run, or of the shared service.
LEMMA OtherRunQuiet ==
  ASSUME NEW j \in Jobs, OnlyRun(j), UNCHANGED <<candidates, auto>>,
         NEW q \in Autos, q # j
  PROVE  Quiet(q)
BY AutosFacts DEF OnlyRun, Quiet

LEMMA ServiceStep ==
  ASSUME IInv, Next, UNCHANGED auto
  PROVE  FilesAndShared' /\ \A q \in Autos : Quiet(q)
<1>1. FilesAndShared
  BY DEF IInv, FilesAndShared
<1>2. CASE ImportTraces
  BY <1>1, <1>2, ImportKeeps DEF ImportTraces, Quiet
<1>3. ASSUME NEW j \in Jobs, StoreOf[j] = Shared,
             (\E n \in Limits : RunEvaluation(j, n)) \/ RunFeedback(j) \/ Responded(j)
      PROVE  FilesAndShared' /\ \A q \in Autos : Quiet(q)
  <2>1. \A q \in Autos : q # j
    BY <1>3, AutosFacts
  <2>2. CASE \E n \in Limits : RunEvaluation(j, n)
    <3>1. PICK n \in Limits : Evaluate(j, traces, n, Counted) /\ past.left > 0
      BY <2>2 DEF RunEvaluation
    <3>2. FilesAndShared' /\ OnlyRun(j)
      BY <1>1, <3>1, EvaluateKeeps
    <3> QED
      BY <2>1, <3>1, <3>2, OtherRunQuiet DEF Evaluate
  <2>3. CASE RunFeedback(j)
    <3>1. PICK file : Evaluate(j, file, Len(file), Counted) /\ past.left > 0
      BY <2>3 DEF RunFeedback
    <3>2. FilesAndShared' /\ OnlyRun(j)
      BY <1>1, <3>1, EvaluateKeeps
    <3> QED
      BY <2>1, <3>1, <3>2, OtherRunQuiet DEF Evaluate
  <2>4. CASE Responded(j)
    <3>1. jobs' = [jobs EXCEPT ![j] = [NoJob EXCEPT !.pc = "idle"]]
      <4>1. NoJob = [NoJob EXCEPT !.pc = "idle"]
        BY DEF NoJob
      <4> QED
        BY <2>4, <4>1 DEF Responded
    <3>2. UNCHANGED <<patches, tests, candidates, past>>
      BY <2>4 DEF Responded
    <3>3. FilesAndShared' /\ OnlyRun(j)
      BY <1>1, <3>1, <3>2, JobEndsKeeps
    <3> QED
      BY <2>1, <3>2, <3>3, OtherRunQuiet
  <2> QED
    BY <1>3, <2>2, <2>3, <2>4
<1>4. ASSUME NEW i \in Ids, NEW status \in Statuses \ {"proposed"}, Review(i, status)
      PROVE  FilesAndShared' /\ \A q \in Autos : Quiet(q)
  <2>1. /\ FilesAndShared' /\ UNCHANGED <<tests, candidates, jobs>>
        /\ \A s \in Stores \ {Shared} : patches'[s] = patches[s]
    BY <1>1, <1>4, ReviewKeeps
  <2> QED
    BY <2>1, AutosFacts DEF Quiet
<1>5. ASSUME NEW i \in Ids, NEW override \in BOOLEAN, Promote(i, override)
      PROVE  FilesAndShared' /\ \A q \in Autos : Quiet(q)
  <2>1. /\ FilesAndShared' /\ UNCHANGED <<patches, tests, jobs>>
        /\ \A s \in Stores \ {Shared} : candidates'[s] = candidates[s]
    BY <1>1, <1>5, PromoteKeeps
  <2> QED
    BY <2>1, AutosFacts DEF Quiet
<1>6. CASE UNCHANGED vars
  <2>1. UNCHANGED <<patches, tests, candidates, jobs, past>>
    BY <1>6 DEF vars
  <2> QED
    BY <1>1, <2>1 DEF FilesAndShared, FilesOK, SharedOK, CandidatesApproved, Quiet
<1>7. ASSUME NEW j \in Jobs, TraceEvaluated(j) \/ CallFails(j)
      PROVE  FilesAndShared' /\ \A q \in Autos : Quiet(q)
  <2>1. jobs[j].pc = "running" /\ UNCHANGED candidates
    BY <1>7 DEF TraceEvaluated, CallFails
  <2>2. FilesAndShared' /\ OnlyRun(j) /\ jobs'[j].pc \in {"running", "done", "raised"}
    <3>1. CASE TraceEvaluated(j)
      BY <1>1, <3>1, TraceKeeps
    <3>2. CASE CallFails(j)
      <4>1. /\ jobs' = [jobs EXCEPT ![j] = [NoJob EXCEPT !.pc = "raised"]]
            /\ UNCHANGED <<patches, tests, candidates, past>>
        BY <3>2 DEF CallFails
      <4> QED
        BY <1>1, <4>1, JobEndsKeeps
    <3> QED
      BY <1>7, <3>1, <3>2
  <2>3. ASSUME j \in Autos PROVE Quiet(j)
    <3>1. auto[j].pc = "evaluating"
      BY <2>1, <2>3 DEF IInv, AutoOK
    <3> QED
      BY <2>1, <2>2, <3>1 DEF Quiet
  <2> QED
    BY <2>1, <2>2, <2>3, OtherRunQuiet
<1> QED
  BY <1>2, <1>3, <1>4, <1>5, <1>6, <1>7 DEF Next, Request, Answers, Refused

-----------------------------------------------------------------------------
(* Iterations *)

LEMMA GoalParts ==
  ASSUME NEW a \in Run, a.goal # NoGoal
  PROVE  a.goal \in Goal /\ a.goal.rules \in BOOLEAN /\ a.goal.required \in BOOLEAN
         /\ a.goal.iterations \in 1..20
<1>1. a.goal \in Goal
  BY AutosOK DEF Run
<1> QED
  BY <1>1 DEF Goal

LEMMA TriedFacts ==
  ASSUME NEW did \in SUBSET Tools, NEW tool \in Tools, tool \notin did
  PROVE  /\ Tried(did \cup {tool}) = Tried(did) + 1
         /\ Tried(did \cup {tool}) \in 0..3 /\ Tried(did) \in 0..3
BY DEF Tried, Tools

\* As many candidate files as patches: every patch has a target, and its file.
LEMMA AllHaveTargets ==
  ASSUME FilesOK, NEW q \in Stores, NEW made, made >= Len(patches[q]),
         made = Cardinality(WithTarget(q))
  PROVE  WithTarget(q) = DOMAIN patches[q]
<1> DEFINE n == Len(patches[q])
<1>1. n \in Nat /\ DOMAIN patches[q] = 1..n
  BY DEF FilesOK
<1>2. IsFiniteSet(1..n) /\ Cardinality(1..n) = n
  BY <1>1, FS_Interval
<1>3. WithTarget(q) \subseteq 1..n
  BY <1>1 DEF WithTarget
<1>4. Cardinality(WithTarget(q)) <= n /\ (Cardinality(WithTarget(q)) = n => WithTarget(q) = 1..n)
  BY <1>2, <1>3, FS_Subset
<1>5. Cardinality(WithTarget(q)) \in Nat
  BY <1>2, <1>3, FS_Subset, FS_CardinalityType
<1> QED
  BY <1>1, <1>4, <1>5

\* What the gates have seen when a run is completed; cand are the candidate
\* files it leaves.
LEMMA GatesSeen ==
  ASSUME FilesOK, NEW q \in Autos, NEW a \in Run, a.goal # NoGoal, AllGatesPass(q, a),
         a.benchmark # "none" => "run_labeled_benchmark" \in a.did, NEW cand,
         a.made > 0 /\ ~a.stale => /\ a.made = Cardinality(WithTarget(q))
                                  /\ \A k \in WithTarget(q) : cand[patches[q][k].id] # NoText
  PROVE  /\ tests[q] # <<>> /\ "run_labeled_benchmark" \in a.did
         /\ a.goal.required /\ ~a.stale =>
              \A k \in DOMAIN patches[q] : cand[patches[q][k].id] # NoText
<1>1. /\ tests[q] # <<>> /\ a.benchmark = "good"
      /\ a.goal.required => patches[q] # <<>> /\ a.made >= Len(patches[q])
  BY DEF AllGatesPass, EvaluationsCreated, CandidatePrompts
<1>2. ASSUME a.goal.required, ~a.stale
      PROVE  \A k \in DOMAIN patches[q] : cand[patches[q][k].id] # NoText
  <2>1. patches[q] \in Seq(Patch) /\ q \in Stores
    BY AutosFacts DEF FilesOK
  <2>2. Len(patches[q]) > 0 /\ Len(patches[q]) \in Nat /\ a.made \in Nat
    BY <1>1, <1>2, <2>1 DEF Run
  <2>3. a.made > 0 /\ a.made >= Len(patches[q])
    BY <1>1, <1>2, <2>2
  <2>4. WithTarget(q) = DOMAIN patches[q]
    BY <1>2, <2>1, <2>3, AllHaveTargets
  <2> QED
    BY <1>2, <2>3, <2>4
<1> QED
  BY <1>1, <1>2

\* A step of the loop that keeps patches and tests, and leaves the run idle.
LoopStep(q, a) ==
  /\ auto' = [auto EXCEPT ![q] = a] /\ patches'[q] = patches[q] /\ tests'[q] = tests[q]
  /\ jobs'[q].pc = "idle"

\* The end of an iteration, whatever the tool changed of the run.
LEMMA IteratedKeeps ==
  ASSUME IInv, NEW q \in Autos, NEW a \in Run, a.goal # NoGoal, a.status = "none",
         NEW tool \in Tools, LoopStep(q, Iterated(q, a, tool)),
         a.benchmark # "none" => "run_labeled_benchmark" \in a.did \cup {tool},
         a.made > 0 /\ ~a.stale =>
           /\ a.made = Cardinality(WithTarget(q))
           /\ \A k \in WithTarget(q) : candidates'[q][patches[q][k].id] # NoText,
         a.goal.rules => a.used = Tried(a.did) /\ tool \notin a.did
  PROVE  AutoOK(q)' /\ StatusTrue(q)'
<1> DEFINE b == [a EXCEPT !.used = @ + 1, !.did = @ \cup {tool}, !.pc = "planning"]
<1>1. /\ b \in Run /\ b.used = a.used + 1 /\ b.did = a.did \cup {tool} /\ b.pc = "planning"
      /\ b.goal = a.goal /\ b.benchmark = a.benchmark /\ b.made = a.made
      /\ b.status = "none" /\ b.stale = a.stale
  <2>1. a.used \in Nat /\ a.did \in SUBSET Tools
    BY DEF Run
  <2>2. a.used + 1 \in Nat /\ a.did \cup {tool} \in SUBSET Tools
    BY <2>1
  <2> QED
    BY <2>1, <2>2 DEF Run
<1>2. /\ auto'[q] = Iterated(q, a, tool) /\ FilesOK
      /\ WithTarget(q)' = WithTarget(q) /\ patches'[q] = patches[q] /\ tests'[q] = tests[q]
      /\ jobs'[q].pc = "idle"
  BY DEF LoopStep, IInv, WithTarget
<1>3. b.goal.rules \in BOOLEAN /\ b.goal.iterations \in 1..20
  BY <1>1, GoalParts
<1>4. b.goal.rules => b.used = Tried(b.did) /\ b.used <= 3
  <2>1. a.did \in SUBSET Tools
    BY DEF Run
  <2> QED
    BY <2>1, <1>1, TriedFacts
<1>5. Iterated(q, a, tool) =
        IF b.used < b.goal.iterations THEN b
        ELSE Ends(b, IF AllGatesPass(q, b) THEN "completed" ELSE "max_iterations_reached")
  BY DEF Iterated
<1>6. b.made > 0 /\ ~b.stale =>
        /\ b.made = Cardinality(WithTarget(q))
        /\ \A k \in WithTarget(q) : candidates'[q][patches[q][k].id] # NoText
  BY <1>1
<1>7. b.benchmark # "none" => "run_labeled_benchmark" \in b.did
  BY <1>1
<1> HIDE DEF b
<1>8. CASE b.used < b.goal.iterations
  <2>1. auto'[q] = b
    BY <1>2, <1>5, <1>8
  <2>2. AllGenerated(q)' \/ ~(b.made > 0 /\ ~b.stale)
    BY <1>2, <1>6 DEF AllGenerated
  <2>3. OncePerTool(auto'[q])
    BY <2>1, <1>1, <1>4 DEF OncePerTool
  <2>4. AutoOK(q)'
    BY <2>1, <2>2, <2>3, <1>1, <1>2, <1>6, <1>7 DEF AutoOK
  <2> QED
    BY <2>1, <2>4, <1>1 DEF StatusTrue
<1>9. CASE ~(b.used < b.goal.iterations)
  <2>1. PICK status \in {"completed", "max_iterations_reached"} :
          /\ auto'[q] = Ends(b, status)
          /\ status = "completed" => AllGatesPass(q, b)
    BY <1>2, <1>5, <1>9
  <2>2. /\ auto'[q] \in Run /\ auto'[q].pc = "ended" /\ auto'[q].status = status
        /\ auto'[q].goal = b.goal /\ auto'[q].benchmark = b.benchmark
        /\ auto'[q].did = b.did /\ auto'[q].stale = b.stale
    BY <2>1, <1>1 DEF Ends, Run, RunStatus
  <2>3. OncePerTool(auto'[q])
    BY <2>2 DEF OncePerTool
  <2>4. AutoOK(q)'
    BY <2>2, <2>3, <1>1, <1>2, <1>7 DEF AutoOK
  <2>5. status = "max_iterations_reached" => ~b.goal.rules \/ b.goal.iterations < 4
    BY <1>1, <1>3, <1>4, <1>9 DEF Run
  <2>6. ASSUME status = "completed"
        PROVE  /\ tests[q] # <<>> /\ "run_labeled_benchmark" \in b.did
               /\ b.goal.required /\ ~b.stale =>
                    \A k \in DOMAIN patches[q] : candidates'[q][patches[q][k].id] # NoText
    <3>1. AllGatesPass(q, b) /\ b.goal # NoGoal
      BY <2>1, <2>6, <1>1
    <3> QED
      BY <3>1, <1>1, <1>2, <1>6, <1>7, GatesSeen
  <2>7. StatusTrue(q)'
    BY <2>2, <2>5, <2>6, <1>2 DEF StatusTrue
  <2> QED
    BY <2>4, <2>7
<1> QED
  BY <1>8, <1>9

\* A run that ends without a claim about what it left behind.
LEMMA EndsKeeps ==
  ASSUME NEW q \in Autos, NEW a \in Run, a.goal # NoGoal,
         a.benchmark # "none" => "run_labeled_benchmark" \in a.did,
         NEW status \in {"none", "failed", "blocked"},
         auto'[q] = Ends(a, status), jobs'[q].pc = "idle"
  PROVE  AutoOK(q)' /\ StatusTrue(q)'
<1>1. /\ auto'[q] \in Run /\ auto'[q].pc = "ended" /\ auto'[q].status = status
      /\ auto'[q].goal = a.goal /\ auto'[q].benchmark = a.benchmark /\ auto'[q].did = a.did
  BY DEF Ends, Run, RunStatus
<1>2. OncePerTool(auto'[q])
  BY <1>1 DEF OncePerTool
<1> QED
  BY <1>1, <1>2 DEF AutoOK, StatusTrue

-----------------------------------------------------------------------------
(* The steps of the loop *)

LEMMA OneRunMoves ==
  ASSUME IInv, NEW q \in Autos, FilesAndShared', \A p \in Autos \ {q} : Quiet(p),
         DOMAIN auto' = Autos, AutoOK(q)', StatusTrue(q)'
  PROVE  IInv'
<1>1. \A p \in Autos : StatusTrue(p)
  BY RunStatusIsStatusTrue DEF IInv
<1>2. ASSUME NEW p \in Autos PROVE AutoOK(p)' /\ StatusTrue(p)'
  <2>1. CASE p = q
    BY <2>1
  <2>2. CASE p # q
    <3>1. AutoOK(p) /\ StatusTrue(p) /\ Quiet(p)
      BY <2>2, <1>1 DEF IInv
    <3> QED
      BY <3>1, QuietKeeps
  <2> QED
    BY <2>1, <2>2
<1>3. \A p \in Autos : AutoOK(p)'
  BY <1>2
<1>4. RunStatusTrue'
  BY <1>2 DEF RunStatusTrue, StatusTrue
<1> QED
  BY <1>3, <1>4 DEF IInv, FilesAndShared

\* The loop of a run goes on without a file being touched.
LoopOnly(q, a) == Becomes(q, a) /\ UNCHANGED <<files, jobs>>

LEMMA LoopOnlyFacts ==
  ASSUME IInv, NEW q \in Autos, NEW a, LoopOnly(q, a)
  PROVE  /\ FilesAndShared' /\ (\A p \in Autos \ {q} : Quiet(p)) /\ DOMAIN auto' = Autos
         /\ auto'[q] = a /\ UNCHANGED <<patches, tests, candidates, jobs>>
         /\ jobs[q].pc = "idle" => LoopStep(q, a)
<1>1. UNCHANGED <<patches, tests, candidates, jobs, past>> /\ auto' = [auto EXCEPT ![q] = a]
  BY DEF LoopOnly, Becomes, files
<1>2. FilesAndShared'
  BY <1>1 DEF IInv, FilesAndShared, FilesOK, SharedOK, CandidatesApproved
<1>3. DOMAIN auto = Autos
  BY DEF IInv
<1> QED
  BY <1>1, <1>2, <1>3 DEF LoopStep, Quiet

\* The rule-based planner starts no tool twice.
LEMMA ChosenOnce ==
  ASSUME NEW q \in Autos, NEW tool \in Tools, tool \in Choices(q), auto[q].goal.rules
  PROVE  tool \notin auto[q].did
<1> DEFINE u == Unmet(q, auto[q])
<1>1. u \subseteq Tools \ auto[q].did
  BY DEF Unmet
<1>2. tool = RuleChoice(q, auto[q]) /\ tool # "finish"
  BY DEF Choices, Tools
<1>3. RuleChoice(q, auto[q]) \in u \cup {"finish"}
  BY DEF RuleChoice
<1> QED
  BY <1>1, <1>2, <1>3

\* What is known of a run before it moves.
LEMMA RunKnown ==
  ASSUME IInv, NEW q \in Autos, auto[q].pc # "new"
  PROVE  LET a == auto[q] IN
         /\ a \in Run /\ a.goal # NoGoal /\ a.goal.rules \in BOOLEAN
         /\ a.used \in Nat /\ a.did \in SUBSET Tools /\ a.made \in Nat /\ a.stale \in BOOLEAN
         /\ a.pc # "ended" => a.status = "none"
         /\ jobs[q].pc = "idle" <=> a.pc # "evaluating"
         /\ a.benchmark # "none" => "run_labeled_benchmark" \in a.did
         /\ a.pc \in {"planning", "benchmarking"} /\ a.made > 0 /\ ~a.stale =>
              AllGenerated(q) /\ a.made = Cardinality(WithTarget(q))
         /\ a.goal.rules /\ a.pc \in {"planning", "evaluating", "benchmarking"} =>
              /\ a.used = Tried(a.did)
              /\ a.pc = "evaluating" => "evaluate_traces" \notin a.did
              /\ a.pc = "benchmarking" => "run_labeled_benchmark" \notin a.did
<1>1. AutoOK(q)
  BY DEF IInv
<1>2. auto[q] \in Run /\ auto[q].goal # NoGoal
  BY <1>1 DEF AutoOK
<1>3. auto[q].goal.rules \in BOOLEAN
  BY <1>2, GoalParts
<1>4. /\ auto[q].used \in Nat /\ auto[q].did \in SUBSET Tools
      /\ auto[q].made \in Nat /\ auto[q].stale \in BOOLEAN
  BY <1>2 DEF Run
<1> QED
  BY <1>1, <1>2, <1>3, <1>4 DEF AutoOK, OncePerTool

LEMMA StartRunKeeps ==
  ASSUME IInv, NEW q \in Autos, StartRun(q)
  PROVE  IInv'
<1> DEFINE a == auto[q]
<1> DEFINE b == [a EXCEPT !.pc = "planning"]
<1>1. a.pc = "new" /\ a.goal # NoGoal /\ LoopOnly(q, b)
  BY DEF StartRun, LoopOnly
<1>2. /\ FilesAndShared' /\ (\A p \in Autos \ {q} : Quiet(p)) /\ DOMAIN auto' = Autos
      /\ auto'[q] = b /\ UNCHANGED <<patches, tests, candidates, jobs>>
  BY <1>1, LoopOnlyFacts
<1>3. /\ a \in Run /\ a.used = 0 /\ a.did = {} /\ a.made = 0 /\ a.status = "none"
      /\ jobs[q].pc = "idle" /\ (a.benchmark # "none" => "run_labeled_benchmark" \in a.did)
  BY <1>1 DEF IInv, AutoOK
<1>4. /\ b \in Run /\ b.pc = "planning" /\ b.goal = a.goal /\ b.used = 0 /\ b.did = {}
      /\ b.made = 0 /\ b.status = "none" /\ b.benchmark = a.benchmark
  BY <1>3 DEF Run
<1>5. Tried({}) = 0
  BY DEF Tried
<1> HIDE DEF b
<1>6. OncePerTool(b)
  BY <1>4, <1>5 DEF OncePerTool
<1>7. AutoOK(q)' /\ StatusTrue(q)'
  BY <1>1, <1>2, <1>3, <1>4, <1>6 DEF AutoOK, StatusTrue
<1> QED
  BY <1>2, <1>7, OneRunMoves

LEMMA PlannerFailsKeeps ==
  ASSUME IInv, NEW q \in Autos, PlannerFails(q)
  PROVE  IInv'
<1>1. auto[q].pc = "planning" /\ LoopOnly(q, Ends(auto[q], "none"))
  BY DEF PlannerFails, LoopOnly
<1>2. /\ FilesAndShared' /\ (\A p \in Autos \ {q} : Quiet(p)) /\ DOMAIN auto' = Autos
      /\ auto'[q] = Ends(auto[q], "none") /\ UNCHANGED jobs
  BY <1>1, LoopOnlyFacts
<1>3. /\ auto[q] \in Run /\ auto[q].goal # NoGoal /\ jobs[q].pc = "idle"
      /\ auto[q].benchmark # "none" => "run_labeled_benchmark" \in auto[q].did
  BY <1>1, RunKnown
<1>4. AutoOK(q)' /\ StatusTrue(q)'
  BY <1>2, <1>3, EndsKeeps
<1> QED
  BY <1>2, <1>4, OneRunMoves

LEMMA FinishKeeps ==
  ASSUME IInv, NEW q \in Autos, Finish(q)
  PROVE  IInv'
<1> DEFINE a == [auto[q] EXCEPT !.used = @ + 1]
<1>1. PICK status \in {"completed", "blocked"} :
        /\ LoopOnly(q, Ends(a, status))
        /\ status = "completed" => AllGatesPass(q, auto[q])
  BY DEF Finish, LoopOnly
<1>2. auto[q].pc = "planning" /\ FilesOK
  BY DEF Finish, IInv
<1>3. /\ FilesAndShared' /\ (\A p \in Autos \ {q} : Quiet(p)) /\ DOMAIN auto' = Autos
      /\ auto'[q] = Ends(a, status) /\ UNCHANGED <<patches, tests, candidates, jobs>>
  BY <1>1, LoopOnlyFacts
<1>4. /\ auto[q] \in Run /\ auto[q].goal # NoGoal /\ jobs[q].pc = "idle" /\ auto[q].used \in Nat
      /\ auto[q].benchmark # "none" => "run_labeled_benchmark" \in auto[q].did
      /\ auto[q].made > 0 /\ ~auto[q].stale =>
           AllGenerated(q) /\ auto[q].made = Cardinality(WithTarget(q))
  BY <1>2, RunKnown
<1>5. /\ a \in Run /\ a.goal = auto[q].goal /\ a.benchmark = auto[q].benchmark
      /\ a.did = auto[q].did /\ a.made = auto[q].made /\ a.stale = auto[q].stale
  BY <1>4 DEF Run
<1> HIDE DEF a
<1>6. CASE status = "completed"
  <2>1. /\ tests[q] # <<>> /\ "run_labeled_benchmark" \in auto[q].did
        /\ auto[q].goal.required /\ ~auto[q].stale =>
             \A k \in DOMAIN patches[q] : candidates[q][patches[q][k].id] # NoText
    <3>1. \A k \in WithTarget(q) : auto[q].made > 0 /\ ~auto[q].stale =>
                                     candidates[q][patches[q][k].id] # NoText
      BY <1>4 DEF AllGenerated
    <3>2. AllGatesPass(q, auto[q])
      BY <1>1, <1>6
    <3> QED
      BY <3>1, <3>2, <1>2, <1>4, GatesSeen
  <2>2. /\ auto'[q] \in Run /\ auto'[q].pc = "ended" /\ auto'[q].status = "completed"
        /\ auto'[q].goal = a.goal /\ auto'[q].benchmark = a.benchmark
        /\ auto'[q].did = a.did /\ auto'[q].stale = a.stale
    BY <1>3, <1>5, <1>6 DEF Ends, Run, RunStatus
  <2>3. OncePerTool(auto'[q])
    BY <2>2 DEF OncePerTool
  <2>4. AutoOK(q)'
    BY <2>2, <2>3, <1>3, <1>4, <1>5 DEF AutoOK
  <2>5. StatusTrue(q)'
    BY <2>1, <2>2, <1>3, <1>5 DEF StatusTrue
  <2> QED
    BY <2>4, <2>5, <1>3, OneRunMoves
<1>7. CASE status # "completed"
  <2>1. status \in {"none", "failed", "blocked"} /\ jobs'[q].pc = "idle"
    BY <1>1, <1>3, <1>4, <1>7
  <2>2. a.goal # NoGoal /\ (a.benchmark # "none" => "run_labeled_benchmark" \in a.did)
    BY <1>4, <1>5
  <2>3. AutoOK(q)' /\ StatusTrue(q)'
    BY <2>1, <2>2, <1>3, <1>5, EndsKeeps
  <2> QED
    BY <2>3, <1>3, OneRunMoves
<1> QED
  BY <1>6, <1>7

LEMMA StartEvaluationKeeps ==
  ASSUME IInv, NEW q \in Autos, NEW n, StartEvaluation(q, n)
  PROVE  IInv'
<1> DEFINE b == [auto[q] EXCEPT !.pc = "evaluating"]
<1>1. /\ auto[q].pc = "planning" /\ "evaluate_traces" \in Choices(q)
      /\ Evaluate(q, traces, n, past) /\ auto' = [auto EXCEPT ![q] = b]
  BY DEF StartEvaluation, Becomes
<1>2. UNCHANGED candidates /\ q \in Jobs
  BY <1>1, AutosFacts DEF Evaluate
<1>3. FilesAndShared' /\ OnlyRun(q) /\ jobs'[q].pc \in {"running", "done"}
  BY <1>1, <1>2, EvaluateKeeps DEF IInv, FilesAndShared
<1>4. DOMAIN auto' = Autos /\ auto'[q] = b /\ \A p \in Autos \ {q} : auto'[p] = auto[p]
  BY <1>1 DEF IInv
<1>5. \A p \in Autos \ {q} : Quiet(p)
  BY <1>2, <1>3, <1>4, AutosFacts DEF OnlyRun, Quiet
<1>6. /\ auto[q] \in Run /\ auto[q].goal # NoGoal /\ auto[q].status = "none"
      /\ auto[q].benchmark # "none" => "run_labeled_benchmark" \in auto[q].did
      /\ auto[q].goal.rules => auto[q].used = Tried(auto[q].did)
  BY <1>1, RunKnown
<1>7. /\ b \in Run /\ b.pc = "evaluating" /\ b.goal = auto[q].goal /\ b.status = "none"
      /\ b.benchmark = auto[q].benchmark /\ b.did = auto[q].did /\ b.used = auto[q].used
  BY <1>6 DEF Run
<1>8. auto[q].goal.rules => "evaluate_traces" \notin auto[q].did
  BY <1>1, ChosenOnce DEF Tools
<1> HIDE DEF b
<1>9. OncePerTool(b)
  BY <1>6, <1>7, <1>8 DEF OncePerTool
<1>10. AutoOK(q)' /\ StatusTrue(q)'
  BY <1>3, <1>4, <1>6, <1>7, <1>9 DEF AutoOK, StatusTrue
<1> QED
  BY <1>3, <1>4, <1>5, <1>10, OneRunMoves

LEMMA EvaluationEndsKeeps ==
  ASSUME IInv, NEW q \in Autos, EvaluationEnds(q)
  PROVE  IInv'
<1> DEFINE a == [auto[q] EXCEPT !.stale = auto[q].made > 0]
<1>1. /\ auto[q].pc = "evaluating" /\ jobs' = [jobs EXCEPT ![q] = NoJob]
      /\ UNCHANGED <<patches, tests, candidates, past>>
  BY DEF EvaluationEnds, files
<1>2. PICK b : /\ auto' = [auto EXCEPT ![q] = b]
               /\ b = Failed(auto[q]) \/ b = Iterated(q, a, "evaluate_traces")
  BY DEF EvaluationEnds, Becomes
<1>3. FilesAndShared' /\ OnlyRun(q) /\ jobs'[q].pc = "idle"
  <2>1. jobs' = [jobs EXCEPT ![q] = [NoJob EXCEPT !.pc = "idle"]]
    BY <1>1 DEF NoJob
  <2> QED
    BY <2>1, <1>1, AutosFacts, JobEndsKeeps DEF IInv, FilesAndShared
<1>4. DOMAIN auto' = Autos /\ auto'[q] = b /\ \A p \in Autos \ {q} : auto'[p] = auto[p]
  BY <1>2 DEF IInv
<1>5. \A p \in Autos \ {q} : Quiet(p)
  BY <1>1, <1>3, <1>4, AutosFacts DEF OnlyRun, Quiet
<1>6. /\ auto[q] \in Run /\ auto[q].goal # NoGoal /\ auto[q].status = "none"
      /\ auto[q].used \in Nat /\ auto[q].made \in Nat
      /\ auto[q].benchmark # "none" => "run_labeled_benchmark" \in auto[q].did
      /\ auto[q].goal.rules => auto[q].used = Tried(auto[q].did) /\ "evaluate_traces" \notin auto[q].did
  BY <1>1, RunKnown
<1>7. CASE b = Failed(auto[q])
  <2> DEFINE c == [auto[q] EXCEPT !.used = @ + 1]
  <2>1. /\ c \in Run /\ c.goal = auto[q].goal /\ c.benchmark = auto[q].benchmark
        /\ c.did = auto[q].did /\ auto'[q] = Ends(c, "failed")
    BY <1>4, <1>6, <1>7 DEF Run, Failed
  <2> HIDE DEF c
  <2>2. c.goal # NoGoal /\ (c.benchmark # "none" => "run_labeled_benchmark" \in c.did)
    BY <2>1, <1>6
  <2>3. AutoOK(q)' /\ StatusTrue(q)'
    BY <2>1, <2>2, <1>3, EndsKeeps
  <2> QED
    BY <2>3, <1>3, <1>4, <1>5, OneRunMoves
<1>8. CASE b = Iterated(q, a, "evaluate_traces")
  <2> DEFINE anew == auto[q].made > 0
  <2>1. /\ a \in Run /\ a.goal = auto[q].goal /\ a.status = "none" /\ a.used = auto[q].used
        /\ a.did = auto[q].did /\ a.benchmark = auto[q].benchmark
        /\ ~(a.made > 0 /\ ~a.stale)
    <3>1. anew \in BOOLEAN
      OBVIOUS
    <3>2. a = [auto[q] EXCEPT !.stale = anew]
      OBVIOUS
    <3> HIDE DEF a, anew
    <3>3. /\ a \in Run /\ a.goal = auto[q].goal /\ a.status = "none" /\ a.used = auto[q].used
          /\ a.did = auto[q].did /\ a.benchmark = auto[q].benchmark
          /\ a.made = auto[q].made /\ a.stale = anew
      BY <1>6, <3>1, <3>2 DEF Run
    <3> QED
      BY <3>3 DEF anew
  <2>2. LoopStep(q, Iterated(q, a, "evaluate_traces"))
    BY <1>1, <1>2, <1>3, <1>8 DEF LoopStep
  <2> HIDE DEF a
  <2>3. /\ a.goal # NoGoal /\ (a.benchmark # "none" => "run_labeled_benchmark" \in a.did \cup {"evaluate_traces"})
        /\ a.goal.rules => a.used = Tried(a.did) /\ "evaluate_traces" \notin a.did
        /\ "evaluate_traces" \in Tools
    BY <2>1, <1>6 DEF Tools
  <2>4. AutoOK(q)' /\ StatusTrue(q)'
    BY <2>1, <2>2, <2>3, IteratedKeeps
  <2> QED
    BY <2>4, <1>3, <1>4, <1>5, OneRunMoves
<1> QED
  BY <1>2, <1>7, <1>8

LEMMA StartBenchmarkKeeps ==
  ASSUME IInv, NEW q \in Autos, StartBenchmark(q)
  PROVE  IInv'
<1> DEFINE b == [auto[q] EXCEPT !.pc = "benchmarking"]
<1>1. auto[q].pc = "planning" /\ "run_labeled_benchmark" \in Choices(q) /\ LoopOnly(q, b)
  BY DEF StartBenchmark, LoopOnly
<1>2. /\ FilesAndShared' /\ (\A p \in Autos \ {q} : Quiet(p)) /\ DOMAIN auto' = Autos
      /\ auto'[q] = b /\ UNCHANGED <<patches, tests, candidates, jobs>>
  BY <1>1, LoopOnlyFacts
<1>3. /\ auto[q] \in Run /\ auto[q].goal # NoGoal /\ auto[q].status = "none" /\ jobs[q].pc = "idle"
      /\ auto[q].benchmark # "none" => "run_labeled_benchmark" \in auto[q].did
      /\ auto[q].made > 0 /\ ~auto[q].stale =>
           AllGenerated(q) /\ auto[q].made = Cardinality(WithTarget(q))
      /\ auto[q].goal.rules => auto[q].used = Tried(auto[q].did)
  BY <1>1, RunKnown
<1>4. /\ b \in Run /\ b.pc = "benchmarking" /\ b.goal = auto[q].goal /\ b.status = "none"
      /\ b.benchmark = auto[q].benchmark /\ b.did = auto[q].did /\ b.used = auto[q].used
      /\ b.made = auto[q].made /\ b.stale = auto[q].stale
  BY <1>3 DEF Run
<1>5. auto[q].goal.rules => "run_labeled_benchmark" \notin auto[q].did
  BY <1>1, ChosenOnce DEF Tools
<1> HIDE DEF b
<1>6. OncePerTool(b)
  BY <1>3, <1>4, <1>5 DEF OncePerTool
<1>7. WithTarget(q)' = WithTarget(q) /\ AllGenerated(q)' = AllGenerated(q)
  BY <1>2 DEF WithTarget, AllGenerated
<1>8. AutoOK(q)' /\ StatusTrue(q)'
  BY <1>2, <1>3, <1>4, <1>6, <1>7 DEF AutoOK, StatusTrue
<1> QED
  BY <1>2, <1>8, OneRunMoves

LEMMA BenchmarkEndsKeeps ==
  ASSUME IInv, NEW q \in Autos, NEW result \in {"none", "good", "poor"}, BenchmarkEnds(q, result)
  PROVE  IInv'
<1> DEFINE a == [auto[q] EXCEPT !.benchmark = result]
<1>1. PICK b : /\ LoopOnly(q, b)
               /\ b = Failed(auto[q]) \/ b = Iterated(q, a, "run_labeled_benchmark")
  BY DEF BenchmarkEnds, LoopOnly
<1>2. auto[q].pc = "benchmarking"
  BY DEF BenchmarkEnds
<1>3. /\ FilesAndShared' /\ (\A p \in Autos \ {q} : Quiet(p)) /\ DOMAIN auto' = Autos
      /\ auto'[q] = b /\ UNCHANGED <<patches, tests, candidates, jobs>>
      /\ jobs[q].pc = "idle" => LoopStep(q, b)
  BY <1>1, LoopOnlyFacts
<1>4. /\ auto[q] \in Run /\ auto[q].goal # NoGoal /\ auto[q].status = "none" /\ jobs[q].pc = "idle"
      /\ auto[q].used \in Nat
      /\ auto[q].benchmark # "none" => "run_labeled_benchmark" \in auto[q].did
      /\ auto[q].made > 0 /\ ~auto[q].stale =>
           AllGenerated(q) /\ auto[q].made = Cardinality(WithTarget(q))
      /\ auto[q].goal.rules => auto[q].used = Tried(auto[q].did)
                               /\ "run_labeled_benchmark" \notin auto[q].did
  BY <1>2, RunKnown
<1>5. CASE b = Failed(auto[q])
  <2> DEFINE c == [auto[q] EXCEPT !.used = @ + 1]
  <2>1. /\ c \in Run /\ c.goal = auto[q].goal /\ c.benchmark = auto[q].benchmark
        /\ c.did = auto[q].did /\ auto'[q] = Ends(c, "failed")
    BY <1>3, <1>4, <1>5 DEF Run, Failed
  <2> HIDE DEF c
  <2>2. c.goal # NoGoal /\ (c.benchmark # "none" => "run_labeled_benchmark" \in c.did)
    BY <2>1, <1>4
  <2>3. jobs'[q].pc = "idle"
    BY <1>3, <1>4
  <2>4. AutoOK(q)' /\ StatusTrue(q)'
    BY <2>1, <2>2, <2>3, EndsKeeps
  <2> QED
    BY <2>4, <1>3, OneRunMoves
<1>6. CASE b = Iterated(q, a, "run_labeled_benchmark")
  <2>1. /\ a \in Run /\ a.goal = auto[q].goal /\ a.status = "none" /\ a.used = auto[q].used
        /\ a.did = auto[q].did /\ a.made = auto[q].made /\ a.stale = auto[q].stale
    BY <1>4 DEF Run
  <2>2. LoopStep(q, Iterated(q, a, "run_labeled_benchmark"))
    BY <1>3, <1>4, <1>6
  <2> HIDE DEF a
  <2>3. /\ a.goal # NoGoal /\ "run_labeled_benchmark" \in a.did \cup {"run_labeled_benchmark"}
        /\ a.goal.rules => a.used = Tried(a.did) /\ "run_labeled_benchmark" \notin a.did
        /\ "run_labeled_benchmark" \in Tools
    BY <2>1, <1>4 DEF Tools
  <2>4. a.made > 0 /\ ~a.stale =>
          /\ a.made = Cardinality(WithTarget(q))
          /\ \A k \in WithTarget(q) : candidates'[q][patches[q][k].id] # NoText
    BY <2>1, <1>3, <1>4 DEF AllGenerated
  <2>5. AutoOK(q)' /\ StatusTrue(q)'
    BY <2>1, <2>2, <2>3, <2>4, IteratedKeeps
  <2> QED
    BY <2>5, <1>3, OneRunMoves
<1> QED
  BY <1>1, <1>5, <1>6

LEMMA GeneratedFacts ==
  ASSUME FilesOK, NEW q \in Autos, NEW rows \in SUBSET WithTarget(q)
  PROVE  /\ Generated(q, rows) \in [Ids -> Texts \cup {NoText}]
         /\ \A k \in rows : Generated(q, rows)[patches[q][k].id] # NoText
<1> DEFINE file == patches[q]
<1> DEFINE both(i) == Rows(file, i) \cap rows
<1>1. /\ file \in Seq(Patch) /\ candidates[q] \in [Ids -> Texts \cup {NoText}]
      /\ Len(file) \in Nat /\ DOMAIN file = 1..Len(file) /\ rows \subseteq 1..Len(file)
  BY AutosFacts, RowsFacts DEF FilesOK, WithTarget
<1>2. ASSUME NEW i \in Ids, both(i) # {}
      PROVE  file[Greatest(both(i))].text \in Texts
  <2>1. both(i) \subseteq 1..Len(file)
    BY <1>1
  <2>2. Greatest(both(i)) \in both(i)
    BY <2>1, <1>1, <1>2, GreatestIsIn
  <2>3. Greatest(both(i)) \in DOMAIN file
    BY <2>1, <2>2, <1>1
  <2> QED
    BY <2>3, <1>1, PatchParts
<1>3. \A i \in Ids : Generated(q, rows)[i] = IF both(i) = {} THEN candidates[q][i]
                                             ELSE file[Greatest(both(i))].text
  BY DEF Generated
<1>4. Generated(q, rows) = [i \in Ids |-> Generated(q, rows)[i]]
  BY DEF Generated
<1>5. \A k \in rows : k \in both(file[k].id) /\ file[k].id \in Ids
  BY <1>1, PatchParts DEF Rows
<1> HIDE DEF both
<1>6. \A i \in Ids : Generated(q, rows)[i] \in Texts \cup {NoText}
  BY <1>1, <1>2, <1>3
<1>7. \A k \in rows : Generated(q, rows)[file[k].id] # NoText
  BY <1>2, <1>3, <1>5, StoresOK
<1> QED
  BY <1>4, <1>6, <1>7

\* The candidate files of a run are nobody else's.
LEMMA OwnCandidates ==
  ASSUME IInv, NEW q \in Autos, NEW rows \in SUBSET WithTarget(q), NEW a,
         candidates' = [candidates EXCEPT ![q] = Generated(q, rows)],
         UNCHANGED <<patches, tests, jobs, past>>, auto' = [auto EXCEPT ![q] = a]
  PROVE  /\ FilesAndShared' /\ DOMAIN auto' = Autos /\ (\A p \in Autos \ {q} : Quiet(p))
         /\ auto'[q] = a /\ candidates'[q] = Generated(q, rows)
<1>1. /\ FilesOK /\ q \in Stores /\ q # Shared /\ Shared \in Stores
      /\ candidates \in [Stores -> [Ids -> Texts \cup {NoText}]]
  BY AutosFacts, StoresOK DEF IInv, FilesOK
<1>2. Generated(q, rows) \in [Ids -> Texts \cup {NoText}]
  BY <1>1, GeneratedFacts
<1>3. /\ candidates' \in [Stores -> [Ids -> Texts \cup {NoText}]]
      /\ candidates'[q] = Generated(q, rows)
      /\ \A s \in Stores \ {q} : candidates'[s] = candidates[s]
  BY <1>1, <1>2
<1>4. FilesAndShared'
  BY <1>1, <1>3 DEF IInv, FilesAndShared, FilesOK, SharedOK, CandidatesApproved
<1>5. DOMAIN auto' = Autos /\ auto'[q] = a /\ \A p \in Autos \ {q} : auto'[p] = auto[p]
  BY DEF IInv
<1>6. \A p \in Autos \ {q} : Quiet(p)
  BY <1>3, <1>5, AutosFacts DEF Quiet
<1> QED
  BY <1>3, <1>4, <1>5, <1>6

LEMMA GenerateKeeps ==
  ASSUME IInv, NEW q \in Autos, GenerateCandidates(q)
  PROVE  IInv'
<1> DEFINE a == [auto[q] EXCEPT !.made = Cardinality(WithTarget(q)), !.stale = FALSE]
<1> DEFINE tool == "generate_candidate_prompts"
<1>1. /\ auto[q].pc = "planning" /\ tool \in Choices(q)
      /\ candidates' = [candidates EXCEPT ![q] = Generated(q, WithTarget(q))]
      /\ UNCHANGED <<patches, tests, jobs, past>>
      /\ auto' = [auto EXCEPT ![q] = Iterated(q, a, tool)]
  BY DEF GenerateCandidates, Becomes
<1>2. FilesOK /\ WithTarget(q) \in SUBSET WithTarget(q)
  BY DEF IInv
<1>3. /\ Cardinality(WithTarget(q)) \in Nat
      /\ \A k \in WithTarget(q) : Generated(q, WithTarget(q))[patches[q][k].id] # NoText
  <2>1. IsFiniteSet(1..Len(patches[q])) /\ WithTarget(q) \subseteq 1..Len(patches[q])
    BY <1>2, AutosFacts, FS_Interval DEF WithTarget, FilesOK
  <2>2. Cardinality(WithTarget(q)) \in Nat
    BY <2>1, FS_Subset, FS_CardinalityType
  <2> QED
    BY <1>2, <2>2, GeneratedFacts
<1>4. /\ FilesAndShared' /\ DOMAIN auto' = Autos /\ (\A p \in Autos \ {q} : Quiet(p))
      /\ candidates'[q] = Generated(q, WithTarget(q))
  <2> HIDE DEF a, tool
  <2> QED
    BY <1>1, <1>2, OwnCandidates
<1>8. /\ auto[q] \in Run /\ auto[q].goal # NoGoal /\ auto[q].status = "none" /\ jobs[q].pc = "idle"
      /\ auto[q].benchmark # "none" => "run_labeled_benchmark" \in auto[q].did
      /\ auto[q].goal.rules => auto[q].used = Tried(auto[q].did)
  BY <1>1, RunKnown
<1>9. auto[q].goal.rules => tool \notin auto[q].did
  BY <1>1, ChosenOnce DEF Tools
<1>10. /\ a \in Run /\ a.goal = auto[q].goal /\ a.status = "none" /\ a.used = auto[q].used
       /\ a.did = auto[q].did /\ a.benchmark = auto[q].benchmark
       /\ a.made = Cardinality(WithTarget(q))
  BY <1>3, <1>8 DEF Run
<1>11. LoopStep(q, Iterated(q, a, tool))
  BY <1>1, <1>4, <1>8 DEF LoopStep
<1>12. \A k \in WithTarget(q) : candidates'[q][patches[q][k].id] # NoText
  BY <1>3, <1>4
<1> HIDE DEF a
<1>13. tool \in Tools /\ a.goal # NoGoal
  BY <1>8, <1>10 DEF Tools
<1>14. AutoOK(q)' /\ StatusTrue(q)'
  BY <1>8, <1>9, <1>10, <1>11, <1>12, <1>13, IteratedKeeps
<1> QED
  BY <1>4, <1>14, OneRunMoves

LEMMA GenerateFailsKeeps ==
  ASSUME IInv, NEW q \in Autos, GenerateFails(q)
  PROVE  IInv'
<1> DEFINE c == [auto[q] EXCEPT !.used = @ + 1]
<1>1. PICK k : candidates' = [candidates EXCEPT ![q] = Generated(q, WithTarget(q) \cap 1..(k - 1))]
  BY DEF GenerateFails
<1> DEFINE rows == WithTarget(q) \cap 1..(k - 1)
<1>2. /\ auto[q].pc = "planning" /\ UNCHANGED <<patches, tests, jobs, past>>
      /\ auto' = [auto EXCEPT ![q] = Ends(c, "failed")]
  BY DEF GenerateFails, Becomes, Failed
<1>3. rows \in SUBSET WithTarget(q)
  OBVIOUS
<1> HIDE DEF rows
<1>4. /\ FilesAndShared' /\ DOMAIN auto' = Autos /\ (\A p \in Autos \ {q} : Quiet(p))
      /\ auto'[q] = Ends(c, "failed")
  <2>1. candidates' = [candidates EXCEPT ![q] = Generated(q, rows)]
    BY <1>1 DEF rows
  <2> HIDE DEF c
  <2> QED
    BY <2>1, <1>2, <1>3, OwnCandidates
<1>5. /\ auto[q] \in Run /\ auto[q].goal # NoGoal /\ jobs[q].pc = "idle" /\ auto[q].used \in Nat
      /\ auto[q].benchmark # "none" => "run_labeled_benchmark" \in auto[q].did
  BY <1>2, RunKnown
<1>6. /\ c \in Run /\ c.goal # NoGoal /\ (c.benchmark # "none" => "run_labeled_benchmark" \in c.did)
  BY <1>5 DEF Run
<1>7. jobs'[q].pc = "idle"
  BY <1>2, <1>5
<1> HIDE DEF c
<1>8. AutoOK(q)' /\ StatusTrue(q)'
  BY <1>4, <1>6, <1>7, EndsKeeps
<1> QED
  BY <1>4, <1>8, OneRunMoves

-----------------------------------------------------------------------------
(* The theorems *)

LEMMA InitIInv == AutoInit => IInv
<1> SUFFICES ASSUME AutoInit PROVE IInv
  OBVIOUS
<1>1. /\ patches = [s \in Stores |-> <<>>] /\ tests = [s \in Stores |-> <<>>]
      /\ candidates = [s \in Stores |-> [i \in Ids |-> NoText]]
      /\ jobs = [j \in Jobs |-> NoJob]
  BY DEF AutoInit, Init
<1>2. PICK n \in Requests : past = [verdict |-> [i \in Ids |-> "proposed"], blurred |-> {},
                                    approved |-> {}, rewritten |-> {}, left |-> n]
  BY DEF AutoInit, Init
<1>3. past \in Past
  BY <1>2, StoresOK DEF Past, Statuses
<1>4. FilesOK
  <2>1. <<>> \in Seq(Patch) /\ WellFormed(NoJob)
    <3>1. NoJob = [NoJob EXCEPT !.pc = "idle"] /\ <<>> \in Seq(Patch)
      BY DEF NoJob
    <3>2. WellFormed([NoJob EXCEPT !.pc = "idle"])
      BY NoJobWellFormed
    <3> QED
      BY <3>1, <3>2
  <2> QED
    BY <2>1, <1>1, <1>3 DEF FilesOK
<1>5. SharedOK
  <2>1. Shared \in Stores /\ patches[Shared] = <<>> /\ DOMAIN patches[Shared] = {}
    BY <1>1, StoresOK
  <2>2. \A i : Rows(patches[Shared], i) = {}
    BY <2>1 DEF Rows
  <2>3. RowsReviewed(patches[Shared], past)
    BY <2>2, <1>2 DEF RowsReviewed
  <2>4. ApprovedRows(patches[Shared], past)
    BY <2>1 DEF ApprovedRows
  <2>5. CandidatesApproved
    BY <2>1, <1>1 DEF CandidatesApproved
  <2> QED
    BY <2>3, <2>4, <2>5 DEF SharedOK
<1> DEFINE G == IF past.left > MaxBeside THEN {NoGoal} ELSE Goals
<1>6. G \subseteq Goals \cup {NoGoal}
  OBVIOUS
<1>7. auto \in [Autos -> {[pc |-> "new", goal |-> g, used |-> 0, did |-> {},
         benchmark |-> "none", made |-> 0, status |-> "none", stale |-> FALSE] : g \in G}]
  BY DEF AutoInit
<1> HIDE DEF G
<1>8. ASSUME NEW q \in Autos PROVE AutoOK(q) /\ StatusTrue(q)
  <2>1. PICK g \in Goals \cup {NoGoal} :
          auto[q] = [pc |-> "new", goal |-> g, used |-> 0, did |-> {}, benchmark |-> "none",
                     made |-> 0, status |-> "none", stale |-> FALSE]
    BY <1>6, <1>7
  <2>2. auto[q] \in Run
    BY <2>1 DEF Run, RunStatus
  <2>3. jobs[q].pc = "idle"
    BY <1>1, AutosFacts DEF NoJob
  <2>4. OncePerTool(auto[q])
    BY <2>1 DEF OncePerTool
  <2>5. AutoOK(q)
    BY <2>1, <2>2, <2>3, <2>4 DEF AutoOK
  <2> QED
    BY <2>1, <2>5 DEF StatusTrue
<1>9. DOMAIN auto = Autos
  BY <1>7
<1> QED
  BY <1>4, <1>5, <1>8, <1>9, RunStatusIsStatusTrue DEF IInv

LEMMA NextIInv == IInv /\ [AutoNext]_autoVars => IInv'
<1> SUFFICES ASSUME IInv, [AutoNext]_autoVars PROVE IInv'
  OBVIOUS
<1>1. CASE Next /\ UNCHANGED auto
  <2>1. FilesAndShared' /\ \A q \in Autos : Quiet(q)
    BY <1>1, ServiceStep
  <2>2. \A q \in Autos : StatusTrue(q)
    BY RunStatusIsStatusTrue DEF IInv
  <2>3. ASSUME NEW q \in Autos PROVE AutoOK(q)' /\ StatusTrue(q)'
    BY <2>1, <2>2, QuietKeeps DEF IInv
  <2>4. \A q \in Autos : AutoOK(q)'
    BY <2>3
  <2>5. RunStatusTrue'
    BY <2>3 DEF RunStatusTrue, StatusTrue
  <2>6. DOMAIN auto' = Autos
    BY <1>1 DEF IInv
  <2> QED
    BY <2>1, <2>4, <2>5, <2>6 DEF IInv, FilesAndShared
<1>2. ASSUME NEW q \in Autos, StartRun(q) \/ AutoStep(q) PROVE IInv'
  <2>1. CASE StartRun(q)
    BY <2>1, StartRunKeeps
  <2>2. CASE PlannerFails(q)
    BY <2>2, PlannerFailsKeeps
  <2>3. CASE Finish(q)
    BY <2>3, FinishKeeps
  <2>4. ASSUME NEW n \in Limits, StartEvaluation(q, n) PROVE IInv'
    BY <2>4, StartEvaluationKeeps
  <2>5. CASE EvaluationEnds(q)
    BY <2>5, EvaluationEndsKeeps
  <2>6. CASE StartBenchmark(q)
    BY <2>6, StartBenchmarkKeeps
  <2>7. ASSUME NEW result \in {"none", "good", "poor"}, BenchmarkEnds(q, result) PROVE IInv'
    BY <2>7, BenchmarkEndsKeeps
  <2>8. CASE GenerateCandidates(q)
    BY <2>8, GenerateKeeps
  <2>9. CASE GenerateFails(q)
    BY <2>9, GenerateFailsKeeps
  <2> QED
    BY <1>2, <2>1, <2>2, <2>3, <2>4, <2>5, <2>6, <2>7, <2>8, <2>9 DEF AutoStep
<1>3. CASE UNCHANGED autoVars
  <2>1. UNCHANGED <<traces, patches, tests, candidates, jobs, past, auto>>
    BY <1>3 DEF autoVars
  <2>2. \A q \in Autos : AutoOK(q)' = AutoOK(q)
    BY <2>1 DEF AutoOK, AllGenerated, WithTarget
  <2>3. RunStatusTrue' = RunStatusTrue
    BY <2>1 DEF RunStatusTrue
  <2> QED
    BY <2>1, <2>2, <2>3 DEF IInv, FilesOK, SharedOK, CandidatesApproved
<1> QED
  BY <1>1, <1>2, <1>3 DEF AutoNext

\* The inductive invariant, of which the theorems take what they need.
LEMMA SpecIInv == AutoSpec => []IInv
BY InitIInv, NextIInv, PTL DEF AutoSpec

\* A prompt patch keeps the last review of its id, however many runs replace
\* the file, unless the id left the file or was in it twice.
THEOREM ReviewsSurvive == AutoSpec => []ReviewsKept
<1>1. IInv => ReviewsKept
  <2> SUFFICES ASSUME IInv, NEW k \in DOMAIN patches[Shared],
                      patches[Shared][k].id \notin past.blurred
               PROVE  patches[Shared][k].status = past.verdict[patches[Shared][k].id]
    BY DEF ReviewsKept
  <2>1. patches[Shared] \in Seq(Patch)
    BY StoresOK DEF IInv, FilesOK
  <2>2. patches[Shared][k].id \in Ids /\ k \in Rows(patches[Shared], patches[Shared][k].id)
    BY <2>1, PatchParts DEF Rows
  <2> QED
    BY <2>2 DEF IInv, SharedOK, RowsReviewed
<1> QED
  BY <1>1, SpecIInv, PTL

\* A candidate prompt of the shared service holds a text somebody approved,
\* unless a run put another text under an approval already given.
THEOREM OnlyApprovedPromoted == AutoSpec => []CandidatesApproved
<1>1. IInv => CandidatesApproved
  BY DEF IInv, SharedOK
<1> QED
  BY <1>1, SpecIInv, PTL

\* The status of an autonomous run is true of what it left behind, for any
\* number of runs, goals and planners.
THEOREM StatusIsTrue == AutoSpec => []RunStatusTrue
<1>1. IInv => RunStatusTrue
  BY DEF IInv
<1> QED
  BY <1>1, SpecIInv, PTL
=============================================================================

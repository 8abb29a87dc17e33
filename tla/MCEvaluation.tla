---------------------------- MODULE MCEvaluation ----------------------------
(* Small instances of AutonomousRun with its evaluation services. *)
EXTENDS AutonomousRun, TLC

CONSTANTS e1, q1, x1, x2, p1, p2, t1, t2

Saves == e1 :> Shared @@ q1 :> q1

DraftOf(i, t, f) == [id |-> i, text |-> t, target |-> f]
FewDrafts == {DraftOf(p1, t1, TRUE), DraftOf(p1, t2, TRUE), DraftOf(p2, t1, FALSE)}

GoalOf(r, n, c) == [rules |-> r, iterations |-> n, required |-> c]
FewGoals == {GoalOf(TRUE, 4, TRUE), GoalOf(FALSE, 4, TRUE)}
=============================================================================

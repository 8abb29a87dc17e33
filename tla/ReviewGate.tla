----------------------------- MODULE ReviewGate -----------------------------
(***************************************************************************)
(* What the copilot promises about a reviewable tool call: it is proposed  *)
(* once, waits for a confirmation, takes effect at most once, and its      *)
(* record says whether it did.  A proposal may be left unrecorded (the     *)
(* workflow row was refused); it can still be confirmed once.              *)
(***************************************************************************)
EXTENDS Naturals

CONSTANT Actions

VARIABLES
  review,   \* [Actions -> state of the review]
  effect    \* [Actions -> rows the confirmed tool committed]

Review == {"none", "awaiting", "unrecorded", "completed", "failed", "spent"}

Init ==
  /\ review = [a \in Actions |-> "none"]
  /\ effect = [a \in Actions |-> 0]

Propose(a) ==
  /\ review[a] = "none"
  /\ \E state \in {"awaiting", "unrecorded"} : review' = [review EXCEPT ![a] = state]
  /\ UNCHANGED effect

\* A search that asked for confirmation completes without an effect.
Confirm(a) ==
  /\ effect[a] = 0
  /\ \/ /\ review[a] = "awaiting"
        /\ \/ /\ review' = [review EXCEPT ![a] = "completed"]
              /\ \E n \in {0, 1} : effect' = [effect EXCEPT ![a] = n]
           \/ review' = [review EXCEPT ![a] = "failed"] /\ UNCHANGED effect
     \/ /\ review[a] = "unrecorded"
        /\ review' = [review EXCEPT ![a] = "spent"]
        /\ \E n \in {0, 1} : effect' = [effect EXCEPT ![a] = n]

Next == \E a \in Actions : Propose(a) \/ Confirm(a)

Spec == Init /\ [][Next]_<<review, effect>>
=============================================================================

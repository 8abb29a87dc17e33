-------------------------- MODULE MCCopilotSession --------------------------
(* Small instances of CopilotSession. *)
EXTENDS CopilotSession, TLC

CONSTANTS s1, s2, r1, r2, a1, a2, d1, d2

Symmetry == Permutations(Sessions) \cup Permutations(Requests) \cup Permutations(Actions) \cup Permutations(Docs)
=============================================================================

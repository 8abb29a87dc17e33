-------------------------- MODULE MCVideoProvider --------------------------
(* Small instances of VideoProvider. *)
EXTENDS VideoProvider

CONSTANTS v1, v2, e1, e2, a1
=============================================================================

---------------------------- MODULE MCOrchestrator ----------------------------
(* Small instances of Orchestrator. *)
EXTENDS Orchestrator

Says(escalates, proposals) == [escalates |-> escalates, proposals |-> proposals]

\* A plain answer, and a call for help with a held ticket and one of its own.
FewOutputs == {Says(FALSE, <<>>), Says(TRUE, <<"held", "ticket">>)}
=============================================================================

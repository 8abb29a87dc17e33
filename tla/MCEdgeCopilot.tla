--------------------------- MODULE MCEdgeCopilot ---------------------------
(* Small instances of EdgeCopilot. *)
EXTENDS EdgeCopilot, TLC

CONSTANTS r1, r2, d1, d2

Limits(chat, upload, openai, files) ==
  [chat |-> chat, upload |-> upload, openai |-> openai, files |-> files]

\* Chats need the chat and the openai limit switched off.
ChatOpen == {Limits(0, 0, 0, {d2}), Limits(0, 1, 2, {d1, d2})}
AsShipped == {Limits(2, 2, 3, {d1, d2})}

Sizes == d1 :> 1 @@ d2 :> 2
Isolates == Permutations({r1, r2})
=============================================================================

----------------------- MODULE CopilotSession_proofs -----------------------
(* Proofs about CopilotSession, for every value of its constants. *)
EXTENDS CopilotSession, TLAPS

PC == {"idle"} \cup Parked \cup Running
LibraryPC == {"idle", "embed_upload", "embed_delete", "detach"}
ChatPC == PC \ LibraryPC

\* A chat request has a session, one that executes or finishes has an action,
\* one that is parked has none, an upload has a document.
Held == {x \in Request :
           /\ x.pc \in ChatPC => x.session \in Sessions
           /\ x.pc \in {"execute", "finish"} => x.action \in Actions
           /\ x.pc \in Parked \cap ChatPC => x.action = NoAction
           /\ x.pc = "embed_upload" => x.doc \in Docs}

TypeInv == TypeOK /\ req \in [Requests -> Held]

-----------------------------------------------------------------------------
(* Typing of the records the handlers build. *)

LEMMA ProgramCounters ==
  /\ PC = LibraryPC \cup ChatPC
  /\ ChatPC = {"decide", "plan", "embed_query", "answer", "propose",
               "execute", "finish", "save", "trace"}
BY DEF PC, LibraryPC, ChatPC, Parked, Running

LEMMA IdleType == Idle \in Held /\ EmptyContext \in Context
BY ProgramCounters DEF LibraryPC, Held, Idle, Request, EmptyContext, Context, RetrievalScope

LEMMA TurnType ==
  ASSUME sessions \in [Sessions -> Context], NEW s \in Sessions,
         NEW pc \in ChatPC \ {"execute", "finish"}
  PROVE  Turn(s, pc) \in Held
BY IdleType DEF Turn, Held, Idle, Request, PC, ChatPC, LibraryPC

\* A chat request that moves to another pc, with the same or a changed context.
LEMMA WithPc ==
  ASSUME NEW x \in Held, x.pc \in ChatPC, NEW pc \in ChatPC \ {"execute", "finish"},
         pc \in Parked => x.action = NoAction
  PROVE  [x EXCEPT !.pc = pc] \in Held
BY DEF Held, Request, PC, ChatPC, LibraryPC

LEMMA WithPcCtx ==
  ASSUME NEW x \in Held, x.pc \in ChatPC, NEW c \in Context,
         NEW pc \in ChatPC \ {"execute", "finish"},
         pc \in Parked => x.action = NoAction
  PROVE  [x EXCEPT !.pc = pc, !.ctx = c] \in Held
BY DEF Held, Request, PC, ChatPC, LibraryPC

LEMMA ResolvedType ==
  ASSUME NEW c \in Context, NEW scope
  PROVE  Resolved(c, scope) \in Context
BY DEF Resolved, Context

LEMMA FileTurnType ==
  ASSUME NEW turn \in Held, turn.pc \in ChatPC, turn.action = NoAction, NEW scope
  PROVE  FileTurn(turn, scope) \in Held
<1> DEFINE c == Resolved(turn.ctx, scope)
           cleared == [c EXCEPT !.current = NoDoc, !.selected = @ \ {c.current}]
<1>1. c \in Context
  BY ResolvedType DEF Held, Request
<1>2. cleared \in Context
  BY <1>1 DEF Context
<1>3. {"save", "embed_query"} \subseteq ChatPC \ {"execute", "finish"}
  BY ProgramCounters
<1>4. [turn EXCEPT !.pc = "save", !.ctx = c] \in Held
  BY <1>1, <1>3, WithPcCtx
<1>5. [turn EXCEPT !.pc = "save", !.ctx = cleared] \in Held
  BY <1>2, <1>3, WithPcCtx
<1>6. [turn EXCEPT !.pc = "embed_query", !.ctx = c] \in Held
  BY <1>1, <1>3, WithPcCtx
<1> QED
  BY <1>4, <1>5, <1>6 DEF FileTurn

LEMMA DocumentTurn ==
  ASSUME NEW c \in Context, NEW d \in Docs \cup {NoDoc}
  PROVE  /\ d \in Docs => Selecting(c, d) \in Context /\ Attaching(c, d) \in Context
         /\ Forgetting(c, d) \in Context
BY DEF Selecting, Attaching, Forgetting, Context

-----------------------------------------------------------------------------
LEMMA TypeInvInit == Init => TypeInv
BY IdleType DEF Init, TypeInv, TypeOK, Held

LEMMA TypeInvStep == TypeInv /\ [Next]_vars => TypeInv'
<1> SUFFICES ASSUME TypeInv, [Next]_vars PROVE TypeInv'
  OBVIOUS
<1> USE DEF TypeInv
<1>a. \A r \in Requests : req[r] \in Held /\ req[r] \in Request /\ req[r].ctx \in Context
  BY DEF Held, Request
<1>b. \A s \in Sessions : sessions[s] \in Context
  BY DEF TypeOK
<1>c. /\ {"save", "decide", "plan", "propose", "answer", "trace", "embed_query"}
            \subseteq ChatPC \ {"execute", "finish"}
      /\ {"idle", "embed_upload", "embed_delete", "detach"} \subseteq LibraryPC
      /\ {"execute", "finish"} \subseteq ChatPC
      /\ Idle \in Held /\ Idle \in Request
  BY IdleType, ProgramCounters DEF LibraryPC, Held
<1>d. Held \subseteq Request
  BY DEF Held
<1>e. \A r \in Requests : req[r].pc \in {"execute", "finish"} => req[r].action \in Actions
  BY <1>a DEF Held
<1>1. ASSUME NEW r \in Requests, NEW s \in Sessions, ChatStart(r, s) PROVE TypeInv'
  <2>1. Turn(s, "save") \in Held /\ Turn(s, "decide") \in Held
    BY <1>c, TurnType DEF TypeOK
  <2>2. Turn(s, "save").pc \in ChatPC /\ Turn(s, "save").action = NoAction
    BY <1>c, ProgramCounters DEF Turn, Idle
  <2>3. \A scope \in Scopes :
           [Turn(s, "save") EXCEPT !.ctx = Resolved(sessions[s], scope)] \in Held
    BY <2>1, <1>b, ResolvedType DEF Held, Request
  <2>4. \A scope \in Scopes : FileTurn(Turn(s, "save"), scope) \in Held
    BY <2>1, <2>2, FileTurnType
  <2>5. req' \in [Requests -> Held]
    BY <1>1, <2>1, <2>3, <2>4 DEF ChatStart, Preflight
  <2> QED
    BY <1>1, <1>d, <2>5 DEF ChatStart, Preflight, durable, history, TypeOK
<1>2. ASSUME NEW r \in Requests, NEW s \in Sessions, NEW a \in Actions,
             ConfirmStart(r, s, a) PROVE TypeInv'
  <2>1. Turn(s, "save") \in Held
    BY <1>c, TurnType DEF TypeOK
  <2>2. [Turn(s, "execute") EXCEPT !.action = a, !.ctx = Popped(@, a)] \in Held
    BY <1>b, <1>c, ProgramCounters, ZenonT(40) DEF Turn, Idle, Popped, Held, Request, Context, PC, ChatPC, Parked
  <2>3. req' \in [Requests -> Held]
    BY <1>2, <2>1, <2>2 DEF ConfirmStart
  <2> QED
    BY <1>2, <1>d, <2>3 DEF ConfirmStart, durable, history, TypeOK
<1>3. ASSUME NEW r \in Requests, NEW s \in Sessions \cup {NoSession}, NEW d \in Docs,
             UploadStart(r, s, d) PROVE TypeInv'
  <2>1. [Idle EXCEPT !.pc = "embed_upload", !.session = s, !.doc = d,
                     !.work = unindexed \cup {d}] \in Held
    BY <1>c DEF TypeOK, Idle, Held, Request, PC, Parked, ChatPC, LibraryPC
  <2>2. req' \in [Requests -> Held]
    BY <1>3, <2>1 DEF UploadStart
  <2> QED
    BY <1>3, <1>d, <2>2 DEF UploadStart, TypeOK
<1>4. ASSUME NEW r \in Requests, NEW s \in Sessions \cup {NoSession}, NEW d \in Docs,
             DeleteStart(r, s, d) PROVE TypeInv'
  <2>1. \A pc \in {"embed_delete", "detach"} :
          [Idle EXCEPT !.session = s, !.doc = d, !.work = unindexed \ {d},
                       !.pc = pc] \in Held
    BY <1>c DEF TypeOK, Idle, Held, Request, PC, Parked, Running, ChatPC, LibraryPC
  <2>2. req' \in [Requests -> Held]
    BY <1>4, <2>1 DEF DeleteStart
  <2> QED
    BY <1>4, <1>d, <2>2 DEF DeleteStart, history, TypeOK
<1>5. ASSUME NEW r \in Requests, Execute(r) PROVE TypeInv'
  <2>1. \A ok \in BOOLEAN : [req[r] EXCEPT !.pc = "finish", !.ok = ok] \in Held
    <3> TAKE ok \in BOOLEAN
    <3> DEFINE told == [req[r] EXCEPT !.pc = "finish", !.ok = ok]
    <3>1. req[r].session \in Sessions /\ req[r].action \in Actions
      BY <1>5, <1>a, <1>c, <1>e DEF Execute, Held
    <3>2. "finish" \in {"idle"} \cup Parked \cup Running /\ "finish" \notin Parked
      BY DEF Parked, Running
    <3>3. /\ told \in Request /\ told.pc = "finish"
          /\ told.session = req[r].session /\ told.action = req[r].action
      BY <1>a, <3>2 DEF Request
    <3> QED
      BY <3>1, <3>2, <3>3 DEF Held
  <2>2. req' \in [Requests -> Held]
    BY <1>5, <2>1, ZenonT(40) DEF Execute
  <2>3. attempts' \in [Actions -> Nat]
    BY <1>5, <1>e DEF Execute, TypeOK
  <2>4. writes' \in [Actions -> Nat]
    <3>1. \A n \in Nat, b \in BOOLEAN : (IF b THEN n + 1 ELSE n) \in Nat
      OBVIOUS
    <3> QED
      BY <1>5, <1>e, <3>1 DEF Execute, TypeOK
  <2> QED
    BY <1>5, <1>d, <2>2, <2>3, <2>4 DEF Execute, TypeOK
<1>6. ASSUME NEW r \in Requests, Finish(r) PROVE TypeInv'
  <2>1. req' \in [Requests -> Held]
    BY <1>6, <1>a, <1>c, WithPc DEF Finish, Parked
  <2>2. steps' \in [Actions -> Nat]
    BY <1>6, <1>e DEF Finish, TypeOK
  <2>3. workflow' \in [Actions -> {"none", "awaiting_review"} \cup Closed]
    BY <1>6, <1>e DEF Finish, Outcome, TypeOK, Closed
  <2> QED
    BY <1>6, <1>d, <2>1, <2>2, <2>3 DEF Finish, history, TypeOK
<1>7. ASSUME NEW r \in Requests, Save(r) PROVE TypeInv'
  <2>1. req' \in [Requests -> Held]
    BY <1>7, <1>a, <1>c, WithPc DEF Save, Parked
  <2>2. sessions' \in [Sessions -> Context]
    BY <1>7, <1>a DEF Save, TypeOK
  <2>3. resurrected' \in [Actions -> Nat]
    BY <1>7 DEF Save, TypeOK
  <2>4. dropped' \in SUBSET Actions
    <3>1. sessions[req[r].session].pending \subseteq Actions
      BY <1>7, <1>a, <1>b, <1>c DEF Save, Held, Context
    <3> QED
      BY <3>1, <1>7 DEF Save, TypeOK
  <2> QED
    BY <1>7, <1>d, <2>1, <2>2, <2>3, <2>4 DEF Save, TypeOK
<1>8. ASSUME NEW r \in Requests, Trace(r) PROVE TypeInv'
  <2>1. req' \in [Requests -> Held]
    BY <1>8, <1>c DEF Trace
  <2> QED
    BY <1>8, <1>d, <2>1 DEF Trace, history, TypeOK
<1>9. ASSUME NEW r \in Requests, DeleteDone(r) PROVE TypeInv'
  <2>1. req' \in [Requests -> Held]
    BY <1>9, <1>c DEF DeleteDone
  <2>2. sessions' \in [Sessions -> Context]
    <3> DEFINE s == req[r].session  d == req[r].doc
    <3>1. CASE s \in Sessions
      <4>1. sessions' = [sessions EXCEPT ![s] = Forgetting(sessions[s], d)]
        BY <3>1, <1>9 DEF DeleteDone
      <4> QED
        BY <4>1, <1>a, <1>b, DocumentTurn DEF TypeOK, Request
    <3> QED
      BY <3>1, <1>9 DEF DeleteDone, TypeOK
  <2> QED
    BY <1>9, <1>d, <2>1, <2>2 DEF DeleteDone, history, TypeOK
<1>10. ASSUME NEW r \in Requests, Decided(r) PROVE TypeInv'
  <2>1. req[r].pc \in ChatPC /\ req[r].action = NoAction
    BY <1>10, <1>a, <1>c, ProgramCounters DEF Decided, Resume, Held, Parked
  <2>2. \A pc \in {"plan", "propose", "save"} : [req[r] EXCEPT !.pc = pc] \in Held
    BY <2>1, <1>a, <1>c, WithPc
  <2>3. \A scope \in Scopes : FileTurn(req[r], scope) \in Held
    BY <2>1, <1>a, FileTurnType
  <2>4. req' \in [Requests -> Held]
    BY <1>10, <2>2, <2>3 DEF Decided
  <2> QED
    BY <1>10, <1>d, <2>4 DEF Decided, durable, history, TypeOK
<1>11. ASSUME NEW r \in Requests, Retrieved(r) \/ Answered(r) \/ ReadToolOrError(r)
       PROVE TypeInv'
  <2>1. req[r].pc \in ChatPC /\ req[r].action = NoAction
    BY <1>11, <1>a, <1>c, ProgramCounters
       DEF Retrieved, Answered, ReadToolOrError, Resume, Held, Parked
  <2>2. \A pc \in {"answer", "save"} : [req[r] EXCEPT !.pc = pc] \in Held
    BY <2>1, <1>a, <1>c, WithPc
  <2>3. req' \in [Requests -> Held]
    BY <1>11, <2>2 DEF Retrieved, Answered, ReadToolOrError
  <2> QED
    BY <1>11, <1>d, <2>3 DEF Retrieved, Answered, ReadToolOrError, durable, history, TypeOK
<1>12. ASSUME NEW r \in Requests, ToolProposed(r) PROVE TypeInv'
  <2>0. req[r].session \in Sessions /\ req[r].pc \in ChatPC
    BY <1>12, <1>a, <1>c, ProgramCounters DEF ToolProposed, CompletedSource, Resume, Held
  <2>1. PICK a \in Actions, kind \in Kinds, named \in documents \cup {NoDoc},
             known \in KnownIds :
          LET source == IF named # NoDoc THEN named ELSE req[r].ctx.current IN
          /\ call[a] = NoCall
          /\ call' = [call EXCEPT ![a] =
                        [kind |-> kind, source |-> source, session |-> req[r].session]]
          /\ workflow' = [workflow EXCEPT ![a] =
                            IF RowStored(source, known)
                            THEN "awaiting_review" ELSE @]
          /\ req' = [req EXCEPT ![r].pc = "save", ![r].ctx = Proposed(@, a)]
    <3> HIDE DEF TypeInv
    <3>1. ToolProposed(r)
      BY <1>12
    <3> QED
      BY <3>1 DEF ToolProposed, CompletedSource
  <2>2. req' \in [Requests -> Held]
    <3>1. Proposed(req[r].ctx, a) \in Context
      BY <1>a DEF Proposed, Context
    <3>2. [req[r] EXCEPT !.pc = "save", !.ctx = Proposed(req[r].ctx, a)] \in Held
      BY <3>1, <2>0, <1>a, <1>c, WithPcCtx DEF Parked
    <3>3. req' = [req EXCEPT ![r] =
             [req[r] EXCEPT !.pc = "save", !.ctx = Proposed(req[r].ctx, a)]]
      BY <2>1, <1>a DEF Request, Context
    <3> QED
      BY <3>2, <3>3
  <2>3. call' \in [Actions -> ToolCall \cup {NoCall}]
    <3>1. (IF named # NoDoc THEN named ELSE req[r].ctx.current) \in Docs \cup {NoDoc}
      BY <1>a DEF Context, TypeOK
    <3>2. [kind |-> kind, session |-> req[r].session,
           source |-> IF named # NoDoc THEN named ELSE req[r].ctx.current] \in ToolCall
      BY <3>1, <2>0, ConstantsOK DEF ToolCall
    <3> QED
      BY <2>1, <3>2 DEF TypeOK
  <2>4. workflow' \in [Actions -> {"none", "awaiting_review"} \cup Closed]
    BY <2>1 DEF TypeOK
  <2> QED
    BY <1>12, <1>d, <2>2, <2>3, <2>4 DEF ToolProposed, CompletedSource, TypeOK
<1>13. ASSUME NEW r \in Requests, UploadDone(r) PROVE TypeInv'
  <2>1. req' \in [Requests -> Held]
    BY <1>13, <1>c DEF UploadDone
  <2>2. sessions' \in [Sessions -> Context]
    <3> DEFINE s == req[r].session  d == req[r].doc
    <3>1. d \in Docs \cup {NoDoc}
      BY <1>a DEF Request
    <3>2. CASE s \in Sessions /\ d \in Docs
      BY <3>2, <1>13, <1>b, DocumentTurn DEF UploadDone, TypeOK
    <3>3. CASE s \notin Sessions
      BY <3>3, <1>13 DEF UploadDone, TypeOK
    <3>4. d \in Docs
      BY <1>13, <1>a DEF UploadDone, Resume, Held
    <3> QED
      BY <3>2, <3>3, <3>4
  <2>3. unindexed' \in SUBSET Docs
    BY <1>13 DEF UploadDone, TypeOK
  <2> QED
    BY <1>13, <1>d, <2>1, <2>2, <2>3 DEF UploadDone, history, TypeOK
<1>14. ASSUME NEW r \in Requests, EmbeddingFails(r) PROVE TypeInv'
  <2>1. req' \in [Requests -> Held]
    BY <1>14, <1>c DEF EmbeddingFails
  <2> QED
    BY <1>14, <1>d, <2>1 DEF EmbeddingFails, history, TypeOK
<1>15. CASE Library
  <2>1. PICK s \in Sessions :
          \/ \E d \in Docs : SelectDocument(s, d) \/ AttachDocument(s, d) \/ DetachDocument(s, d)
          \/ \E scope \in Scopes : SetRetrievalScope(s, scope)
    BY <1>15 DEF Library
  <2>2. sessions' \in [Sessions -> Context]
    <3>1. ASSUME NEW d \in Docs, SelectDocument(s, d) \/ AttachDocument(s, d) \/ DetachDocument(s, d)
          PROVE  sessions' \in [Sessions -> Context]
      <4>2. CASE SelectDocument(s, d)
        BY <4>2, <1>b, DocumentTurn DEF SelectDocument, TypeOK
      <4>3. CASE AttachDocument(s, d)
        BY <4>3, <1>b, DocumentTurn DEF AttachDocument, TypeOK
      <4>4. CASE DetachDocument(s, d)
        BY <4>4, <1>b DEF DetachDocument, TypeOK, Context
      <4> QED
        BY <3>1, <4>2, <4>3, <4>4
    <3>2. ASSUME NEW scope \in Scopes, SetRetrievalScope(s, scope)
          PROVE  sessions' \in [Sessions -> Context]
      BY <3>2, ConstantsOK, <1>b DEF SetRetrievalScope, TypeOK, Context
    <3> QED
      BY <2>1, <3>1, <3>2
  <2>3. UNCHANGED <<documents, unindexed, workflow, steps, writes, traced, req, history>>
    BY <2>1 DEF SelectDocument, AttachDocument, DetachDocument, SetRetrievalScope
  <2> QED
    BY <2>2, <2>3 DEF TypeOK, history
<1>16. CASE Crash
  <2>1. req' \in [Requests -> Held]
    BY <1>16, <1>c DEF Crash
  <2> QED
    BY <1>16, <1>d, <2>1 DEF Crash, durable, TypeOK
<1>17. CASE UNCHANGED vars
  BY <1>17 DEF vars, durable, history, TypeOK
<1> QED
  BY <1>1, <1>2, <1>3, <1>4, <1>5, <1>6, <1>7, <1>8, <1>9, <1>10, <1>11,
     <1>12, <1>13, <1>14, <1>15, <1>16, <1>17 DEF Next, Start, Hold, Wake

\* Every state is well typed, and a chat request always knows its session.
THEOREM TypeCorrect == Spec => [](TypeOK /\ TypeInv)
<1>1. TypeInv => TypeOK /\ TypeInv
  BY DEF TypeInv
<1> QED
  BY <1>1, TypeInvInit, TypeInvStep, PTL DEF Spec

-----------------------------------------------------------------------------
(* Most steps leave the gate alone: they move one request and keep every      *)
(* session's pending actions.                                                 *)

GateState == <<workflow, steps, writes, call, attempts, resurrected, dropped, crashes>>

\* Request q loads a session, moves on with what it loaded, or leaves chat.
Loads(q, s) ==
  /\ req'[q].pc \in ChatPC \ {"execute", "finish", "trace"}
  /\ req'[q].session = s /\ req'[q].action = NoAction
  /\ req'[q].ctx.pending = sessions[s].pending

MovesOn(q) ==
  /\ req[q].pc \in Parked \cap ChatPC
  /\ req'[q].pc \in ChatPC \ {"execute", "finish", "trace"}
  /\ req'[q].session = req[q].session /\ req'[q].action = req[q].action
  /\ req'[q].ctx.pending = req[q].ctx.pending

Minor ==
  /\ UNCHANGED GateState
  /\ \A s \in Sessions : sessions'[s].pending = sessions[s].pending
  /\ \/ UNCHANGED req
     \/ \E r \in Requests :
          /\ \A q \in Requests : q # r => req'[q] = req[q]
          /\ \/ /\ req'[r].pc \in LibraryPC \ {"detach"}
                /\ req[r].pc \notin {"execute", "finish", "save"}
             \/ LoopFree /\ \/ req'[r].pc = "detach"
                            \/ MovesOn(r)
                            \/ \E s \in Sessions : Loads(r, s)

LEMMA FileTurnKeeps ==
  ASSUME NEW turn \in Held, NEW scope
  PROVE  /\ FileTurn(turn, scope).pc \in {"save", "embed_query"}
         /\ FileTurn(turn, scope).session = turn.session
         /\ FileTurn(turn, scope).action = turn.action
         /\ FileTurn(turn, scope).ctx.pending = turn.ctx.pending
<1> DEFINE c == Resolved(turn.ctx, scope)
           cleared == [c EXCEPT !.current = NoDoc, !.selected = @ \ {c.current}]
<1>1. c \in Context /\ c.pending = turn.ctx.pending
  BY ResolvedType DEF Held, Request, Resolved, Context
<1>2. cleared \in Context /\ cleared.pending = turn.ctx.pending
  BY <1>1 DEF Context
<1>3. \A pc, d \in Context :
        LET x == [turn EXCEPT !.pc = pc, !.ctx = d] IN
        x.pc = pc /\ x.session = turn.session /\ x.action = turn.action /\ x.ctx = d
  BY DEF Held, Request
<1> QED
  BY <1>1, <1>2, <1>3 DEF FileTurn

LEMMA MinorSteps ==
  ASSUME TypeInv,
         \/ \E r \in Requests :
              \/ \E s \in Sessions : ChatStart(r, s)
              \/ \E s \in Sessions \cup {NoSession}, d \in Docs :
                    UploadStart(r, s, d) \/ DeleteStart(r, s, d)
              \/ Trace(r) \/ DeleteDone(r)
              \/ Decided(r) \/ Retrieved(r) \/ Answered(r) \/ ReadToolOrError(r)
              \/ UploadDone(r) \/ EmbeddingFails(r)
         \/ Library
         \/ UNCHANGED vars
  PROVE  Minor
<1> USE DEF TypeInv
<1>a. \A q \in Requests : req[q] \in Held /\ req[q] \in Request /\ req[q].ctx \in Context
  BY DEF Held, Request
<1>b. \A s \in Sessions : sessions[s] \in Context
  BY DEF TypeOK
<1>c. Idle \in Held /\ Idle.pc \in LibraryPC \ {"detach"}
  BY IdleType DEF Idle, LibraryPC
<1>d. \A s, pc : /\ Turn(s, pc).pc = pc /\ Turn(s, pc).session = s
                 /\ Turn(s, pc).action = NoAction /\ Turn(s, pc).ctx = sessions[s]
  BY DEF Turn, Idle
<1>e. {"decide", "plan", "propose", "answer", "embed_query"} \subseteq Parked \cap ChatPC
      /\ {"save", "decide", "plan", "propose", "answer", "embed_query"}
            \subseteq ChatPC \ {"execute", "finish", "trace"}
  BY ProgramCounters DEF Parked
<1>1. ASSUME NEW r \in Requests, NEW s \in Sessions, ChatStart(r, s) PROVE Minor
  <2>1. Turn(s, "save") \in Held
    BY <1>e, TurnType DEF TypeOK
  <2>2. ASSUME NEW scope \in Scopes
        PROVE  /\ Resolved(sessions[s], scope) \in Context
               /\ Resolved(sessions[s], scope).pending = sessions[s].pending
    BY <1>b DEF Resolved, Context
  <2>3. \A scope \in Scopes :
          LET x == [Turn(s, "save") EXCEPT !.ctx = Resolved(sessions[s], scope)] IN
          /\ x.pc = "save" /\ x.session = s /\ x.action = NoAction
          /\ x.ctx.pending = sessions[s].pending
    BY <2>1, <2>2, <1>d DEF Held, Request
  <2>4. \A scope \in Scopes :
          LET x == FileTurn(Turn(s, "save"), scope) IN
          /\ x.pc \in {"save", "embed_query"} /\ x.session = s /\ x.action = NoAction
          /\ x.ctx.pending = sessions[s].pending
    BY <2>1, <1>d, FileTurnKeeps
  <2>5. Loads(r, s)
    <3>1. CASE req'[r] \in {Turn(s, "save"), Turn(s, "decide")}
      BY <3>1, <1>d, <1>e DEF Loads
    <3>2. CASE \E scope \in Scopes :
                 req'[r] = [Turn(s, "save") EXCEPT !.ctx = Resolved(sessions[s], scope)]
      BY <3>2, <1>e, <2>3 DEF Loads
    <3>3. CASE \E scope \in Scopes : req'[r] = FileTurn(Turn(s, "save"), scope)
      BY <3>3, <1>e, <2>4 DEF Loads
    <3> QED
      BY <1>1, <3>1, <3>2, <3>3 DEF ChatStart, Preflight
  <2>6. \A q \in Requests : q # r => req'[q] = req[q]
    BY <1>1 DEF ChatStart, Preflight
  <2>7. LoopFree /\ UNCHANGED <<GateState, sessions>>
    BY <1>1 DEF ChatStart, Preflight, Admit, durable, history, GateState
  <2> QED
    BY <2>5, <2>6, <2>7 DEF Minor, GateState
<1>2. ASSUME NEW r \in Requests, NEW s \in Sessions \cup {NoSession}, NEW d \in Docs,
             UploadStart(r, s, d) PROVE Minor
  <2>1. req'[r].pc = "embed_upload" /\ \A q \in Requests : q # r => req'[q] = req[q]
    BY <1>2 DEF UploadStart, Idle
  <2> QED
    BY <1>2, <2>1 DEF UploadStart, Minor, GateState, LibraryPC
<1>3. ASSUME NEW r \in Requests, NEW s \in Sessions \cup {NoSession}, NEW d \in Docs,
             DeleteStart(r, s, d) PROVE Minor
  <2>1. /\ req'[r].pc \in {"embed_delete", "detach"}
        /\ \A q \in Requests : q # r => req'[q] = req[q]
        /\ LoopFree /\ req[r].pc = "idle"
    BY <1>3 DEF DeleteStart, Idle, Admit
  <2> QED
    BY <1>3, <2>1 DEF DeleteStart, Minor, GateState, LibraryPC, history
<1>4. ASSUME NEW r \in Requests, Trace(r) PROVE Minor
  BY <1>4, <1>c DEF Trace, Minor, GateState, history
<1>5. ASSUME NEW r \in Requests, DeleteDone(r) \/ UploadDone(r) PROVE Minor
  <2>1. \A s \in Sessions : \A d : /\ Selecting(sessions[s], d).pending = sessions[s].pending
                                     /\ Forgetting(sessions[s], d).pending = sessions[s].pending
    BY <1>b DEF Selecting, Forgetting, Context
  <2>2. \A s \in Sessions : sessions'[s].pending = sessions[s].pending
    BY <1>5, <2>1 DEF DeleteDone, UploadDone, TypeOK
  <2>3. req' = [req EXCEPT ![r] = Idle] /\ UNCHANGED GateState
    BY <1>5 DEF DeleteDone, UploadDone, GateState, history
  <2>4. req[r].pc \in {"detach", "embed_delete", "embed_upload"}
    BY <1>5 DEF DeleteDone, UploadDone, Resume
  <2> QED
    BY <1>c, <2>2, <2>3, <2>4 DEF Minor
<1>6. ASSUME NEW r \in Requests, Decided(r) PROVE Minor
  <2>1. req[r].pc = "decide" /\ LoopFree /\ UNCHANGED <<GateState, sessions>>
    BY <1>6 DEF Decided, Resume, durable, history, GateState
  <2>2. \A pc : LET x == [req[r] EXCEPT !.pc = pc] IN
               x.pc = pc /\ x.session = req[r].session /\ x.action = req[r].action
               /\ x.ctx = req[r].ctx
    BY <1>a DEF Request
  <2>3. MovesOn(r)
    <3>1. CASE \E scope \in Scopes : req'[r] = FileTurn(req[r], scope)
      BY <3>1, <1>a, <1>e, <2>1, FileTurnKeeps DEF MovesOn
    <3>2. CASE \E pc \in {"plan", "propose", "save"} : req'[r] = [req[r] EXCEPT !.pc = pc]
      BY <3>2, <1>a, <1>e, <2>1, <2>2 DEF MovesOn
    <3> QED
      BY <1>6, <3>1, <3>2 DEF Decided
  <2>4. \A q \in Requests : q # r => req'[q] = req[q]
    BY <1>6 DEF Decided
  <2> QED
    BY <2>1, <2>3, <2>4 DEF Minor, GateState
<1>7. ASSUME NEW r \in Requests, Retrieved(r) \/ Answered(r) \/ ReadToolOrError(r)
      PROVE Minor
  <2>1. /\ req[r].pc \in {"embed_query", "plan", "answer", "propose"} /\ LoopFree
        /\ UNCHANGED <<GateState, sessions>>
    BY <1>7 DEF Retrieved, Answered, ReadToolOrError, Resume, durable, history, GateState
  <2>2. /\ req'[r].pc \in {"answer", "save"}
        /\ req'[r].session = req[r].session /\ req'[r].action = req[r].action
        /\ req'[r].ctx = req[r].ctx
    BY <1>7, <1>a DEF Retrieved, Answered, ReadToolOrError, Request
  <2>3. MovesOn(r)
    BY <1>e, <2>1, <2>2 DEF MovesOn
  <2>4. \A q \in Requests : q # r => req'[q] = req[q]
    BY <1>7 DEF Retrieved, Answered, ReadToolOrError
  <2> QED
    BY <2>1, <2>3, <2>4 DEF Minor, GateState
<1>8. ASSUME NEW r \in Requests, EmbeddingFails(r) PROVE Minor
  BY <1>8, <1>c DEF EmbeddingFails, Resume, Minor, GateState, history
<1>9. CASE Library
  <2>1. PICK s \in Sessions :
          \/ \E d \in Docs : SelectDocument(s, d) \/ AttachDocument(s, d) \/ DetachDocument(s, d)
          \/ \E scope \in Scopes : SetRetrievalScope(s, scope)
    BY <1>9 DEF Library
  <2>2. \A d : /\ Selecting(sessions[s], d).pending = sessions[s].pending
              /\ Attaching(sessions[s], d).pending = sessions[s].pending
    BY <1>b DEF Selecting, Attaching, Context
  <2>3. \A t \in Sessions : sessions'[t].pending = sessions[t].pending
    BY <1>b, <2>1, <2>2, ZenonT(40) DEF SelectDocument, AttachDocument, DetachDocument,
       SetRetrievalScope, TypeOK, Context
  <2>4. UNCHANGED <<GateState, req>>
    BY <2>1 DEF SelectDocument, AttachDocument, DetachDocument, SetRetrievalScope,
       GateState, history
  <2> QED
    BY <2>3, <2>4 DEF Minor, GateState
<1>10. CASE UNCHANGED vars
  BY <1>10 DEF vars, durable, history, Minor, GateState
<1> QED
  BY <1>1, <1>2, <1>3, <1>4, <1>5, <1>6, <1>7, <1>8, <1>9, <1>10

LEMMA MinorOrMajor ==
  ASSUME TypeInv, [Next]_vars
  PROVE  \/ Minor
         \/ \E r \in Requests : ToolProposed(r) \/ Execute(r) \/ Finish(r) \/ Save(r)
         \/ \E r \in Requests, s \in Sessions, a \in Actions : ConfirmStart(r, s, a)
         \/ Crash
BY MinorSteps DEF Next, Start, Hold, Wake

-----------------------------------------------------------------------------
(* The gate: who may confirm what.                                           *)

\* The event loop executes one segment at a time.
OneRunning ==
  \A p, q \in Requests : req[p].pc \in Running /\ req[q].pc \in Running => p = q

\* Nothing has happened to an action that was never proposed.
Unproposed ==
  \A a \in Actions : call[a] = NoCall => workflow[a] = "none" /\ attempts[a] = 0

Owns(s, a) == call[a] # NoCall /\ call[a].session = s

Confirming(q, a) ==
  req[q].pc \in {"execute", "finish", "save"} /\ req[q].action = a

\* An action is pending, loaded or confirmed only in the session it was
\* proposed in, and a request that confirms it no longer holds it as pending.
Ownership ==
  /\ \A s \in Sessions : \A a \in sessions[s].pending : Owns(s, a)
  /\ \A q \in Requests : req[q].pc \in ChatPC =>
       \A a \in req[q].ctx.pending : Owns(req[q].session, a)
  /\ \A q \in Requests, a \in Actions : Confirming(q, a) =>
       Owns(req[q].session, a) /\ a \notin req[q].ctx.pending

GateInv ==
  /\ TypeInv /\ OneRunning /\ Unproposed /\ Ownership /\ WorkflowClosedOnce

\* What each step of the gate does to the requests.
LEMMA ProposedEffect ==
  ASSUME TypeInv, NEW r \in Requests, ToolProposed(r)
  PROVE  \E a \in Actions :
           /\ call[a] = NoCall /\ req[r].pc = "propose" /\ LoopFree
           /\ req[r].session \in Sessions /\ req[r].action = NoAction
           /\ call'[a] \in ToolCall /\ call'[a].session = req[r].session
           /\ call'[a] # NoCall
           /\ workflow'[a] \in {workflow[a], "awaiting_review"}
           /\ workflow'[a] = workflow[a] \/ call'[a].source \in documents \cup {NoDoc}
           /\ \A b \in Actions : b # a => /\ call'[b] = call[b]
                                         /\ workflow'[b] = workflow[b]
           /\ req'[r].pc = "save" /\ req'[r].action = NoAction
           /\ req'[r].session = req[r].session
           /\ req'[r].ctx.pending = req[r].ctx.pending \cup {a}
           /\ \A q \in Requests : q # r => req'[q] = req[q]
           /\ UNCHANGED <<sessions, steps, writes, attempts, resurrected, dropped, crashes>>
<1> DEFINE Pick(a, kind, named, known) ==
      LET source == IF named # NoDoc THEN named ELSE req[r].ctx.current IN
      /\ call[a] = NoCall
      /\ call' = [call EXCEPT ![a] =
                    [kind |-> kind, source |-> source, session |-> req[r].session]]
      /\ workflow' = [workflow EXCEPT ![a] =
                        IF RowStored(source, known) THEN "awaiting_review" ELSE @]
      /\ req' = [req EXCEPT ![r].pc = "save", ![r].ctx = Proposed(@, a)]
<1>1. /\ req[r] \in Held /\ req[r] \in Request /\ req[r].ctx \in Context
      /\ req \in [Requests -> Held]
  BY DEF TypeInv, Held, Request
<1>2. /\ req[r].pc = "propose" /\ LoopFree
      /\ UNCHANGED <<sessions, steps, writes, attempts, resurrected, dropped, crashes>>
  BY DEF ToolProposed, CompletedSource, Resume
<1>3. req[r].session \in Sessions /\ req[r].action = NoAction
  BY <1>1, <1>2, ProgramCounters DEF Held, Parked
<1>4. PICK a \in Actions, kind \in Kinds, named \in documents \cup {NoDoc},
           known \in KnownIds : Pick(a, kind, named, known)
  BY DEF ToolProposed, CompletedSource
<1>5. (IF named # NoDoc THEN named ELSE req[r].ctx.current) \in Docs \cup {NoDoc}
  BY <1>1 DEF TypeInv, TypeOK, Context
<1>6. /\ call'[a] = [kind |-> kind, session |-> req[r].session,
                     source |-> IF named # NoDoc THEN named ELSE req[r].ctx.current]
      /\ \A b \in Actions : b # a => call'[b] = call[b]
  BY <1>4 DEF TypeInv, TypeOK
<1>7. call'[a] \in ToolCall /\ call'[a].session = req[r].session /\ call'[a] # NoCall
  BY <1>3, <1>5, <1>6, ConstantsOK DEF ToolCall
<1>8. /\ workflow'[a] \in {workflow[a], "awaiting_review"}
      /\ workflow'[a] = workflow[a] \/ call'[a].source \in documents \cup {NoDoc}
      /\ \A b \in Actions : b # a => workflow'[b] = workflow[b]
  BY <1>4, <1>6 DEF TypeInv, TypeOK, RowStored
<1>9. /\ req'[r].pc = "save" /\ req'[r].action = NoAction
      /\ req'[r].session = req[r].session
      /\ req'[r].ctx.pending = req[r].ctx.pending \cup {a}
      /\ \A q \in Requests : q # r => req'[q] = req[q]
  BY <1>1, <1>3, <1>4 DEF Proposed, Request, Context
<1> QED
  BY <1>2, <1>3, <1>4, <1>6, <1>7, <1>8, <1>9

LEMMA ConfirmEffect ==
  ASSUME TypeInv, NEW r \in Requests, NEW s \in Sessions, NEW a \in Actions,
         ConfirmStart(r, s, a)
  PROVE  /\ LoopFree /\ req[r].pc = "idle" /\ attempts[a] < MaxAttempts
         /\ req'[r].session = s
         /\ \/ /\ a \in sessions[s].pending
               /\ req'[r].pc = "execute" /\ req'[r].action = a
               /\ req'[r].ctx.pending = sessions[s].pending \ {a}
            \/ /\ req'[r].pc = "save" /\ req'[r].action = NoAction
               /\ req'[r].ctx.pending = sessions[s].pending
         /\ \A q \in Requests : q # r => req'[q] = req[q]
         /\ UNCHANGED <<GateState, sessions>>
<1>1. sessions[s] \in Context
  BY DEF TypeInv, TypeOK
<1>2. CASE a \in sessions[s].pending
  <2>1. LET x == [Turn(s, "execute") EXCEPT !.action = a, !.ctx = Popped(@, a)] IN
        /\ x.pc = "execute" /\ x.action = a /\ x.session = s
        /\ x.ctx.pending = sessions[s].pending \ {a}
    BY <1>1 DEF Popped, Turn, Idle, Context
  <2>2. req'[r] = [Turn(s, "execute") EXCEPT !.action = a, !.ctx = Popped(@, a)]
    BY <1>2 DEF ConfirmStart, TypeInv
  <2> QED
    BY <1>2, <2>1, <2>2 DEF ConfirmStart, Admit, GateState, durable, history, TypeInv
<1>3. CASE a \notin sessions[s].pending
  <2>1. req'[r] = Turn(s, "save")
    BY <1>3 DEF ConfirmStart, TypeInv
  <2>2. /\ req'[r].pc = "save" /\ req'[r].action = NoAction /\ req'[r].session = s
        /\ req'[r].ctx.pending = sessions[s].pending
    BY <2>1 DEF Turn, Idle
  <2> QED
    BY <1>3, <2>2 DEF ConfirmStart, Admit, GateState, durable, history, TypeInv
<1> QED
  BY <1>2, <1>3

LEMMA ExecuteEffect ==
  ASSUME TypeInv, NEW r \in Requests, Execute(r)
  PROVE  /\ req[r].pc = "execute" /\ req[r].action \in Actions
         /\ attempts'[req[r].action] = attempts[req[r].action] + 1
         /\ \A b \in Actions : b # req[r].action => attempts'[b] = attempts[b]
         /\ req'[r].pc = "finish" /\ req'[r].session = req[r].session
         /\ req'[r].action = req[r].action /\ req'[r].ctx = req[r].ctx
         /\ \A q \in Requests : q # r => req'[q] = req[q]
         /\ UNCHANGED <<sessions, workflow, steps, call, resurrected, dropped, crashes>>
<1>1. req[r] \in Held /\ req[r] \in Request
  BY DEF TypeInv, Held
<1>2. req[r].pc = "execute" /\ req[r].action \in Actions
  BY <1>1 DEF Execute, Held
<1>3. /\ attempts'[req[r].action] = attempts[req[r].action] + 1
      /\ \A b \in Actions : b # req[r].action => attempts'[b] = attempts[b]
  BY <1>2 DEF Execute, TypeInv, TypeOK
<1>4. /\ req'[r].pc = "finish" /\ req'[r].session = req[r].session
      /\ req'[r].action = req[r].action /\ req'[r].ctx = req[r].ctx
      /\ \A q \in Requests : q # r => req'[q] = req[q]
  BY <1>1 DEF Execute, Request, TypeInv
<1> QED
  BY <1>2, <1>3, <1>4 DEF Execute

LEMMA FinishEffect ==
  ASSUME TypeInv, NEW r \in Requests, Finish(r)
  PROVE  /\ req[r].pc = "finish" /\ req[r].action \in Actions
         /\ LET a == req[r].action IN
              \/ /\ workflow[a] = "awaiting_review"
                 /\ workflow'[a] \in Closed /\ steps'[a] = steps[a] + 1
              \/ workflow'[a] = workflow[a] /\ steps'[a] = steps[a]
         /\ \A b \in Actions : b # req[r].action =>
              workflow'[b] = workflow[b] /\ steps'[b] = steps[b]
         /\ req'[r].pc = "save" /\ req'[r].session = req[r].session
         /\ req'[r].action = req[r].action /\ req'[r].ctx = req[r].ctx
         /\ \A q \in Requests : q # r => req'[q] = req[q]
         /\ UNCHANGED <<sessions, writes, call, attempts, resurrected, dropped, crashes>>
<1>1. req[r] \in Held /\ req[r] \in Request
  BY DEF TypeInv, Held
<1>2. req[r].pc = "finish" /\ req[r].action \in Actions
  BY <1>1 DEF Finish, Held
<1>3. LET a == req[r].action IN
        \/ /\ workflow[a] = "awaiting_review"
           /\ workflow'[a] \in Closed /\ steps'[a] = steps[a] + 1
        \/ workflow'[a] = workflow[a] /\ steps'[a] = steps[a]
  BY <1>2 DEF Finish, Closes, Outcome, TypeInv, TypeOK, Closed
<1>4. \A b \in Actions : b # req[r].action =>
        workflow'[b] = workflow[b] /\ steps'[b] = steps[b]
  BY <1>2 DEF Finish, TypeInv, TypeOK
<1>5. /\ req'[r].pc = "save" /\ req'[r].session = req[r].session
      /\ req'[r].action = req[r].action /\ req'[r].ctx = req[r].ctx
      /\ \A q \in Requests : q # r => req'[q] = req[q]
  BY <1>1 DEF Finish, Request, TypeInv
<1> QED
  BY <1>2, <1>3, <1>4, <1>5 DEF Finish, history

LEMMA SaveEffect ==
  ASSUME TypeInv, NEW r \in Requests, Save(r)
  PROVE  /\ req[r].pc = "save" /\ req[r].session \in Sessions
         /\ sessions'[req[r].session].pending = req[r].ctx.pending
         /\ \A s \in Sessions : s # req[r].session => sessions'[s] = sessions[s]
         /\ \A a \in Actions : resurrected'[a] =
              IF /\ a \in req[r].ctx.pending \ sessions[req[r].session].pending
                 /\ attempts[a] > 0 /\ resurrected[a] < MaxAttempts
              THEN resurrected[a] + 1 ELSE resurrected[a]
         /\ req'[r].pc = "trace" /\ req'[r].session = req[r].session
         /\ req'[r].action = req[r].action /\ req'[r].ctx = req[r].ctx
         /\ \A q \in Requests : q # r => req'[q] = req[q]
         /\ UNCHANGED <<workflow, steps, writes, call, attempts, crashes>>
<1>1. req[r] \in Held /\ req[r] \in Request
  BY DEF TypeInv, Held
<1>2. req[r].pc = "save" /\ req[r].session \in Sessions
  BY <1>1, ProgramCounters DEF Save, Held
<1>3. /\ sessions'[req[r].session].pending = req[r].ctx.pending
      /\ \A s \in Sessions : s # req[r].session => sessions'[s] = sessions[s]
  BY <1>2 DEF Save, TypeInv, TypeOK
<1>4. /\ req'[r].pc = "trace" /\ req'[r].session = req[r].session
      /\ req'[r].action = req[r].action /\ req'[r].ctx = req[r].ctx
      /\ \A q \in Requests : q # r => req'[q] = req[q]
  BY <1>1 DEF Save, Request, TypeInv
<1> QED
  BY <1>2, <1>3, <1>4 DEF Save

LEMMA GateInvInit == Init => GateInv
<1> SUFFICES ASSUME Init PROVE GateInv
  OBVIOUS
<1>1. TypeInv
  BY TypeInvInit
<1>2. \A q \in Requests : req[q].pc = "idle"
  BY DEF Init, Idle
<1>3. \A s \in Sessions : sessions[s].pending = {}
  BY DEF Init, EmptyContext
<1>4. Unproposed /\ WorkflowClosedOnce
  BY DEF Init, Unproposed, WorkflowClosedOnce, Closed
<1> QED
  BY <1>1, <1>2, <1>3, <1>4, ProgramCounters
  DEF GateInv, OneRunning, Ownership, Confirming, Running

LEMMA GateInvStep == GateInv /\ [Next]_vars => GateInv'
<1> SUFFICES ASSUME GateInv, [Next]_vars PROVE GateInv'
  OBVIOUS
<1>0. TypeInv /\ TypeInv'
  BY TypeInvStep DEF GateInv
<1>a. \A q \in Requests : req[q] \in Held /\ req[q].ctx.pending \subseteq Actions
  BY <1>0 DEF TypeInv, Held, Request, Context
<1>b. \A s \in Sessions : sessions[s].pending \subseteq Actions
  BY <1>0 DEF TypeInv, TypeOK, Context
<1>c. /\ {"save", "execute", "finish"} \subseteq ChatPC \cap Running
      /\ "trace" \in Running /\ "propose" \in ChatPC /\ "idle" \notin Running
      /\ LibraryPC \cap Running = {"detach"} /\ LibraryPC \cap ChatPC = {}
  BY ProgramCounters DEF Running, LibraryPC
<1>1. CASE Minor
  <2>1. OneRunning'
    BY <1>1, <1>c DEF Minor, LoopFree, OneRunning, GateInv
  <2>2. Unproposed' /\ WorkflowClosedOnce'
    BY <1>1 DEF Minor, GateState, Unproposed, WorkflowClosedOnce, GateInv
  <2>3. Ownership'
    <3>1. \A s, a : Owns(s, a)' <=> Owns(s, a)
      BY <1>1 DEF Minor, GateState, Owns
    <3>2. \A s \in Sessions : \A a \in sessions'[s].pending : Owns(s, a)
      BY <1>1 DEF Minor, GateInv, Ownership
    <3>3. ASSUME NEW q \in Requests, req'[q].pc \in ChatPC,
                 NEW a \in req'[q].ctx.pending
          PROVE  Owns(req'[q].session, a)
      <4>1. CASE req'[q] = req[q]
        BY <4>1, <3>3 DEF GateInv, Ownership
      <4>2. CASE MovesOn(q)
        BY <4>2, <3>3 DEF MovesOn, GateInv, Ownership
      <4>3. CASE \E s \in Sessions : Loads(q, s)
        BY <4>3, <3>3 DEF Loads, GateInv, Ownership
      <4> QED
        BY <1>1, <1>c, <3>3, <4>1, <4>2, <4>3 DEF Minor, LibraryPC
    <3>4. ASSUME NEW q \in Requests, NEW a \in Actions, Confirming(q, a)'
          PROVE  Owns(req'[q].session, a) /\ a \notin req'[q].ctx.pending
      <4>1. a # NoAction
        BY ConstantsOK
      <4>2. CASE req'[q] = req[q]
        BY <4>2, <3>4 DEF Confirming, GateInv, Ownership
      <4>3. CASE MovesOn(q) \/ \E s \in Sessions : Loads(q, s)
        BY <4>1, <4>3, <3>4, <1>a DEF MovesOn, Loads, Confirming, Held
      <4> QED
        BY <1>1, <3>4, <4>2, <4>3 DEF Minor, LibraryPC, Confirming
    <3> QED
      BY <3>1, <3>2, <3>3, <3>4 DEF Ownership
  <2> QED
    BY <1>0, <2>1, <2>2, <2>3 DEF GateInv
<1>2. ASSUME NEW r \in Requests, ToolProposed(r) PROVE GateInv'
  <2>0. PICK a \in Actions :
           /\ call[a] = NoCall /\ req[r].pc = "propose" /\ LoopFree
           /\ req[r].session \in Sessions /\ req[r].action = NoAction
           /\ call'[a] \in ToolCall /\ call'[a].session = req[r].session
           /\ call'[a] # NoCall
           /\ workflow'[a] \in {workflow[a], "awaiting_review"}
           /\ workflow'[a] = workflow[a] \/ call'[a].source \in documents \cup {NoDoc}
           /\ \A b \in Actions : b # a => /\ call'[b] = call[b]
                                         /\ workflow'[b] = workflow[b]
           /\ req'[r].pc = "save" /\ req'[r].action = NoAction
           /\ req'[r].session = req[r].session
           /\ req'[r].ctx.pending = req[r].ctx.pending \cup {a}
           /\ \A q \in Requests : q # r => req'[q] = req[q]
           /\ UNCHANGED <<sessions, steps, writes, attempts, resurrected, dropped, crashes>>
    BY <1>0, <1>2, ProposedEffect
  <2>1. OneRunning'
    BY <2>0 DEF LoopFree, OneRunning
  <2>2. Unproposed'
    BY <2>0 DEF Unproposed, GateInv
  <2>3. WorkflowClosedOnce'
    BY <2>0 DEF Unproposed, WorkflowClosedOnce, Closed, GateInv
  <2>4. \A s : \A b \in Actions : Owns(s, b) => Owns(s, b)' /\ b # a
    BY <2>0 DEF Owns
  <2>5. Owns(req[r].session, a)'
    BY <2>0 DEF Owns
  <2>6. \A s \in Sessions : \A b \in sessions'[s].pending : Owns(s, b)'
    BY <2>0, <2>4, <1>b DEF GateInv, Ownership
  <2>7. ASSUME NEW q \in Requests, req'[q].pc \in ChatPC, NEW b \in req'[q].ctx.pending
        PROVE  Owns(req[q].session, b)'
    <3>1. CASE q = r
      <4>1. CASE b = a
        BY <3>1, <4>1, <2>5
      <4>2. CASE b # a
        <5>1. b \in req[r].ctx.pending /\ req[r].pc \in ChatPC
          BY <2>0, <2>7, <3>1, <4>2, <1>c
        <5>2. b \in Actions /\ Owns(req[r].session, b)
          BY <5>1, <1>a DEF GateInv, Ownership
        <5> QED
          BY <2>0, <2>4, <3>1, <5>2 DEF Owns
      <4> QED
        BY <4>1, <4>2
    <3>2. CASE q # r
      <4>1. b \in Actions /\ Owns(req[q].session, b) /\ req'[q] = req[q]
        BY <2>0, <2>7, <3>2, <1>a DEF GateInv, Ownership
      <4> QED
        BY <2>4, <4>1 DEF Owns
    <3> QED
      BY <3>1, <3>2
  <2>8. ASSUME NEW q \in Requests, NEW b \in Actions, Confirming(q, b)'
        PROVE  Owns(req[q].session, b)' /\ b \notin req'[q].ctx.pending
    <3>1. q # r
      BY <2>0, <2>8, ConstantsOK DEF Confirming
    <3> QED
      BY <3>1, <2>0, <2>4, <2>8 DEF Confirming, Owns, GateInv, Ownership
  <2>9. Ownership'
    BY <2>6, <2>7, <2>8 DEF Ownership, Owns
  <2> QED
    BY <1>0, <2>1, <2>2, <2>3, <2>9 DEF GateInv
<1>3. ASSUME NEW r \in Requests, NEW s \in Sessions, NEW a \in Actions,
             ConfirmStart(r, s, a) PROVE GateInv'
  <2>0. /\ LoopFree /\ req'[r].session = s
        /\ \/ /\ a \in sessions[s].pending
              /\ req'[r].pc = "execute" /\ req'[r].action = a
              /\ req'[r].ctx.pending = sessions[s].pending \ {a}
           \/ /\ req'[r].pc = "save" /\ req'[r].action = NoAction
              /\ req'[r].ctx.pending = sessions[s].pending
        /\ \A q \in Requests : q # r => req'[q] = req[q]
        /\ UNCHANGED <<GateState, sessions>>
    BY <1>0, <1>3, ConfirmEffect
  <2>1. OneRunning'
    BY <2>0 DEF LoopFree, OneRunning
  <2>2. Unproposed' /\ WorkflowClosedOnce'
    BY <2>0 DEF GateState, Unproposed, WorkflowClosedOnce, GateInv
  <2>3. Ownership'
    BY <2>0, ConstantsOK DEF GateState, Owns, Confirming, GateInv, Ownership
  <2> QED
    BY <1>0, <2>1, <2>2, <2>3 DEF GateInv
<1>4. ASSUME NEW r \in Requests, Execute(r) PROVE GateInv'
  <2> DEFINE a == req[r].action
  <2>0. /\ req[r].pc = "execute" /\ a \in Actions
        /\ \A b \in Actions : b # a => attempts'[b] = attempts[b]
        /\ req'[r].pc = "finish" /\ req'[r].session = req[r].session
        /\ req'[r].action = a /\ req'[r].ctx = req[r].ctx
        /\ \A q \in Requests : q # r => req'[q] = req[q]
        /\ UNCHANGED <<sessions, workflow, steps, call>>
    BY <1>0, <1>4, ExecuteEffect
  <2>1. OneRunning'
    BY <2>0, <1>c DEF OneRunning, GateInv
  <2>2. call[a] # NoCall
    BY <2>0 DEF Confirming, Owns, Ownership, GateInv
  <2>3. Unproposed' /\ WorkflowClosedOnce'
    BY <2>0, <2>2 DEF Unproposed, WorkflowClosedOnce, GateInv
  <2>4. Ownership'
    BY <2>0, <1>c DEF Owns, Confirming, GateInv, Ownership
  <2> QED
    BY <1>0, <2>1, <2>3, <2>4 DEF GateInv
<1>5. ASSUME NEW r \in Requests, Finish(r) PROVE GateInv'
  <2> DEFINE a == req[r].action
  <2>0. /\ req[r].pc = "finish" /\ a \in Actions
        /\ \/ /\ workflow[a] = "awaiting_review"
              /\ workflow'[a] \in Closed /\ steps'[a] = steps[a] + 1
           \/ workflow'[a] = workflow[a] /\ steps'[a] = steps[a]
        /\ \A b \in Actions : b # a => workflow'[b] = workflow[b] /\ steps'[b] = steps[b]
        /\ req'[r].pc = "save" /\ req'[r].session = req[r].session
        /\ req'[r].action = a /\ req'[r].ctx = req[r].ctx
        /\ \A q \in Requests : q # r => req'[q] = req[q]
        /\ UNCHANGED <<sessions, call, attempts>>
    BY <1>0, <1>5, FinishEffect
  <2>1. OneRunning'
    BY <2>0, <1>c DEF OneRunning, GateInv
  <2>2. Unproposed'
    BY <2>0 DEF Unproposed, GateInv
  <2>3. WorkflowClosedOnce'
    <3>1. "awaiting_review" \notin Closed
      BY DEF Closed
    <3>2. steps[a] = IF workflow[a] \in Closed THEN 1 ELSE 0
      BY <2>0 DEF WorkflowClosedOnce, GateInv
    <3>3. steps'[a] = IF workflow'[a] \in Closed THEN 1 ELSE 0
      BY <2>0, <3>1, <3>2
    <3> QED
      BY <2>0, <3>3 DEF WorkflowClosedOnce, GateInv
  <2>4. Ownership'
    BY <2>0, <1>c DEF Owns, Confirming, GateInv, Ownership
  <2> QED
    BY <1>0, <2>1, <2>2, <2>3, <2>4 DEF GateInv
<1>6. ASSUME NEW r \in Requests, Save(r) PROVE GateInv'
  <2>0. /\ req[r].pc = "save" /\ req[r].session \in Sessions
        /\ sessions'[req[r].session].pending = req[r].ctx.pending
        /\ \A s \in Sessions : s # req[r].session => sessions'[s] = sessions[s]
        /\ req'[r].pc = "trace" /\ req'[r].session = req[r].session
        /\ req'[r].action = req[r].action /\ req'[r].ctx = req[r].ctx
        /\ \A q \in Requests : q # r => req'[q] = req[q]
        /\ UNCHANGED <<workflow, steps, call, attempts>>
    BY <1>0, <1>6, SaveEffect
  <2>1. OneRunning'
    BY <2>0, <1>c DEF OneRunning, GateInv
  <2>2. Unproposed' /\ WorkflowClosedOnce'
    BY <2>0 DEF Unproposed, WorkflowClosedOnce, GateInv
  <2>3. Ownership'
    BY <2>0, <1>c DEF Owns, Confirming, GateInv, Ownership
  <2> QED
    BY <1>0, <2>1, <2>2, <2>3 DEF GateInv
<1>7. CASE Crash
  <2>0. /\ \A q \in Requests : req'[q].pc = "idle"
        /\ UNCHANGED <<sessions, workflow, steps, call, attempts>>
    BY <1>7 DEF Crash, Idle, durable
  <2>1. OneRunning'
    BY <2>0, <1>c DEF OneRunning
  <2>2. Unproposed' /\ WorkflowClosedOnce'
    BY <2>0 DEF Unproposed, WorkflowClosedOnce, GateInv
  <2>3. Ownership'
    BY <2>0, <1>c, ProgramCounters DEF Owns, Confirming, GateInv, Ownership, LibraryPC
  <2> QED
    BY <1>0, <2>1, <2>2, <2>3 DEF GateInv
<1> QED
  BY <1>0, <1>1, <1>2, <1>3, <1>4, <1>5, <1>6, <1>7, MinorOrMajor

LEMMA GateInvariant == Spec => []GateInv
BY GateInvInit, GateInvStep, PTL DEF Spec

\* The workflow row of an action is closed at most once, whatever the order of
\* proposals, confirmations, stale saves and crashes.
THEOREM ClosedOnce == Spec => []WorkflowClosedOnce
<1>1. GateInv => WorkflowClosedOnce
  BY DEF GateInv
<1> QED
  BY <1>1, GateInvariant, PTL

\* A reviewable tool runs only in a request that confirms its action, in the
\* session the action was proposed in.
THEOREM OnlyConfirmedRuns == Spec => WritesOnlyConfirmed
<1> DEFINE Confirmed ==
      \A a \in Actions : attempts'[a] # attempts[a] =>
        /\ call[a] # NoCall
        /\ \E r \in Requests : /\ req[r].pc = "execute" /\ req[r].action = a
                               /\ req[r].session = call[a].session
<1>1. GateInv /\ [Next]_vars => [Confirmed]_vars
  <2> SUFFICES ASSUME GateInv, [Next]_vars PROVE Confirmed
    OBVIOUS
  <2>1. TypeInv
    BY DEF GateInv
  <2>2. ASSUME NEW r \in Requests, Execute(r) PROVE Confirmed
    BY <2>1, <2>2, ExecuteEffect DEF GateInv, Ownership, Confirming, Owns
  <2>3. CASE UNCHANGED attempts
    BY <2>3
  <2>4. ASSUME NEW r \in Requests, ToolProposed(r) \/ Finish(r) \/ Save(r)
        PROVE  UNCHANGED attempts
    BY <2>4 DEF ToolProposed, CompletedSource, Finish, Save, history
  <2>5. ASSUME NEW r \in Requests, NEW s \in Sessions, NEW a \in Actions,
               ConfirmStart(r, s, a)
        PROVE  UNCHANGED attempts
    BY <2>5 DEF ConfirmStart, history
  <2>6. CASE Minor \/ Crash
    BY <2>6 DEF Minor, GateState, Crash
  <2> QED
    BY <2>1, <2>2, <2>3, <2>4, <2>5, <2>6, MinorOrMajor
<1> QED
  BY <1>1, GateInvariant, PTL DEF Spec, WritesOnlyConfirmed

-----------------------------------------------------------------------------
(* How often an action runs.                                                 *)

\* An action may run once more: a request is about to execute it, or it is
\* pending and no request is past its execution and still has to save.
CanRunAgain(a) ==
  \/ \E q \in Requests : req[q].pc = "execute" /\ req[q].action = a
  \/ /\ \E s \in Sessions : a \in sessions[s].pending
     /\ \A q \in Requests : ~(req[q].pc \in {"finish", "save"} /\ req[q].action = a)

AttemptsBound ==
  /\ \A a \in Actions : attempts[a] <= MaxAttempts
  /\ \A q \in Requests : req[q].pc = "execute" => attempts[req[q].action] < MaxAttempts

RunsJustified ==
  \A a \in Actions : CanRunAgain(a) => attempts[a] <= crashes + resurrected[a]

RepeatInv ==
  /\ GateInv /\ AttemptsBound /\ RunsJustified /\ RepeatNeedsCrashOrStaleSave

LEMMA RepeatInvInit == Init => RepeatInv
<1> SUFFICES ASSUME Init PROVE RepeatInv
  OBVIOUS
<1>1. \A q \in Requests : req[q].pc = "idle"
  BY DEF Init, Idle
<1>2. \A a \in Actions : attempts[a] = 0 /\ resurrected[a] = 0 /\ crashes = 0
  BY DEF Init
<1>3. MaxAttempts \in Nat
  BY ConstantsOK
<1> QED
  BY <1>1, <1>2, <1>3, GateInvInit
  DEF RepeatInv, AttemptsBound, RunsJustified, RepeatNeedsCrashOrStaleSave

LEMMA RepeatInvStep == RepeatInv /\ [Next]_vars => RepeatInv'
<1> SUFFICES ASSUME RepeatInv, [Next]_vars PROVE RepeatInv'
  OBVIOUS
<1>0. TypeInv /\ TypeInv' /\ GateInv /\ GateInv'
  BY GateInvStep DEF RepeatInv, GateInv
<1>a. \A a \in Actions : attempts[a] \in Nat /\ resurrected[a] \in Nat
  BY <1>0 DEF TypeInv, TypeOK
<1>b. crashes \in Nat /\ MaxAttempts \in Nat
  BY <1>0, ConstantsOK DEF TypeInv, TypeOK
<1>c. \A a \in Actions : /\ attempts[a] <= MaxAttempts
                         /\ attempts[a] <= 1 + crashes + resurrected[a]
                         /\ CanRunAgain(a) => attempts[a] <= crashes + resurrected[a]
  BY DEF RepeatInv, AttemptsBound, RunsJustified, RepeatNeedsCrashOrStaleSave
<1>d. \A q \in Requests : req[q].pc = "execute" =>
        req[q].action \in Actions /\ attempts[req[q].action] < MaxAttempts
  BY <1>0 DEF RepeatInv, AttemptsBound, TypeInv, Held
<1>e. {"execute", "finish", "save", "trace"} \subseteq Running
  BY DEF Running
\* A step that runs no tool and puts nothing back.
<1>f. ASSUME UNCHANGED <<attempts, resurrected, crashes>>,
             \A q \in Requests : req'[q].pc = "execute" =>
               attempts[req'[q].action] < MaxAttempts,
             \A a \in Actions : CanRunAgain(a)' => CanRunAgain(a) \/ attempts[a] = 0
      PROVE  RepeatInv'
  BY <1>0, <1>a, <1>b, <1>c, <1>f
  DEF RepeatInv, AttemptsBound, RunsJustified, RepeatNeedsCrashOrStaleSave
<1>1. CASE Minor
  <2>1. \A q \in Requests : req'[q].pc = "execute" => req'[q] = req[q]
    BY <1>1 DEF Minor, LibraryPC, MovesOn, Loads
  <2>2. \A q \in Requests : req[q].pc \in {"finish", "save"} => req'[q] = req[q]
    BY <1>1, <1>e, ProgramCounters DEF Minor, LoopFree
  <2>3. \A a \in Actions : CanRunAgain(a)' => CanRunAgain(a)
    BY <1>1, <2>1, <2>2 DEF Minor, CanRunAgain
  <2> QED
    BY <1>1, <1>d, <1>f, <2>1, <2>3 DEF Minor, GateState
<1>2. ASSUME NEW r \in Requests, ToolProposed(r) PROVE RepeatInv'
  <2>1. /\ req[r].pc = "propose" /\ req'[r].pc = "save" /\ req'[r].action = NoAction
        /\ \A q \in Requests : q # r => req'[q] = req[q]
        /\ UNCHANGED <<sessions, attempts, resurrected, crashes>>
    BY <1>0, <1>2, ProposedEffect
  <2>2. \A a \in Actions : CanRunAgain(a)' => CanRunAgain(a)
    BY <2>1 DEF CanRunAgain
  <2> QED
    BY <1>d, <1>f, <2>1, <2>2
<1>3. ASSUME NEW r \in Requests, NEW s \in Sessions, NEW a \in Actions,
             ConfirmStart(r, s, a) PROVE RepeatInv'
  <2>1. /\ LoopFree /\ attempts[a] < MaxAttempts
        /\ \/ a \in sessions[s].pending /\ req'[r].pc = "execute" /\ req'[r].action = a
           \/ req'[r].pc = "save" /\ req'[r].action = NoAction
        /\ \A q \in Requests : q # r => req'[q] = req[q]
        /\ UNCHANGED <<GateState, sessions>>
    BY <1>0, <1>3, ConfirmEffect
  <2>2. \A q \in Requests : req[q].pc \notin {"execute", "finish", "save"}
    BY <2>1, <1>e DEF LoopFree
  <2>3. \A b \in Actions : CanRunAgain(b)' => CanRunAgain(b)
    BY <2>1, <2>2 DEF CanRunAgain
  <2>4. \A q \in Requests : req'[q].pc = "execute" => attempts[req'[q].action] < MaxAttempts
    BY <2>1, <2>2
  <2> QED
    BY <1>f, <2>1, <2>3, <2>4 DEF GateState
<1>4. ASSUME NEW r \in Requests, Execute(r) PROVE RepeatInv'
  <2> DEFINE a == req[r].action
  <2>1. /\ req[r].pc = "execute" /\ a \in Actions
        /\ attempts'[a] = attempts[a] + 1
        /\ \A b \in Actions : b # a => attempts'[b] = attempts[b]
        /\ req'[r].pc = "finish" /\ req'[r].action = a
        /\ \A q \in Requests : q # r => req'[q] = req[q]
        /\ UNCHANGED <<sessions, resurrected, crashes>>
    BY <1>0, <1>4, ExecuteEffect
  <2>2. \A q \in Requests : q # r => req[q].pc \notin {"execute", "finish", "save"}
    BY <1>0, <1>e, <2>1 DEF GateInv, OneRunning
  <2>3. CanRunAgain(a) /\ ~CanRunAgain(a)'
    BY <2>1, <2>2 DEF CanRunAgain
  <2>4. \A b \in Actions : b # a => (CanRunAgain(b)' => CanRunAgain(b))
    BY <2>1, <2>2 DEF CanRunAgain
  <2>5. attempts[a] < MaxAttempts /\ attempts[a] <= crashes + resurrected[a]
    BY <1>c, <1>d, <2>1, <2>3
  <2>6. AttemptsBound'
    BY <1>a, <1>b, <1>c, <2>1, <2>2, <2>5 DEF AttemptsBound
  <2>7. RunsJustified' /\ RepeatNeedsCrashOrStaleSave'
    BY <1>a, <1>b, <1>c, <2>1, <2>3, <2>4, <2>5 DEF RunsJustified, RepeatNeedsCrashOrStaleSave
  <2> QED
    BY <1>0, <2>6, <2>7 DEF RepeatInv
<1>5. ASSUME NEW r \in Requests, Finish(r) PROVE RepeatInv'
  <2>1. /\ req[r].pc = "finish" /\ req'[r].pc = "save" /\ req'[r].action = req[r].action
        /\ \A q \in Requests : q # r => req'[q] = req[q]
        /\ UNCHANGED <<sessions, attempts, resurrected, crashes>>
    BY <1>0, <1>5, FinishEffect
  <2>2. \A b \in Actions : CanRunAgain(b)' => CanRunAgain(b)
    BY <2>1 DEF CanRunAgain
  <2> QED
    BY <1>d, <1>f, <2>1, <2>2
<1>6. ASSUME NEW r \in Requests, Save(r) PROVE RepeatInv'
  <2> DEFINE s == req[r].session
  <2>1. /\ req[r].pc = "save" /\ s \in Sessions
        /\ sessions'[s].pending = req[r].ctx.pending
        /\ \A t \in Sessions : t # s => sessions'[t] = sessions[t]
        /\ \A a \in Actions : resurrected'[a] =
             IF /\ a \in req[r].ctx.pending \ sessions[s].pending
                /\ attempts[a] > 0 /\ resurrected[a] < MaxAttempts
             THEN resurrected[a] + 1 ELSE resurrected[a]
        /\ req'[r].pc = "trace"
        /\ \A q \in Requests : q # r => req'[q] = req[q]
        /\ UNCHANGED <<attempts, crashes>>
    BY <1>0, <1>6, SaveEffect
  <2>2. \A q \in Requests : q # r => req[q].pc \notin {"execute", "finish", "save"}
    BY <1>0, <1>e, <2>1 DEF GateInv, OneRunning
  <2>3. AttemptsBound'
    BY <1>c, <1>d, <2>1, <2>2 DEF AttemptsBound
  <2>4. RepeatNeedsCrashOrStaleSave'
    BY <1>a, <1>b, <1>c, <2>1 DEF RepeatNeedsCrashOrStaleSave
  <2>5. ASSUME NEW a \in Actions, CanRunAgain(a)'
        PROVE  attempts[a] <= crashes + resurrected'[a]
    <3>1. PICK t \in Sessions : a \in sessions'[t].pending
      BY <2>1, <2>2, <2>5 DEF CanRunAgain
    <3>2. CASE a \notin sessions[t].pending
      <4>1. t = s /\ a \in req[r].ctx.pending \ sessions[s].pending
        BY <2>1, <3>1, <3>2
      <4> QED
        BY <4>1, <2>1, <1>a, <1>b, <1>c
    <3>3. CASE a \in sessions[t].pending
      <4>1. Owns(t, a)
        BY <1>0, <3>3 DEF GateInv, Ownership
      <4>2. req[r].action # a
        <5> SUFFICES ASSUME req[r].action = a PROVE FALSE
          OBVIOUS
        <5>1. Owns(s, a) /\ a \notin req[r].ctx.pending
          BY <1>0, <2>1 DEF GateInv, Ownership, Confirming
        <5>2. t = s
          BY <4>1, <5>1 DEF Owns
        <5> QED
          BY <2>1, <3>1, <5>1, <5>2
      <4>3. CanRunAgain(a)
        BY <2>2, <3>3, <4>2 DEF CanRunAgain
      <4> QED
        BY <1>a, <1>b, <1>c, <2>1, <4>3
    <3> QED
      BY <3>2, <3>3
  <2> QED
    BY <1>0, <2>1, <2>3, <2>4, <2>5 DEF RepeatInv, RunsJustified
<1>7. CASE Crash
  <2>1. /\ crashes' = crashes + 1 /\ \A q \in Requests : req'[q].pc = "idle"
        /\ UNCHANGED <<sessions, attempts, resurrected>>
    BY <1>7 DEF Crash, Idle, durable
  <2>2. AttemptsBound'
    BY <1>c, <2>1 DEF AttemptsBound
  <2>3. RunsJustified' /\ RepeatNeedsCrashOrStaleSave'
    BY <1>a, <1>b, <1>c, <2>1 DEF RunsJustified, RepeatNeedsCrashOrStaleSave
  <2> QED
    BY <1>0, <2>2, <2>3 DEF RepeatInv
<1> QED
  BY <1>0, <1>1, <1>2, <1>3, <1>4, <1>5, <1>6, <1>7, MinorOrMajor

\* No action is executed more often than once, plus once for each crash, plus
\* once for each save that put it back after it had run: without a crash and
\* without a stale save a confirmation is honoured at most once.
THEOREM RepeatsJustified == Spec => []RepeatNeedsCrashOrStaleSave
<1>1. RepeatInv => RepeatNeedsCrashOrStaleSave
  BY DEF RepeatInv
<1> QED
  BY <1>1, RepeatInvInit, RepeatInvStep, PTL DEF Spec
-----------------------------------------------------------------------------
(* The audit trail.                                                          *)

\* What the rows of an action tell of its executions: at most one write each,
\* and a row closed as failed stands for one that wrote nothing.
EffectsTold ==
  \A a \in Actions :
    /\ writes[a] <= attempts[a]
    /\ workflow[a] = "completed" /\ call[a].kind # "search" => writes[a] > 0
    /\ workflow[a] = "failed" => writes[a] < attempts[a]

\* What the result of an execution tells until _finish_workflow_state runs.
ResultTold ==
  \A q \in Requests : req[q].pc = "finish" =>
    LET a == req[q].action IN
    /\ attempts[a] > 0
    /\ req[q].ok /\ call[a].kind # "search" => writes[a] > 0
    /\ ~req[q].ok => writes[a] < attempts[a]

\* A request past that point leaves no row of its action open.
RowClosed ==
  /\ \A q \in Requests : req[q].pc \in {"save", "trace"} /\ req[q].action \in Actions =>
       attempts[req[q].action] > 0 /\ workflow[req[q].action] # "awaiting_review"
  /\ \A a \in traced : attempts[a] > 0 /\ workflow[a] # "awaiting_review"

AuditInv == GateInv /\ EffectsTold /\ ResultTold /\ RowClosed


\* Whose confirmation gets a trace.
LEMMA TraceEffect ==
  ASSUME [Next]_vars
  PROVE  \A a \in traced' \ traced : \E r \in Requests : req[r].pc = "trace" /\ req[r].action = a
<1>1. ASSUME NEW r \in Requests, Start(r) \/ Hold(r) \/ Wake(r)
      PROVE  \A a \in traced' \ traced : req[r].pc = "trace" /\ req[r].action = a
  <2>1. CASE Start(r)
    BY <2>1 DEF Start, ChatStart, ConfirmStart, UploadStart, DeleteStart, durable
  <2>2. CASE Hold(r)
    BY <2>2 DEF Hold, Execute, Finish, Save, Trace, DeleteDone
  <2>3. CASE Wake(r)
    BY <2>3 DEF Wake, Decided, Retrieved, Answered, ReadToolOrError, ToolProposed,
         CompletedSource, UploadDone,
                EmbeddingFails, DeleteDone, durable
  <2> QED
    BY <1>1, <2>1, <2>2, <2>3
<1>2. CASE Library \/ Crash \/ UNCHANGED vars
  BY <1>2 DEF Library, SelectDocument, AttachDocument, DetachDocument, SetRetrievalScope, Crash,
              vars, durable
<1> QED
  BY <1>1, <1>2 DEF Next

\* What an execution writes, and what it reports.
LEMMA ExecuteWrites ==
  ASSUME TypeInv, NEW r \in Requests, Execute(r)
  PROVE  LET a == req[r].action IN
         /\ req'[r].ok /\ call[a].kind # "search" => writes'[a] = writes[a] + 1
         /\ ~(req'[r].ok /\ call[a].kind # "search") => writes'[a] = writes[a]
         /\ \A b \in Actions : b # a => writes'[b] = writes[b]
<1>1. req[r] \in Request /\ req[r].action \in Actions
  BY ExecuteEffect DEF TypeInv, Held
<1>2. PICK ok \in BOOLEAN :
         /\ writes' = [writes EXCEPT ![req[r].action] =
                         IF ok /\ call[req[r].action].kind # "search" THEN @ + 1 ELSE @]
         /\ req' = [req EXCEPT ![r].pc = "finish", ![r].ok = ok]
  BY DEF Execute
<1>3. req'[r].ok = ok
  BY <1>1, <1>2 DEF TypeInv, Request
<1>4. writes \in [Actions -> Nat]
  BY DEF TypeInv, TypeOK
<1> QED
  BY <1>1, <1>2, <1>3, <1>4

LEMMA AuditInvStep == AuditInv /\ [Next]_vars => AuditInv'
<1> SUFFICES ASSUME AuditInv, [Next]_vars PROVE AuditInv'
  OBVIOUS
<1>0. TypeInv /\ GateInv /\ GateInv' /\ TypeInv'
  BY GateInvStep DEF AuditInv, GateInv
<1>a. /\ \A a \in Actions : attempts[a] \in Nat /\ writes[a] \in Nat
      /\ \A q \in Requests : req[q] \in Held
  BY <1>0 DEF TypeInv, TypeOK
<1>b. /\ \A a \in Actions : attempts[a] > 0 => call[a] # NoCall
      /\ \A a \in Actions : workflow[a] # "none" => call[a] # NoCall
  BY <1>a, <1>0 DEF GateInv, Unproposed
<1>d. \A a \in traced' : a \in traced \/ \E r \in Requests : req[r].pc = "trace" /\ req[r].action = a
  BY TraceEffect
<1>e. "awaiting_review" \notin Closed /\ Closed = {"completed", "failed"}
  BY DEF Closed
\* A trace follows a closed row.
<1>f. ASSUME \A a \in Actions : attempts[a] > 0 => attempts'[a] > 0,
             \A a \in Actions : attempts[a] > 0 /\ workflow[a] # "awaiting_review"
                                 => workflow'[a] # "awaiting_review"
      PROVE  \A a \in traced' : attempts'[a] > 0 /\ workflow'[a] # "awaiting_review"
  <2> SUFFICES ASSUME NEW a \in traced'
               PROVE  attempts'[a] > 0 /\ workflow'[a] # "awaiting_review"
    OBVIOUS
  <2>1. a \in Actions
    BY <1>0 DEF TypeInv, TypeOK
  <2>2. attempts[a] > 0 /\ workflow[a] # "awaiting_review"
    BY <1>d, <2>1 DEF AuditInv, RowClosed
  <2> QED
    BY <1>f, <2>1, <2>2
<1>g. \A q \in Requests : req[q].pc = "finish" => req[q].action \in Actions
  BY <1>a DEF Held
<1>1. CASE Minor
  <2>1. \A q \in Requests : req'[q].pc = "finish" => req'[q] = req[q]
    BY <1>1 DEF Minor, LibraryPC, MovesOn, Loads
  <2>2. \A q \in Requests : req'[q].pc \in {"save", "trace"} =>
          req'[q] = req[q] \/ req'[q].action = NoAction
    BY <1>1, <1>a DEF Minor, LibraryPC, MovesOn, Loads, Held
  <2>3. UNCHANGED GateState
    BY <1>1 DEF Minor
  <2>4. EffectsTold' /\ ResultTold' /\ RowClosed'
    BY <1>f, <2>1, <2>2, <2>3, ConstantsOK
    DEF GateState, AuditInv, EffectsTold, ResultTold, RowClosed
  <2> QED
    BY <1>0, <2>4 DEF AuditInv
<1>2. ASSUME NEW r \in Requests, ToolProposed(r) PROVE AuditInv'
  <2>1. PICK a \in Actions :
           /\ call[a] = NoCall
           /\ workflow'[a] \in {workflow[a], "awaiting_review"}
           /\ workflow'[a] = workflow[a] \/ call'[a].source \in documents \cup {NoDoc}
           /\ \A b \in Actions : b # a => call'[b] = call[b] /\ workflow'[b] = workflow[b]
           /\ req'[r].pc = "save" /\ req'[r].action = NoAction
           /\ \A q \in Requests : q # r => req'[q] = req[q]
           /\ UNCHANGED <<writes, attempts>>
    BY <1>0, <1>2, ProposedEffect
  <2>2. workflow[a] = "none" /\ attempts[a] = 0 /\ writes[a] = 0
    BY <1>0, <1>a, <2>1 DEF GateInv, Unproposed, AuditInv, EffectsTold
  <2>4. EffectsTold'
    BY <1>a, <2>1, <2>2 DEF AuditInv, EffectsTold
  <2>5. ResultTold'
    <3>1. \A q \in Requests : req[q].pc = "finish" => q # r /\ req[q].action # a
      BY <1>2, <2>2 DEF AuditInv, ResultTold, ToolProposed, CompletedSource, Resume
    <3> QED
      BY <1>g, <2>1, <3>1 DEF AuditInv, ResultTold
  <2>6. RowClosed'
    BY <1>f, <2>1, <2>2, ConstantsOK DEF AuditInv, RowClosed
  <2> QED
    BY <1>0, <2>4, <2>5, <2>6 DEF AuditInv
<1>3. ASSUME NEW r \in Requests, NEW s \in Sessions, NEW a \in Actions, ConfirmStart(r, s, a)
      PROVE  AuditInv'
  <2>1. /\ req'[r].pc = "execute" \/ (req'[r].pc = "save" /\ req'[r].action = NoAction)
        /\ \A q \in Requests : q # r => req'[q] = req[q]
        /\ UNCHANGED <<GateState, sessions>>
    BY <1>0, <1>3, ConfirmEffect
  <2>2. EffectsTold' /\ ResultTold' /\ RowClosed'
    BY <1>f, <2>1, ConstantsOK
    DEF GateState, AuditInv, EffectsTold, ResultTold, RowClosed
  <2> QED
    BY <1>0, <2>2 DEF AuditInv
<1>4. ASSUME NEW r \in Requests, Execute(r) PROVE AuditInv'
  <2> DEFINE a == req[r].action
  <2>1. /\ req[r].pc = "execute" /\ a \in Actions
        /\ attempts'[a] = attempts[a] + 1
        /\ \A b \in Actions : b # a => attempts'[b] = attempts[b]
        /\ req'[r].pc = "finish" /\ req'[r].action = a
        /\ \A q \in Requests : q # r => req'[q] = req[q]
        /\ UNCHANGED <<workflow, call>>
    BY <1>0, <1>4, ExecuteEffect
  <2>2. /\ req'[r].ok /\ call[a].kind # "search" => writes'[a] = writes[a] + 1
        /\ ~(req'[r].ok /\ call[a].kind # "search") => writes'[a] = writes[a]
        /\ \A b \in Actions : b # a => writes'[b] = writes[b]
    BY <1>0, <1>4, ExecuteWrites
  <2>6. EffectsTold'
    BY <1>a, <2>1, <2>2 DEF AuditInv, EffectsTold
  <2>7. ResultTold'
    <3>1. \A q \in Requests : req[q].pc = "finish" => q # r /\ req[q].action \in Actions
      BY <1>a, <2>1 DEF Held
    <3>2. \A b \in Actions : attempts[b] > 0 => attempts'[b] > 0
      BY <1>a, <2>1
    <3>3. \A b \in Actions : writes[b] > 0 => writes'[b] > 0
      BY <1>a, <2>2
    <3>4. /\ attempts'[a] > 0 /\ (req'[r].ok /\ call[a].kind # "search" => writes'[a] > 0)
          /\ ~req'[r].ok => writes'[a] < attempts'[a]
      BY <1>a, <2>1, <2>2 DEF AuditInv, EffectsTold
    <3>5. \A b \in Actions : writes[b] < attempts[b] => writes'[b] < attempts'[b]
      BY <1>a, <2>1, <2>2
    <3> QED
      BY <2>1, <3>1, <3>2, <3>3, <3>4, <3>5 DEF AuditInv, ResultTold
  <2>8. RowClosed'
    <3>1. \A b \in Actions : attempts[b] > 0 => attempts'[b] > 0
      BY <1>a, <2>1
    <3> QED
      BY <1>f, <2>1, <3>1 DEF AuditInv, RowClosed
  <2> QED
    BY <1>0, <2>6, <2>7, <2>8 DEF AuditInv
<1>5. ASSUME NEW r \in Requests, Finish(r) PROVE AuditInv'
  <2> DEFINE a == req[r].action
  <2>1. /\ req[r].pc = "finish" /\ a \in Actions
        /\ workflow'[a] # workflow[a] => workflow[a] = "awaiting_review"
        /\ \A b \in Actions : b # a => workflow'[b] = workflow[b]
        /\ req'[r].pc = "save" /\ req'[r].action = a
        /\ \A q \in Requests : q # r => req'[q] = req[q]
        /\ UNCHANGED <<writes, call, attempts>>
    BY <1>0, <1>5, FinishEffect
  <2>2. workflow'[a] = IF workflow[a] = "awaiting_review" THEN Outcome(req[r].ok) ELSE workflow[a]
    <3>1. call[a].session = req[r].session
      BY <1>0, <2>1 DEF GateInv, Ownership, Confirming, Owns
    <3> QED
      BY <1>0, <1>5, <2>1, <3>1 DEF Finish, Closes, TypeInv, TypeOK
  <2>3. /\ attempts[a] > 0
        /\ req[r].ok /\ call[a].kind # "search" => writes[a] > 0
        /\ ~req[r].ok => writes[a] < attempts[a]
    BY <2>1 DEF AuditInv, ResultTold
  <2>5. EffectsTold'
    BY <2>1, <2>2, <2>3 DEF AuditInv, EffectsTold, Outcome
  <2>6. ResultTold'
    BY <1>g, <2>1, <2>2 DEF AuditInv, ResultTold
  <2>7. RowClosed'
    BY <1>f, <2>1, <2>2, <2>3 DEF AuditInv, RowClosed, Outcome
  <2> QED
    BY <1>0, <2>5, <2>6, <2>7 DEF AuditInv
<1>6. ASSUME NEW r \in Requests, Save(r) PROVE AuditInv'
  <2>1. /\ req[r].pc = "save" /\ req'[r].pc = "trace" /\ req'[r].action = req[r].action
        /\ \A q \in Requests : q # r => req'[q] = req[q]
        /\ UNCHANGED <<workflow, writes, call, attempts>>
    BY <1>0, <1>6, SaveEffect
  <2>2. EffectsTold' /\ ResultTold' /\ RowClosed'
    BY <1>f, <2>1 DEF AuditInv, EffectsTold, ResultTold, RowClosed
  <2> QED
    BY <1>0, <2>2 DEF AuditInv
<1>7. CASE Crash
  <2>1. /\ \A q \in Requests : req'[q].pc = "idle"
        /\ UNCHANGED <<workflow, writes, call, attempts>>
    BY <1>7 DEF Crash, Idle, durable
  <2>2. EffectsTold' /\ ResultTold' /\ RowClosed'
    BY <1>f, <2>1 DEF AuditInv, EffectsTold, ResultTold, RowClosed
  <2> QED
    BY <1>0, <2>2 DEF AuditInv
<1> QED
  BY <1>0, <1>1, <1>2, <1>3, <1>4, <1>5, <1>6, <1>7, MinorOrMajor

LEMMA AuditInvInit == Init => AuditInv
<1> SUFFICES ASSUME Init PROVE AuditInv
  OBVIOUS
<1>1. \A q \in Requests : req[q].pc = "idle"
  BY DEF Init, Idle
<1>2. \A a \in Actions : workflow[a] = "none" /\ writes[a] = 0 /\ attempts[a] = 0
  BY DEF Init
<1> QED
  BY <1>1, <1>2, GateInvInit
  DEF Init, AuditInv, EffectsTold, ResultTold, RowClosed

LEMMA AuditInvariant == Spec => []AuditInv
BY AuditInvInit, AuditInvStep, PTL DEF Spec

\* A row marked completed stands for committed writes.  One marked failed stands
\* for none, but for those of further executions, and each of these needs a crash
\* or a save that put the action back.  A trace of a confirmed execution stands
\* for one that ran and was closed.
THEOREM AuditTrailTrue == Spec => []AuditTrail
<1>1. AuditInv /\ RepeatNeedsCrashOrStaleSave => AuditTrail
  <2> SUFFICES ASSUME AuditInv, RepeatNeedsCrashOrStaleSave, NEW a \in Actions
               PROVE  /\ workflow[a] = "completed" /\ call[a].kind # "search" => writes[a] > 0
                      /\ workflow[a] = "failed" => writes[a] <= crashes + resurrected[a]
    BY DEF AuditInv, RowClosed, AuditTrail
  <2>1. writes[a] \in Nat /\ attempts[a] \in Nat /\ crashes \in Nat /\ resurrected[a] \in Nat
    BY DEF AuditInv, GateInv, TypeInv, TypeOK
  <2>2. attempts[a] <= 1 + crashes + resurrected[a]
    BY DEF RepeatNeedsCrashOrStaleSave
  <2> QED
    BY <2>1, <2>2 DEF AuditInv, EffectsTold
<1> QED
  BY <1>1, AuditInvariant, RepeatsJustified, PTL
-----------------------------------------------------------------------------
(* Rows nobody can confirm any more.                                         *)

\* Until a crash, an action that awaits review has not run, or is about to be
\* closed; it is pending in its session, or about to be, or was dropped.
Accounted(a) ==
  /\ \/ attempts[a] = 0
     \/ \E q \in Requests : req[q].pc = "finish" /\ req[q].action = a
  /\ \/ a \in sessions[call[a].session].pending
     \/ a \in dropped
     \/ \E q \in Requests : /\ req[q].pc = "save" /\ req[q].session = call[a].session
                            /\ a \in req[q].ctx.pending

Confirmable ==
  \A a \in Actions : workflow[a] = "awaiting_review" /\ crashes = 0 => Accounted(a)

OrphanInv == AuditInv /\ Confirmable

LEMMA ConfirmableStep == OrphanInv /\ [Next]_vars => Confirmable'
<1> SUFFICES ASSUME OrphanInv, [Next]_vars,
                    NEW a \in Actions, workflow'[a] = "awaiting_review", crashes' = 0
             PROVE  Accounted(a)'
  BY DEF Confirmable
<1>0. TypeInv /\ GateInv
  BY DEF OrphanInv, AuditInv, GateInv
<1>a. \A q \in Requests : req[q] \in Held
  BY <1>0 DEF TypeInv
<1>b. workflow[a] # "none" => call[a] # NoCall /\ call[a].session \in Sessions
  BY <1>0 DEF GateInv, Unproposed, TypeInv, TypeOK, ToolCall
<1>c. {"execute", "finish", "save"} \subseteq Running
  BY DEF Running
<1>d. workflow[a] = "awaiting_review" /\ crashes = 0 => Accounted(a)
  BY DEF OrphanInv, Confirmable
<1>1. CASE Minor
  <2>1. /\ \A q \in Requests : req[q].pc \in {"finish", "save"} => req'[q] = req[q]
        /\ \A s \in Sessions : sessions'[s].pending = sessions[s].pending
        /\ UNCHANGED GateState
    BY <1>1, <1>c, ProgramCounters DEF Minor, LoopFree
  <2> QED
    BY <1>b, <1>d, <2>1 DEF GateState, Accounted
<1>2. ASSUME NEW r \in Requests, ToolProposed(r)
      PROVE  Accounted(a)'
  <2>1. PICK b \in Actions :
           /\ call[b] = NoCall /\ req[r].pc = "propose"
           /\ call'[b].session = req[r].session
           /\ \A c \in Actions : c # b => call'[c] = call[c] /\ workflow'[c] = workflow[c]
           /\ req'[r].pc = "save" /\ req'[r].session = req[r].session
           /\ req'[r].ctx.pending = req[r].ctx.pending \cup {b}
           /\ \A q \in Requests : q # r => req'[q] = req[q]
           /\ UNCHANGED <<sessions, attempts, dropped, crashes>>
    BY <1>0, <1>2, ProposedEffect
  <2>2. CASE a = b
    BY <1>0, <2>1, <2>2 DEF GateInv, Unproposed, Accounted
  <2>3. CASE a # b
    BY <1>d, <2>1, <2>3 DEF Accounted
  <2> QED
    BY <2>2, <2>3
<1>3. ASSUME NEW r \in Requests, NEW s \in Sessions, NEW b \in Actions, ConfirmStart(r, s, b)
      PROVE  Accounted(a)'
  <2>1. /\ req[r].pc = "idle" /\ UNCHANGED <<GateState, sessions>>
        /\ \A q \in Requests : q # r => req'[q] = req[q]
    BY <1>0, <1>3, ConfirmEffect
  <2> QED
    BY <1>d, <2>1 DEF GateState, Accounted
<1>4. ASSUME NEW r \in Requests, Execute(r)
      PROVE  Accounted(a)'
  <2>1. /\ req[r].pc = "execute" /\ req'[r].pc = "finish" /\ req'[r].action = req[r].action
        /\ \A b \in Actions : b # req[r].action => attempts'[b] = attempts[b]
        /\ \A q \in Requests : q # r => req'[q] = req[q]
        /\ UNCHANGED <<sessions, workflow, call, dropped, crashes>>
    BY <1>0, <1>4, ExecuteEffect
  <2> QED
    BY <1>d, <2>1 DEF Accounted
<1>5. ASSUME NEW r \in Requests, Finish(r)
      PROVE  Accounted(a)'
  <2>1. /\ req[r].pc = "finish" /\ req[r].action \in Actions
        /\ \A b \in Actions : b # req[r].action => workflow'[b] = workflow[b]
        /\ \A q \in Requests : q # r => req'[q] = req[q]
        /\ UNCHANGED <<sessions, call, attempts, dropped, crashes>>
    BY <1>0, <1>5, FinishEffect
  <2>2. a # req[r].action
    <3> SUFFICES ASSUME a = req[r].action PROVE FALSE
      OBVIOUS
    <3>1. call[a].session = req[r].session
      BY <1>0, <2>1 DEF GateInv, Ownership, Confirming, Owns
    <3> QED
      BY <1>0, <1>5, <2>1, <3>1 DEF Finish, Closes, Outcome, TypeInv, TypeOK
  <2> QED
    BY <1>d, <2>1, <2>2 DEF Accounted
<1>6. ASSUME NEW r \in Requests, Save(r)
      PROVE  Accounted(a)'
  <2> DEFINE s == req[r].session
  <2>1. /\ req[r].pc = "save" /\ s \in Sessions
        /\ sessions'[s].pending = req[r].ctx.pending
        /\ \A t \in Sessions : t # s => sessions'[t] = sessions[t]
        /\ req'[r].pc = "trace"
        /\ \A q \in Requests : q # r => req'[q] = req[q]
        /\ UNCHANGED <<workflow, call, attempts, crashes>>
    BY <1>0, <1>6, SaveEffect
  <2>2. dropped' = dropped \cup {b \in sessions[s].pending \ req[r].ctx.pending : attempts[b] = 0}
    BY <1>6 DEF Save
  <2>3. \A q \in Requests : q # r => req[q].pc \notin {"finish", "save"}
    BY <1>0, <1>c, <2>1 DEF GateInv, OneRunning
  <2>4. attempts[a] = 0
    BY <1>d, <2>1, <2>3 DEF Accounted
  <2> QED
    BY <1>b, <1>d, <2>1, <2>2, <2>3, <2>4 DEF Accounted
<1>7. CASE Crash
  <2>1. crashes' = crashes + 1 /\ crashes \in Nat
    BY <1>0, <1>7 DEF Crash, TypeInv, TypeOK
  <2> QED
    BY <2>1
<1> QED
  BY <1>0, <1>1, <1>2, <1>3, <1>4, <1>5, <1>6, <1>7, MinorOrMajor

LEMMA OrphanInvariant == Spec => []OrphanInv
<1>1. Init => OrphanInv
  BY AuditInvInit DEF Init, OrphanInv, Confirmable
<1>2. OrphanInv /\ [Next]_vars => OrphanInv'
  BY AuditInvStep, ConfirmableStep DEF OrphanInv
<1> QED
  BY <1>1, <1>2, PTL DEF Spec

\* A row left awaiting review that nobody can confirm was cut off by a crash,
\* or by a save that dropped its action from the session.
THEOREM OrphansExplained == Spec => []OrphanNeedsCrashOrStaleSave
<1>1. OrphanInv => OrphanNeedsCrashOrStaleSave
  <2> SUFFICES ASSUME OrphanInv, NEW a \in Actions, workflow[a] = "awaiting_review",
                      \A r \in Requests : req[r].pc = "idle",
                      a \notin sessions[call[a].session].pending, a \notin dropped
               PROVE  crashes > 0
    BY DEF OrphanNeedsCrashOrStaleSave
  <2>1. crashes # 0
    BY DEF OrphanInv, Confirmable, Accounted
  <2>2. crashes \in Nat
    BY DEF OrphanInv, AuditInv, GateInv, TypeInv, TypeOK
  <2> QED
    BY <2>1, <2>2
<1> QED
  BY <1>1, OrphanInvariant, PTL

-----------------------------------------------------------------------------
(* One client that waits for each response, and no crash.                    *)

OneClient ==
  /\ crashes = 0
  /\ \A p, q \in Requests : req[p].pc # "idle" /\ req[q].pc # "idle" => p = q

\* A chat request holds its session's pending actions, without the one it
\* confirms.
HoldsPending ==
  \A q \in Requests :
    /\ req[q].pc \in Parked \cap ChatPC =>
         req[q].ctx.pending = sessions[req[q].session].pending
    /\ req[q].pc \in {"execute", "finish"} =>
         /\ req[q].action \in sessions[req[q].session].pending
         /\ req[q].ctx.pending = sessions[req[q].session].pending \ {req[q].action}

Open(a) == workflow[a] = "awaiting_review" \/ (workflow[a] = "none" /\ attempts[a] = 0)

Saving(s) == \E q \in Requests : req[q].pc = "save" /\ req[q].session = s

\* The pending actions of a session, and of the copy about to be saved, are
\* the open ones; the action of a finished execution is the exception.
PendingOpen(a) ==
  /\ ~Saving(call[a].session) /\ ~Finishing(a) =>
       (a \in sessions[call[a].session].pending <=> Open(a))
  /\ \A q \in Requests :
       req[q].pc = "save" /\ req[q].session = call[a].session =>
         (a \in req[q].ctx.pending <=> Open(a))
  /\ Finishing(a) => workflow[a] \notin Closed

PendingInv ==
  \A a \in Actions : (call[a] # NoCall => PendingOpen(a)) /\ attempts[a] \in {0, 1}

SerialInv == OrphanInv /\ OneClient /\ HoldsPending /\ PendingInv

\* A request starts when it is admitted; other requests do not notice its steps.
LEMMA RequestStep ==
  ASSUME TypeInv, NEW r \in Requests, Start(r) \/ Hold(r) \/ Wake(r)
  PROVE  /\ Admit \/ req[r].pc # "idle"
         /\ \A q \in Requests : q # r => req'[q] = req[q]
         /\ UNCHANGED crashes
<1>a. DOMAIN req = Requests
  BY DEF TypeInv
<1>1. CASE Start(r)
  BY <1>1, <1>a DEF Start, ChatStart, Preflight, ConfirmStart, UploadStart, DeleteStart, history
<1>2. CASE Hold(r)
  BY <1>2, <1>a DEF Hold, Execute, Finish, Save, Trace, DeleteDone, history
<1>3. CASE Wake(r)
  BY <1>3, <1>a DEF Wake, Resume, Decided, Retrieved, Answered, ReadToolOrError, ToolProposed,
     CompletedSource, UploadDone,
              EmbeddingFails, DeleteDone, history
<1> QED
  BY <1>1, <1>2, <1>3

LEMMA OneClientStep ==
  ASSUME OneAtATime, MaxCrashes = 0, TypeInv, OneClient, [Next]_vars
  PROVE  OneClient'
<1>1. ASSUME NEW r \in Requests, Start(r) \/ Hold(r) \/ Wake(r)
      PROVE  OneClient'
  BY <1>1, RequestStep DEF OneClient, Admit
<1>2. CASE Library
  BY <1>2 DEF Library, SelectDocument, AttachDocument, DetachDocument, SetRetrievalScope, history,
              OneClient
<1>3. CASE Crash
  BY <1>3 DEF Crash, OneClient
<1>4. CASE UNCHANGED vars
  BY <1>4 DEF vars, history, OneClient
<1> QED
  BY <1>1, <1>2, <1>3, <1>4 DEF Next

\* What is known of the action a request is about to run: it is open, and
\* nothing was done for it yet.
LEMMA AboutToRun ==
  ASSUME SerialInv, NEW r \in Requests, req[r].pc = "execute"
  PROVE  LET a == req[r].action IN
         /\ a \in Actions /\ call[a] # NoCall /\ call[a].session = req[r].session
         /\ Open(a) /\ attempts[a] = 0 /\ writes[a] = 0
         /\ \A q \in Requests : q # r => req[q].pc = "idle"
<1> DEFINE a == req[r].action
<1>1. a \in Actions
  BY DEF SerialInv, OrphanInv, AuditInv, GateInv, TypeInv, Held
<1>2. call[a] # NoCall /\ call[a].session = req[r].session
  BY <1>1 DEF SerialInv, OrphanInv, AuditInv, GateInv, Ownership, Confirming, Owns
<1>3. \A q \in Requests : q # r => req[q].pc = "idle"
  BY DEF SerialInv, OneClient
<1>4. ~Saving(call[a].session) /\ ~Finishing(a)
  BY <1>3 DEF Saving, Finishing
<1>5. Open(a)
  BY <1>1, <1>2, <1>4 DEF SerialInv, HoldsPending, PendingInv, PendingOpen
<1>6. attempts[a] = 0
  BY <1>1, <1>3, <1>5 DEF Open, SerialInv, OrphanInv, OneClient, Confirmable, Accounted
<1>7. writes[a] = 0
  <2>1. writes[a] \in Nat
    BY <1>1 DEF SerialInv, OrphanInv, AuditInv, GateInv, TypeInv, TypeOK
  <2> QED
    BY <2>1, <1>1, <1>6 DEF SerialInv, OrphanInv, AuditInv, EffectsTold
<1> QED
  BY <1>1, <1>2, <1>3, <1>5, <1>6, <1>7

LEMMA PendingInvStep ==
  ASSUME SerialInv, [Next]_vars, OneClient', crashes' = 0
  PROVE  HoldsPending' /\ PendingInv'
<1>0. TypeInv /\ GateInv /\ OrphanInv /\ PendingInv
  BY DEF SerialInv, OrphanInv, AuditInv, GateInv
<1>a. \A q \in Requests : req[q] \in Held
  BY <1>0 DEF TypeInv
<1>b. \A b \in Actions : call[b] # NoCall => call[b].session \in Sessions /\ PendingOpen(b)
  BY <1>0 DEF TypeInv, TypeOK, ToolCall, PendingInv
<1>c. /\ {"execute", "finish", "save", "trace"} \subseteq Running
      /\ {"execute", "finish", "save", "trace", "idle"} \cap Parked = {}
      /\ {"execute", "finish", "save"} \cap LibraryPC = {}
      /\ LibraryPC \cap ChatPC = {}
  BY ProgramCounters DEF Running, Parked, LibraryPC
<1>d. \A p, q \in Requests : req[p].pc # "idle" /\ req[q].pc # "idle" => p = q
  BY DEF SerialInv, OneClient
<1>1. CASE Minor
  <2>1. /\ \A s \in Sessions : sessions'[s].pending = sessions[s].pending
        /\ UNCHANGED GateState
        /\ \A q \in Requests : req'[q].pc \in {"execute", "finish"} => req'[q] = req[q]
        /\ \A q \in Requests : req[q].pc \in {"finish", "save"} => req'[q] = req[q]
    BY <1>1, <1>c DEF Minor, LoopFree, MovesOn, Loads
  <2>2. \A q \in Requests :
          \/ req'[q] = req[q]
          \/ req'[q].pc \in LibraryPC
          \/ LoopFree /\ MovesOn(q)
          \/ LoopFree /\ \E s \in Sessions : Loads(q, s)
    BY <1>1 DEF Minor, LibraryPC
  <2>3. \A q \in Requests : req[q].pc \in ChatPC => req[q].session \in Sessions
    BY <1>a DEF Held
  <2>4. HoldsPending'
    <3> SUFFICES ASSUME NEW q \in Requests
                 PROVE  /\ req'[q].pc \in Parked \cap ChatPC =>
                             req'[q].ctx.pending = sessions'[req'[q].session].pending
                        /\ req'[q].pc \in {"execute", "finish"} =>
                             /\ req'[q].action \in sessions'[req'[q].session].pending
                             /\ req'[q].ctx.pending =
                                  sessions'[req'[q].session].pending \ {req'[q].action}
      BY DEF HoldsPending
    <3>1. CASE req'[q] = req[q]
      BY <3>1, <2>1, <2>3, ProgramCounters DEF SerialInv, HoldsPending
    <3>2. CASE req'[q].pc \in LibraryPC
      BY <3>2, <1>c
    <3>3. CASE MovesOn(q)
      BY <3>3, <2>1, <2>3 DEF MovesOn, SerialInv, HoldsPending
    <3>4. CASE \E s \in Sessions : Loads(q, s)
      BY <3>4, <2>1 DEF Loads
    <3> QED
      BY <2>2, <3>1, <3>2, <3>3, <3>4
  <2>5. ASSUME NEW b \in Actions, call[b] # NoCall
        PROVE  PendingOpen(b)'
    <3>1. Finishing(b)' <=> Finishing(b)
      BY <2>1 DEF Finishing
    <3>2. Open(b)' <=> Open(b)
      BY <2>1 DEF Open, GateState
    <3>3. call'[b] = call[b] /\ workflow'[b] = workflow[b]
          /\ sessions'[call[b].session].pending = sessions[call[b].session].pending
      BY <1>b, <2>1, <2>5 DEF GateState
    <3>4. Saving(call[b].session) => Saving(call[b].session)'
      BY <2>1, <3>3 DEF Saving
    <3>5. ASSUME NEW q \in Requests, req'[q].pc = "save", req'[q].session = call[b].session
          PROVE  b \in req'[q].ctx.pending <=> Open(b)
      <4>1. CASE req'[q] = req[q]
        BY <4>1, <3>5, <1>b, <2>5 DEF PendingOpen
      <4>2. CASE LoopFree
        <5>1. ~Saving(call[b].session) /\ ~Finishing(b)
          BY <4>2, <1>c DEF LoopFree, Saving, Finishing
        <5>2. b \in sessions[call[b].session].pending <=> Open(b)
          BY <5>1, <1>b, <2>5 DEF PendingOpen
        <5>3. CASE MovesOn(q)
          BY <5>2, <5>3, <3>5 DEF MovesOn, SerialInv, HoldsPending
        <5>4. CASE \E s \in Sessions : Loads(q, s)
          BY <5>2, <5>4, <3>5 DEF Loads
        <5> QED
          BY <4>1, <5>3, <5>4, <2>2, <3>5, <1>c
      <4> QED
        BY <4>1, <4>2, <2>2, <3>5, <1>c
    <3> QED
      BY <1>b, <2>5, <3>1, <3>2, <3>3, <3>4, <3>5 DEF PendingOpen
  <2>6. PendingInv'
    BY <1>0, <2>1, <2>5 DEF GateState, PendingInv
  <2> QED
    BY <2>4, <2>6
<1>2. ASSUME NEW r \in Requests, ToolProposed(r) PROVE HoldsPending' /\ PendingInv'
  <2>1. PICK a \in Actions :
           /\ call[a] = NoCall /\ req[r].pc = "propose" /\ req[r].session \in Sessions
           /\ call'[a].session = req[r].session
           /\ workflow'[a] \in {workflow[a], "awaiting_review"}
           /\ \A b \in Actions : b # a => call'[b] = call[b] /\ workflow'[b] = workflow[b]
           /\ req'[r].pc = "save" /\ req'[r].session = req[r].session
           /\ req'[r].ctx.pending = req[r].ctx.pending \cup {a}
           /\ \A q \in Requests : q # r => req'[q] = req[q]
           /\ UNCHANGED <<sessions, writes, attempts>>
    BY <1>0, <1>2, ProposedEffect
  <2>2. \A q \in Requests : q # r => req[q].pc = "idle" /\ req'[q].pc = "idle"
    BY <1>d, <2>1
  <2>3. HoldsPending'
    BY <1>c, <2>1, <2>2 DEF HoldsPending
  <2>4. req[r].ctx.pending = sessions[req[r].session].pending
    BY <2>1, ProgramCounters DEF SerialInv, HoldsPending, Parked
  <2>5. workflow[a] = "none" /\ attempts[a] = 0
    BY <1>0, <2>1 DEF GateInv, Unproposed
  <2>6. \A b \in Actions : ~Finishing(b) /\ ~Finishing(b)'
    BY <2>1, <2>2 DEF Finishing
  <2>7. \A s : ~Saving(s)
    BY <2>1, <2>2 DEF Saving
  <2>8. PendingOpen(a)'
    BY <2>1, <2>2, <2>5, <2>6 DEF PendingOpen, Saving, Open
  <2>9. ASSUME NEW b \in Actions, b # a, call[b] # NoCall
        PROVE  PendingOpen(b)'
    <3>1. b \in sessions[call[b].session].pending <=> Open(b)
      BY <1>b, <2>6, <2>7, <2>9 DEF PendingOpen
    <3>2. Open(b)' <=> Open(b)
      BY <2>1, <2>9 DEF Open
    <3>3. \A q \in Requests : req'[q].pc = "save" => q = r
      BY <2>2
    <3> QED
      BY <2>1, <2>4, <2>6, <2>9, <3>1, <3>2, <3>3 DEF PendingOpen
  <2>10. PendingInv'
    BY <1>0, <2>1, <2>8, <2>9 DEF PendingInv
  <2> QED
    BY <2>3, <2>10
<1>3. ASSUME NEW r \in Requests, NEW s \in Sessions, NEW a \in Actions, ConfirmStart(r, s, a)
      PROVE  HoldsPending' /\ PendingInv'
  <2>1. /\ LoopFree /\ req[r].pc = "idle" /\ req'[r].session = s
        /\ \/ /\ a \in sessions[s].pending
              /\ req'[r].pc = "execute" /\ req'[r].action = a
              /\ req'[r].ctx.pending = sessions[s].pending \ {a}
           \/ /\ req'[r].pc = "save" /\ req'[r].ctx.pending = sessions[s].pending
        /\ \A q \in Requests : q # r => req'[q] = req[q]
        /\ UNCHANGED <<GateState, sessions>>
    BY <1>0, <1>3, ConfirmEffect
  <2>2. \A q \in Requests : q # r => req'[q].pc = "idle"
    BY <2>1 DEF OneClient
  <2>3. HoldsPending'
    BY <1>c, <2>1, <2>2 DEF HoldsPending
  <2>4. \A b \in Actions : ~Finishing(b) /\ ~Finishing(b)'
    BY <1>c, <2>1, <2>2 DEF Finishing, LoopFree
  <2>5. \A t : ~Saving(t)
    BY <1>c, <2>1 DEF Saving, LoopFree
  <2>6. ASSUME NEW b \in Actions, call[b] # NoCall
        PROVE  PendingOpen(b)'
    <3>1. b \in sessions[call[b].session].pending <=> Open(b)
      BY <1>b, <2>4, <2>5, <2>6 DEF PendingOpen
    <3>2. (Open(b)' <=> Open(b)) /\ call'[b] = call[b]
      BY <2>1 DEF Open, GateState
    <3>3. \A q \in Requests : req'[q].pc = "save" => q = r
      BY <2>2
    <3> QED
      BY <2>1, <2>4, <3>1, <3>2, <3>3 DEF PendingOpen
  <2>7. PendingInv'
    BY <1>0, <2>1, <2>6 DEF GateState, PendingInv
  <2> QED
    BY <2>3, <2>7
<1>4. ASSUME NEW r \in Requests, Execute(r) PROVE HoldsPending' /\ PendingInv'
  <2> DEFINE a == req[r].action
  <2>1. /\ req[r].pc = "execute" /\ a \in Actions
        /\ attempts'[a] = attempts[a] + 1
        /\ \A b \in Actions : b # a => attempts'[b] = attempts[b]
        /\ req'[r].pc = "finish" /\ req'[r].session = req[r].session
        /\ req'[r].action = a /\ req'[r].ctx = req[r].ctx
        /\ \A q \in Requests : q # r => req'[q] = req[q]
        /\ UNCHANGED <<sessions, workflow, call>>
    BY <1>0, <1>4, ExecuteEffect
  <2>2. /\ Open(a) /\ attempts[a] = 0 /\ call[a].session = req[r].session
        /\ \A q \in Requests : q # r => req[q].pc = "idle"
    BY <2>1, AboutToRun
  <2>3. HoldsPending'
    BY <1>c, <2>1, <2>2 DEF HoldsPending, SerialInv
  <2>4. \A b \in Actions : ~Finishing(b) /\ (Finishing(b)' <=> b = a)
    BY <2>1, <2>2 DEF Finishing
  <2>5. \A t : ~Saving(t) /\ ~Saving(t)'
    BY <2>1, <2>2 DEF Saving
  <2>6. workflow[a] \notin Closed
    BY <2>2 DEF Open, Closed
  <2>7. \A q \in Requests : req'[q].pc # "save"
    BY <2>1, <2>2
  <2>8. ASSUME NEW b \in Actions, call[b] # NoCall
        PROVE  PendingOpen(b)'
    <3>1. CASE b = a
      BY <2>1, <2>4, <2>6, <2>7, <3>1 DEF PendingOpen
    <3>2. CASE b # a
      <4>1. b \in sessions[call[b].session].pending <=> Open(b)
        BY <1>b, <2>4, <2>5, <2>8 DEF PendingOpen
      <4>2. Open(b)' <=> Open(b)
        BY <2>1, <3>2 DEF Open
      <4> QED
        BY <2>1, <2>4, <2>7, <3>2, <4>1, <4>2 DEF PendingOpen
    <3> QED
      BY <3>1, <3>2
  <2>9. \A b \in Actions : attempts'[b] \in {0, 1}
    BY <1>0, <2>1, <2>2 DEF PendingInv
  <2>10. PendingInv'
    BY <2>1, <2>8, <2>9 DEF PendingInv
  <2> QED
    BY <2>3, <2>10
<1>5. ASSUME NEW r \in Requests, Finish(r) PROVE HoldsPending' /\ PendingInv'
  <2> DEFINE a == req[r].action
  <2>1. /\ req[r].pc = "finish" /\ a \in Actions
        /\ \A b \in Actions : b # a => workflow'[b] = workflow[b]
        /\ req'[r].pc = "save" /\ req'[r].session = req[r].session
        /\ req'[r].action = a /\ req'[r].ctx = req[r].ctx
        /\ \A q \in Requests : q # r => req'[q] = req[q]
        /\ UNCHANGED <<sessions, writes, call, attempts>>
    BY <1>0, <1>5, FinishEffect
  <2>2. \A q \in Requests : q # r => req[q].pc = "idle" /\ req'[q].pc = "idle"
    BY <1>d, <2>1
  <2>3. HoldsPending'
    BY <1>c, <2>1, <2>2 DEF HoldsPending
  <2>4. call[a] # NoCall /\ call[a].session = req[r].session /\ a \notin req[r].ctx.pending
    BY <1>0, <2>1 DEF GateInv, Ownership, Confirming, Owns
  <2>5. attempts[a] > 0
    BY <1>0, <2>1 DEF OrphanInv, AuditInv, ResultTold
  <2>6. ~Open(a)'
    <3>1. workflow'[a] = IF workflow[a] = "awaiting_review" THEN Outcome(req[r].ok) ELSE workflow[a]
      BY <1>0, <1>5, <2>1, <2>4 DEF Finish, Closes, TypeInv, TypeOK
    <3> QED
      BY <2>1, <2>5, <3>1 DEF Open, Outcome
  <2>7. /\ \A b \in Actions : b # a => ~Finishing(b)
        /\ \A b \in Actions : ~Finishing(b)'
    BY <2>1, <2>2 DEF Finishing
  <2>8. \A t : ~Saving(t)
    BY <2>1, <2>2 DEF Saving
  <2>9. req[r].ctx.pending = sessions[req[r].session].pending \ {a}
    BY <2>1 DEF SerialInv, HoldsPending
  <2>10. \A q \in Requests : req'[q].pc = "save" => q = r
    BY <2>2
  <2>11. ASSUME NEW b \in Actions, call[b] # NoCall
         PROVE  PendingOpen(b)'
    <3>1. CASE b = a
      BY <2>1, <2>4, <2>6, <2>7, <2>10, <3>1 DEF PendingOpen, Saving
    <3>2. CASE b # a
      <4>1. b \in sessions[call[b].session].pending <=> Open(b)
        BY <1>b, <2>7, <2>8, <2>11, <3>2 DEF PendingOpen
      <4>2. Open(b)' <=> Open(b)
        BY <2>1, <3>2 DEF Open
      <4> QED
        BY <2>1, <2>7, <2>9, <2>10, <3>2, <4>1, <4>2 DEF PendingOpen
    <3> QED
      BY <3>1, <3>2
  <2>12. PendingInv'
    BY <1>0, <2>1, <2>11 DEF PendingInv
  <2> QED
    BY <2>3, <2>12
<1>6. ASSUME NEW r \in Requests, Save(r) PROVE HoldsPending' /\ PendingInv'
  <2> DEFINE s == req[r].session
  <2>1. /\ req[r].pc = "save" /\ s \in Sessions
        /\ sessions'[s].pending = req[r].ctx.pending
        /\ \A t \in Sessions : t # s => sessions'[t] = sessions[t]
        /\ req'[r].pc = "trace"
        /\ \A q \in Requests : q # r => req'[q] = req[q]
        /\ UNCHANGED <<workflow, writes, call, attempts>>
    BY <1>0, <1>6, SaveEffect
  <2>2. \A q \in Requests : q # r => req[q].pc = "idle" /\ req'[q].pc = "idle"
    BY <1>d, <2>1
  <2>3. HoldsPending'
    BY <1>c, <2>1, <2>2 DEF HoldsPending
  <2>4. \A b \in Actions : ~Finishing(b) /\ ~Finishing(b)'
    BY <2>1, <2>2 DEF Finishing
  <2>5. \A q \in Requests : req'[q].pc # "save"
    BY <2>1, <2>2
  <2>6. ASSUME NEW b \in Actions, call[b] # NoCall
        PROVE  PendingOpen(b)'
    <3>1. Open(b)' <=> Open(b)
      BY <2>1 DEF Open
    <3>2. CASE call[b].session = s
      <4>1. b \in req[r].ctx.pending <=> Open(b)
        BY <1>b, <2>1, <2>6, <3>2 DEF PendingOpen
      <4> QED
        BY <2>1, <2>4, <2>5, <3>1, <3>2, <4>1 DEF PendingOpen
    <3>3. CASE call[b].session # s
      <4>1. ~Saving(call[b].session)
        BY <2>2, <3>3 DEF Saving
      <4>2. b \in sessions[call[b].session].pending <=> Open(b)
        BY <1>b, <2>4, <2>6, <4>1 DEF PendingOpen
      <4>3. sessions'[call'[b].session] = sessions[call[b].session]
        BY <1>b, <2>1, <2>6, <3>3
      <4> QED
        BY <2>4, <2>5, <3>1, <4>2, <4>3 DEF PendingOpen
    <3> QED
      BY <3>2, <3>3
  <2>7. PendingInv'
    BY <1>0, <2>1, <2>6 DEF PendingInv
  <2> QED
    BY <2>3, <2>7
<1>7. CASE Crash
  <2>1. crashes' = crashes + 1 /\ crashes = 0
    BY <1>7 DEF Crash, SerialInv, OneClient
  <2> QED
    BY <2>1
<1> QED
  BY <1>0, <1>1, <1>2, <1>3, <1>4, <1>5, <1>6, <1>7, MinorOrMajor

LEMMA SerialInvariant ==
  ASSUME OneAtATime, MaxCrashes = 0
  PROVE  Spec => []SerialInv
<1>1. Init => SerialInv
  <2> SUFFICES ASSUME Init PROVE SerialInv
    OBVIOUS
  <2>1. \A q \in Requests : req[q].pc = "idle"
    BY DEF Init, Idle
  <2>2. OrphanInv
    BY AuditInvInit DEF Init, OrphanInv, Confirmable
  <2> QED
    BY <2>1, <2>2 DEF Init, SerialInv, OneClient, HoldsPending, PendingInv, Parked
<1>2. SerialInv /\ [Next]_vars => SerialInv'
  <2> SUFFICES ASSUME SerialInv, [Next]_vars PROVE SerialInv'
    OBVIOUS
  <2>1. OrphanInv'
    BY AuditInvStep, ConfirmableStep DEF SerialInv, OrphanInv
  <2>2. OneClient'
    BY OneClientStep DEF SerialInv, OrphanInv, AuditInv, GateInv
  <2>3. HoldsPending' /\ PendingInv'
    BY <2>2, PendingInvStep DEF OneClient
  <2> QED
    BY <2>1, <2>2, <2>3 DEF SerialInv
<1> QED
  BY <1>1, <1>2, PTL DEF Spec

\* When one client waits for each response and nothing crashes, the session
\* file and the rows agree between requests: pending means open.
THEOREM PendingMeansOpen ==
  ASSUME OneAtATime, MaxCrashes = 0
  PROVE  Spec => []PendingIsOpen
<1>1. SerialInv => PendingIsOpen
  <2> SUFFICES ASSUME SerialInv, \A r \in Requests : req[r].pc = "idle",
                      NEW a \in Actions, call[a] # NoCall
               PROVE  a \in sessions[call[a].session].pending <=> Open(a)
    BY DEF PendingIsOpen, Quiet, Open
  <2>1. ~Saving(call[a].session) /\ ~Finishing(a)
    BY DEF Saving, Finishing
  <2> QED
    BY <2>1 DEF SerialInv, PendingInv, PendingOpen
<1> QED
  BY <1>1, SerialInvariant, PTL

-----------------------------------------------------------------------------
(* The service implements the abstract gate: Finish is Confirm, ToolProposed *)
(* is Propose, and every other step stutters.                                *)

\* What the gate sees of one action.
ReviewOf(a) ==
  CASE workflow[a] \in Closed -> workflow[a]
    [] workflow[a] = "awaiting_review" -> "awaiting"
    [] OTHER -> IF call[a] = NoCall THEN "none"
                ELSE IF attempts[a] = 0 \/ Finishing(a) THEN "unrecorded"
                ELSE "spent"

EffectOf(a) == IF Finishing(a) THEN 0 ELSE writes[a]

LEMMA Mapped ==
  /\ review = [a \in Actions |-> ReviewOf(a)]
  /\ effect = [a \in Actions |-> EffectOf(a)]
BY DEF review, ReviewOf, effect, EffectOf

LEMMA MappedPrime ==
  /\ review' = [a \in Actions |-> ReviewOf(a)']
  /\ effect' = [a \in Actions |-> EffectOf(a)']
BY DEF review, ReviewOf, effect, EffectOf

\* A step that the gate does not see.
LEMMA GateStutters ==
  ASSUME \A a \in Actions : ReviewOf(a)' = ReviewOf(a) /\ EffectOf(a)' = EffectOf(a)
  PROVE  UNCHANGED <<review, effect>>
BY Mapped, MappedPrime

\* A step that changes what the gate sees of one action.
LEMMA GateMoves ==
  ASSUME NEW a \in Actions,
         \A b \in Actions : b # a => ReviewOf(b)' = ReviewOf(b) /\ EffectOf(b)' = EffectOf(b)
  PROVE  /\ review[a] = ReviewOf(a) /\ effect[a] = EffectOf(a)
         /\ review' = [review EXCEPT ![a] = ReviewOf(a)']
         /\ effect' = [effect EXCEPT ![a] = EffectOf(a)']
         /\ EffectOf(a)' = EffectOf(a) => UNCHANGED effect
<1>1. review[a] = ReviewOf(a) /\ effect[a] = EffectOf(a)
  BY Mapped
<1>2. review' = [review EXCEPT ![a] = ReviewOf(a)']
  BY Mapped, MappedPrime
<1>3. effect' = [effect EXCEPT ![a] = EffectOf(a)']
  BY Mapped, MappedPrime
<1>4. EffectOf(a)' = EffectOf(a) => UNCHANGED effect
  BY Mapped, MappedPrime
<1> QED
  BY <1>1, <1>2, <1>3, <1>4

LEMMA ProposedIsPropose ==
  ASSUME SerialInv, NEW r \in Requests, ToolProposed(r)
  PROVE  Gate!Next
<1>0. TypeInv /\ GateInv
  BY DEF SerialInv, OrphanInv, AuditInv, GateInv
<1>1. PICK a \in Actions :
         /\ call[a] = NoCall /\ req[r].pc = "propose"
         /\ call'[a] # NoCall
         /\ workflow'[a] \in {workflow[a], "awaiting_review"}
         /\ \A b \in Actions : b # a => call'[b] = call[b] /\ workflow'[b] = workflow[b]
         /\ req'[r].pc = "save"
         /\ \A q \in Requests : q # r => req'[q] = req[q]
         /\ UNCHANGED <<writes, attempts>>
  BY <1>0, ProposedEffect
<1>2. workflow[a] = "none" /\ attempts[a] = 0
  BY <1>0, <1>1 DEF GateInv, Unproposed
<1>3. \A b \in Actions : Finishing(b)' <=> Finishing(b)
  BY <1>1 DEF Finishing
<1>4. \A b \in Actions : EffectOf(b)' = EffectOf(b)
  BY <1>1, <1>3 DEF EffectOf
<1>5. \A b \in Actions : b # a => ReviewOf(b)' = ReviewOf(b)
  BY <1>1, <1>3 DEF ReviewOf
<1>6. ReviewOf(a) = "none"
  BY <1>1, <1>2 DEF ReviewOf, Closed
<1>7. ReviewOf(a)' \in {"awaiting", "unrecorded"}
  BY <1>1, <1>2 DEF ReviewOf, Closed
<1>8. Gate!Propose(a)
  BY <1>4, <1>5, <1>6, <1>7, GateMoves DEF Gate!Propose
<1> QED
  BY <1>8 DEF Gate!Next

LEMMA FinishIsConfirm ==
  ASSUME SerialInv, NEW r \in Requests, Finish(r)
  PROVE  Gate!Next
<1>0. TypeInv /\ GateInv
  BY DEF SerialInv, OrphanInv, AuditInv, GateInv
<1>1. PICK a \in Actions :
         /\ a = req[r].action /\ req[r].pc = "finish"
         /\ \A b \in Actions : b # a => workflow'[b] = workflow[b]
         /\ req'[r].pc = "save"
         /\ \A q \in Requests : q # r => req'[q] = req[q]
         /\ UNCHANGED <<writes, call, attempts>>
  BY <1>0, FinishEffect
<1>2. call[a] # NoCall /\ call[a].session = req[r].session
  BY <1>0, <1>1 DEF GateInv, Ownership, Confirming, Owns
<1>3. workflow'[a] = IF workflow[a] = "awaiting_review" THEN Outcome(req[r].ok) ELSE workflow[a]
  BY <1>0, <1>1, <1>2 DEF Finish, Closes, TypeInv, TypeOK
<1>4. \A q \in Requests : q # r => req[q].pc = "idle" /\ req'[q].pc = "idle"
  BY <1>1 DEF SerialInv, OneClient
<1>5. /\ Finishing(a)
      /\ \A b \in Actions : b # a => ~Finishing(b)
      /\ \A b \in Actions : ~Finishing(b)'
  BY <1>1, <1>4 DEF Finishing
<1>6. \A b \in Actions : b # a => ReviewOf(b)' = ReviewOf(b) /\ EffectOf(b)' = EffectOf(b)
  BY <1>1, <1>5 DEF ReviewOf, EffectOf
<1>7. EffectOf(a) = 0 /\ EffectOf(a)' = writes[a]
  BY <1>1, <1>5 DEF EffectOf
<1>8. /\ attempts[a] > 0 /\ attempts[a] # 0 /\ writes[a] \in {0, 1}
      /\ ~req[r].ok => writes[a] = 0
  <2>1. attempts[a] > 0 /\ (~req[r].ok => writes[a] < attempts[a])
    BY <1>1 DEF SerialInv, OrphanInv, AuditInv, ResultTold
  <2>2. writes[a] <= attempts[a] /\ attempts[a] \in {0, 1}
    BY DEF SerialInv, OrphanInv, AuditInv, EffectsTold, PendingInv
  <2>3. writes[a] \in Nat
    BY <1>0 DEF TypeInv, TypeOK
  <2> QED
    BY <2>1, <2>2, <2>3
<1>9. workflow[a] \in {"awaiting_review", "none"}
  BY <1>0, <1>2, <1>5 DEF TypeInv, TypeOK, SerialInv, PendingInv, PendingOpen
<1>10. CASE workflow[a] = "awaiting_review"
  <2>1. ReviewOf(a) = "awaiting"
    BY <1>10 DEF ReviewOf, Closed
  <2>2. ReviewOf(a)' = Outcome(req[r].ok)
    BY <1>3, <1>10 DEF ReviewOf, Closed, Outcome
  <2>3. CASE req[r].ok
    BY <1>6, <1>7, <1>8, <2>1, <2>2, <2>3, GateMoves DEF Gate!Next, Gate!Confirm, Outcome
  <2>4. CASE ~req[r].ok
    <3>1. EffectOf(a)' = EffectOf(a)
      BY <1>7, <1>8, <1>10, <2>4
    <3> QED
      BY <1>6, <1>7, <2>1, <2>2, <2>4, <3>1, GateMoves DEF Gate!Next, Gate!Confirm, Outcome
  <2> QED
    BY <2>3, <2>4
<1>11. CASE workflow[a] = "none"
  <2>1. ReviewOf(a) = "unrecorded"
    BY <1>2, <1>5, <1>11 DEF ReviewOf, Closed
  <2>2. ReviewOf(a)' = "spent"
    BY <1>1, <1>2, <1>3, <1>5, <1>8, <1>11 DEF ReviewOf, Closed
  <2> QED
    BY <1>6, <1>7, <1>8, <2>1, <2>2, GateMoves DEF Gate!Next, Gate!Confirm
<1> QED
  BY <1>9, <1>10, <1>11

LEMMA OthersStutter ==
  ASSUME SerialInv,
         \/ Minor
         \/ \E r \in Requests : Execute(r) \/ Save(r)
         \/ \E r \in Requests, s \in Sessions, a \in Actions : ConfirmStart(r, s, a)
  PROVE  UNCHANGED <<review, effect>>
<1>0. TypeInv /\ GateInv
  BY DEF SerialInv, OrphanInv, AuditInv, GateInv
<1>1. ASSUME UNCHANGED <<workflow, call, attempts, writes>>,
             \A b \in Actions : Finishing(b)' <=> Finishing(b)
      PROVE  UNCHANGED <<review, effect>>
  BY <1>1, GateStutters DEF ReviewOf, EffectOf
<1>2. CASE Minor
  <2>1. /\ UNCHANGED GateState
        /\ \A q \in Requests : req'[q].pc = "finish" \/ req[q].pc = "finish" => req'[q] = req[q]
    BY <1>2 DEF Minor, LoopFree, LibraryPC, MovesOn, Loads, Running
  <2>2. \A b \in Actions : Finishing(b)' <=> Finishing(b)
    BY <2>1 DEF Finishing
  <2> QED
    BY <1>1, <2>1, <2>2 DEF GateState
<1>3. ASSUME NEW r \in Requests, Execute(r) PROVE UNCHANGED <<review, effect>>
  <2>1. PICK a \in Actions :
          /\ a = req[r].action /\ req[r].pc = "execute"
          /\ \A b \in Actions : b # a => attempts'[b] = attempts[b]
          /\ req'[r].pc = "finish" /\ req'[r].action = a
          /\ \A q \in Requests : q # r => req'[q] = req[q]
          /\ UNCHANGED <<workflow, call>>
    BY <1>0, <1>3, ExecuteEffect
  <2>2. /\ call[a] # NoCall /\ Open(a) /\ attempts[a] = 0 /\ writes[a] = 0
        /\ \A q \in Requests : q # r => req[q].pc = "idle"
    BY <2>1, AboutToRun
  <2>3. \A b \in Actions : ~Finishing(b) /\ (Finishing(b)' <=> b = a)
    BY <2>1, <2>2 DEF Finishing
  <2>4. \A b \in Actions : b # a => writes'[b] = writes[b]
    BY <1>0, <1>3, <2>1, ExecuteWrites
  <2>5. ReviewOf(a)' = ReviewOf(a) /\ EffectOf(a)' = EffectOf(a)
    BY <2>1, <2>2, <2>3 DEF ReviewOf, EffectOf
  <2>6. \A b \in Actions : b # a => ReviewOf(b)' = ReviewOf(b) /\ EffectOf(b)' = EffectOf(b)
    BY <2>1, <2>3, <2>4 DEF ReviewOf, EffectOf
  <2> QED
    BY <2>5, <2>6, GateStutters
<1>4. ASSUME NEW r \in Requests, Save(r) PROVE UNCHANGED <<review, effect>>
  <2>1. /\ req[r].pc = "save" /\ req'[r].pc = "trace"
        /\ \A q \in Requests : q # r => req'[q] = req[q]
        /\ UNCHANGED <<workflow, call, attempts, writes>>
    BY <1>0, <1>4, SaveEffect
  <2>2. \A b \in Actions : Finishing(b)' <=> Finishing(b)
    BY <2>1 DEF Finishing
  <2> QED
    BY <1>1, <2>1, <2>2
<1>5. ASSUME NEW r \in Requests, NEW s \in Sessions, NEW a \in Actions, ConfirmStart(r, s, a)
      PROVE  UNCHANGED <<review, effect>>
  <2>1. /\ req[r].pc = "idle" /\ req'[r].pc \in {"execute", "save"}
        /\ \A q \in Requests : q # r => req'[q] = req[q]
        /\ UNCHANGED GateState
    BY <1>0, <1>5, ConfirmEffect
  <2>2. \A b \in Actions : Finishing(b)' <=> Finishing(b)
    BY <2>1 DEF Finishing
  <2> QED
    BY <1>1, <2>1, <2>2 DEF GateState
<1> QED
  BY <1>2, <1>3, <1>4, <1>5

\* When one client waits for each response and nothing crashes, the service
\* implements the review gate: each action is proposed once, confirmed at most
\* once, takes effect at most once, and its row says whether it did.
THEOREM ServiceImplementsGate ==
  ASSUME OneAtATime, MaxCrashes = 0
  PROVE  Spec => GateSpec
<1>1. Init => Gate!Init
  <2> SUFFICES ASSUME Init PROVE Gate!Init
    OBVIOUS
  <2>1. \A a \in Actions : ReviewOf(a) = "none" /\ EffectOf(a) = 0
    BY DEF Init, ReviewOf, EffectOf, Finishing, Closed, Idle
  <2> QED
    BY <2>1, Mapped DEF Gate!Init
<1>2. SerialInv /\ [Next]_vars => [Gate!Next]_<<review, effect>>
  <2> SUFFICES ASSUME SerialInv, [Next]_vars
               PROVE  Gate!Next \/ UNCHANGED <<review, effect>>
    OBVIOUS
  <2>1. TypeInv
    BY DEF SerialInv, OrphanInv, AuditInv, GateInv
  <2>2. CASE Crash
    BY <2>2 DEF Crash, SerialInv, OneClient
  <2> QED
    BY <2>1, <2>2, MinorOrMajor, ProposedIsPropose, FinishIsConfirm, OthersStutter
<1> QED
  BY <1>1, <1>2, SerialInvariant, PTL DEF Spec, GateSpec, Gate!Spec
=============================================================================

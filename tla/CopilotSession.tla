--------------------------- MODULE CopilotSession ---------------------------
(***************************************************************************)
(* The project copilot's session file, document library and review gate:   *)
(* ProjectCopilotService, WorkflowActionService and JsonSessionStore.      *)
(*                                                                         *)
(* Every handler runs on one asyncio event loop.  Between two awaits that  *)
(* really suspend (a model call, an embedding call) nothing else runs, so  *)
(* a request is a small process: its pc names the await it is parked at or *)
(* the step the loop is executing for it.  A crash may hit between any two *)
(* steps, also inside a segment the loop never yields in, because the      *)
(* SQLite commits and the write of sessions.json are separate.             *)
(*                                                                         *)
(* A definition marked (mutant) is no part of the specification: it is the *)
(* slip the definition after it guards against, kept to show that the      *)
(* properties notice it.                                                   *)
(***************************************************************************)
EXTENDS Naturals, FiniteSets

CONSTANTS
  Sessions,     \* session ids
  Requests,     \* slots for requests the service is handling
  Actions,      \* action ids a tool proposal may draw (uuid4: never reused)
  Docs,         \* document ids an upload may draw (uuid4: never reused)
  NoSession, NoAction, NoDoc, NoCall,
  Kinds,        \* tools a proposal may name, see ToolKinds
  KnownIds,     \* {TRUE}: the ids the model fills in name stored rows
  Scopes,       \* retrieval scopes in use
  OneAtATime,   \* a client waits for each response before the next request
  MaxCrashes,   \* bound on process crashes
  MaxAttempts   \* bound on executions of one action

ToolKinds == {"create_note", "project_write", "search"}
RetrievalScope == {"current", "selected", "all"}

\* The proposed call; source is the document id its workflow row refers to.
ToolCall == [kind: ToolKinds, source: Docs \cup {NoDoc}, session: Sessions]

ASSUME ConstantsOK ==
  /\ NoSession \notin Sessions /\ NoAction \notin Actions /\ NoDoc \notin Docs
  /\ NoCall \notin ToolCall
  /\ Kinds \subseteq ToolKinds /\ KnownIds \subseteq BOOLEAN
  /\ Scopes \subseteq RetrievalScope /\ "current" \in Scopes
  /\ OneAtATime \in BOOLEAN /\ MaxCrashes \in Nat /\ MaxAttempts \in Nat

VARIABLES
  \* durable: sessions.json and the SQLite file
  sessions,     \* [Sessions -> Context]
  documents,    \* rows of documents (each has at least one chunk)
  unindexed,    \* documents with a pending row in document_index_events
  workflow,     \* [Actions -> status of the action's productivity_workflows row]
  steps,        \* [Actions -> number of confirmed_tool_execution step rows]
  writes,       \* [Actions -> rows the action's tool committed]
  traced,       \* actions whose confirmed execution has a trace
  \* volatile: lost in a crash
  req,          \* [Requests -> what the service knows of the request]
  \* history
  call,         \* [Actions -> the proposed tool call, or NoCall]
  used,         \* document ids drawn so far
  attempts,     \* [Actions -> executions of the action]
  resurrected,  \* [Actions -> saves that put an executed action back, counted
                \*             up to MaxAttempts]
  dropped,      \* actions a save removed before they were executed
  crashes

durable == <<sessions, documents, unindexed, workflow, steps, writes, traced>>
history == <<call, used, attempts, resurrected, dropped, crashes>>
vars == <<durable, req, history>>

-----------------------------------------------------------------------------
Context == [pending: SUBSET Actions, current: Docs \cup {NoDoc},
            selected: SUBSET Docs, scope: RetrievalScope]

EmptyContext ==
  [pending |-> {}, current |-> NoDoc, selected |-> {}, scope |-> "current"]

Closed == {"completed", "failed"}

\* Suspended at an await: other requests run meanwhile.
Parked == {"decide", "plan", "embed_query", "answer", "propose",
           "embed_upload", "embed_delete"}

\* The loop executes this request and yields to no other.
Running == {"execute", "finish", "save", "trace", "detach"}

Request == [pc: {"idle"} \cup Parked \cup Running,
            session: Sessions \cup {NoSession}, ctx: Context,
            action: Actions \cup {NoAction}, doc: Docs \cup {NoDoc},
            ok: BOOLEAN, work: SUBSET Docs]

Idle == [pc |-> "idle", session |-> NoSession, ctx |-> EmptyContext,
         action |-> NoAction, doc |-> NoDoc, ok |-> FALSE, work |-> {}]

LoopFree == \A q \in Requests : req[q].pc \notin Running

\* A new request reaches a handler.
Admit ==
  /\ LoopFree
  /\ OneAtATime => \A q \in Requests : req[q].pc = "idle"

Resume(r, pc) == LoopFree /\ req[r].pc = pc

Init ==
  /\ sessions = [s \in Sessions |-> EmptyContext]
  /\ documents = {} /\ unindexed = {} /\ used = {}
  /\ workflow = [a \in Actions |-> "none"]
  /\ steps = [a \in Actions |-> 0]
  /\ writes = [a \in Actions |-> 0]
  /\ traced = {}
  /\ req = [r \in Requests |-> Idle]
  /\ call = [a \in Actions |-> NoCall]
  /\ attempts = [a \in Actions |-> 0]
  /\ resurrected = [a \in Actions |-> 0]
  /\ dropped = {}
  /\ crashes = 0

-----------------------------------------------------------------------------
(* Retrieval targets. *)

\* resolve drops selected documents that no longer exist.
Resolved(ctx, scope) ==
  IF scope = "selected" THEN [ctx EXCEPT !.selected = @ \cap documents] ELSE ctx

HasTarget(ctx, scope) ==
  CASE scope = "all" -> documents # {}
    [] scope = "selected" -> ctx.selected # {}
    [] OTHER -> ctx.current # NoDoc

\* should_answer_current_document: the turn may go to the files directly.
FilesInReach(ctx) ==
  ctx.current # NoDoc \/ ctx.selected # {} \/ ctx.scope = "all"

\* _answer_from_files up to the query embedding: a turn without a target, or
\* whose current document is gone, is answered at once.
FileTurn(turn, scope) ==
  LET ctx  == Resolved(turn.ctx, scope)
      gone == scope = "current" /\ ctx.current \notin documents
  IN CASE ~HasTarget(ctx, scope) -> [turn EXCEPT !.pc = "save", !.ctx = ctx]
       [] HasTarget(ctx, scope) /\ gone ->
            [turn EXCEPT !.pc = "save",
               !.ctx = [ctx EXCEPT !.current = NoDoc,
                                   !.selected = @ \ {ctx.current}]]
       [] OTHER -> [turn EXCEPT !.pc = "embed_query", !.ctx = ctx]

-----------------------------------------------------------------------------
(* chat *)

Turn(s, pc) == [Idle EXCEPT !.pc = pc, !.session = s, !.ctx = sessions[s]]

\* Greetings, questions about the session, and questions about files that
\* have no target are answered without a model call.
Preflight(r, s) ==
  \/ req' = [req EXCEPT ![r] = Turn(s, "save")]
  \/ \E scope \in Scopes :
       LET ctx == Resolved(sessions[s], scope) IN
       /\ ~HasTarget(ctx, scope)
       /\ req' = [req EXCEPT ![r] = [Turn(s, "save") EXCEPT !.ctx = ctx]]

ChatStart(r, s) ==
  /\ Admit /\ req[r].pc = "idle"
  /\ \/ Preflight(r, s)
     \/ \E scope \in Scopes :
          /\ FilesInReach(sessions[s])
          /\ req' = [req EXCEPT ![r] = FileTurn(Turn(s, "save"), scope)]
     \/ req' = [req EXCEPT ![r] = Turn(s, "decide")]
  /\ UNCHANGED <<durable, history>>

\* The orchestrator's route, or a failed model call.
Decided(r) ==
  /\ Resume(r, "decide")
  /\ \/ \E scope \in Scopes :
          req' = [req EXCEPT ![r] = FileTurn(req[r], scope)]
     \/ \E pc \in {"plan", "propose", "save"} :
          req' = [req EXCEPT ![r].pc = pc]
  /\ UNCHANGED <<durable, history>>

\* The query is embedded; without ranked chunks, or on an error, answer now.
Retrieved(r) ==
  /\ Resume(r, "embed_query")
  /\ \E pc \in {"answer", "save"} : req' = [req EXCEPT ![r].pc = pc]
  /\ UNCHANGED <<durable, history>>

\* (mutant: a failed answer is tried again without a limit)
AnsweredAgain(r) ==
  /\ Resume(r, "plan") \/ Resume(r, "answer")
  /\ req' = [req EXCEPT ![r].pc = "embed_query"]
  /\ UNCHANGED <<durable, history>>

\* SQL planned and run read-only, or file answer written, or either failed.
Answered(r) ==
  /\ Resume(r, "plan") \/ Resume(r, "answer")
  /\ req' = [req EXCEPT ![r].pc = "save"]
  /\ UNCHANGED <<durable, history>>

\* (mutant: the write tools are missing from WRITE_TOOLS)
AnyToolRuns(r) ==
  /\ Resume(r, "propose")
  /\ req' = [req EXCEPT ![r].pc = "save"]
  /\ \E a \in Actions : attempts' = [attempts EXCEPT ![a] = 1]
  /\ UNCHANGED <<durable, call, used, resurrected, dropped, crashes>>

\* A read tool runs at once and changes nothing; an exception is answered.
ReadToolOrError(r) ==
  /\ Resume(r, "propose")
  /\ req' = [req EXCEPT ![r].pc = "save"]
  /\ UNCHANGED <<durable, history>>

\* The row's foreign keys: the insert fails when the source is not stored.
RowStored(source, known) == known /\ source \in documents \cup {NoDoc}

\* (mutants: a proposal is not added to the context, or not popped from it)
ProposalForgotten(ctx, a) == ctx
ProposalPeeked(ctx, a) == ctx

\* The action enters the pending actions of a loaded context, or leaves them.
Proposed(ctx, a) == [ctx EXCEPT !.pending = @ \cup {a}]
Popped(ctx, a) == [ctx EXCEPT !.pending = @ \ {a}]

\* _complete_tool_call, and the insert of the row: the document that a call does
\* not name is the session's.
CompletedSource(named, ctx) == IF named # NoDoc THEN named ELSE ctx.current

\* A reviewable tool: the action enters the loaded context and the workflow
\* row commits.  When the insert fails, chat answers with the model-error
\* response but the context it saves still carries the action.
ToolProposed(r) ==
  /\ Resume(r, "propose")
  /\ \E a \in Actions, kind \in Kinds, named \in documents \cup {NoDoc},
        known \in KnownIds :
       LET source == CompletedSource(named, req[r].ctx) IN
       /\ call[a] = NoCall
       /\ call' = [call EXCEPT ![a] =
                     [kind |-> kind, source |-> source, session |-> req[r].session]]
       /\ workflow' = [workflow EXCEPT ![a] =
                         IF RowStored(source, known)
                         THEN "awaiting_review" ELSE @]
       /\ req' = [req EXCEPT ![r].pc = "save", ![r].ctx = Proposed(@, a)]
  /\ UNCHANGED <<sessions, documents, unindexed, steps, writes, traced,
                 used, attempts, resurrected, dropped, crashes>>

\* chat with confirm_action_id: the id is popped from the loaded context.
ConfirmStart(r, s, a) ==
  /\ Admit /\ req[r].pc = "idle"
  /\ attempts[a] < MaxAttempts
  /\ req' = [req EXCEPT ![r] =
               IF a \in sessions[s].pending
               THEN [Turn(s, "execute") EXCEPT !.action = a, !.ctx = Popped(@, a)]
               ELSE Turn(s, "save")]
  /\ UNCHANGED <<durable, history>>

\* execute checks the arguments against the rows stored when it runs and turns
\* any exception into ok = FALSE, so two executions of one action may differ.
\* The note's foreign key is the one check on state that is modelled.
MaySucceed(a) ==
  call[a].kind = "create_note" => call[a].source \in documents \cup {NoDoc}

Execute(r) ==
  LET a == req[r].action IN
  /\ req[r].pc = "execute"
  /\ attempts' = [attempts EXCEPT ![a] = @ + 1]
  /\ \E ok \in BOOLEAN :
       /\ ok => MaySucceed(a)
       /\ writes' = [writes EXCEPT ![a] =
                       IF ok /\ call[a].kind # "search" THEN @ + 1 ELSE @]
       /\ req' = [req EXCEPT ![r].pc = "finish", ![r].ok = ok]
  /\ UNCHANGED <<sessions, documents, unindexed, workflow, steps, traced,
                 call, used, resurrected, dropped, crashes>>

\* (mutant: the update does not look at the status)
ClosesAny(r) ==
  LET a == req[r].action IN
  workflow[a] # "none" /\ call[a].session = req[r].session

\* _finish_workflow_state closes the session's row only while it awaits review.
Closes(r) ==
  LET a == req[r].action IN
  workflow[a] = "awaiting_review" /\ call[a].session = req[r].session

\* (mutant: the tool's result is ignored)
OutcomeIgnored(ok) == "completed"

Outcome(ok) == IF ok THEN "completed" ELSE "failed"

Finish(r) ==
  LET a == req[r].action IN
  /\ req[r].pc = "finish"
  /\ workflow' = [workflow EXCEPT ![a] = IF Closes(r) THEN Outcome(req[r].ok) ELSE @]
  /\ steps' = [steps EXCEPT ![a] = IF Closes(r) THEN @ + 1 ELSE @]
  /\ req' = [req EXCEPT ![r].pc = "save"]
  /\ UNCHANGED <<sessions, documents, unindexed, writes, traced, history>>

\* _persist: the loaded copy replaces the session's record, whatever happened
\* to the record since it was loaded.
Save(r) ==
  LET s == req[r].session  new == req[r].ctx.pending  old == sessions[s].pending IN
  /\ req[r].pc = "save"
  /\ sessions' = [sessions EXCEPT ![s] = req[r].ctx]
  /\ resurrected' = [a \in Actions |->
       IF a \in new \ old /\ attempts[a] > 0 /\ resurrected[a] < MaxAttempts
       THEN resurrected[a] + 1 ELSE resurrected[a]]
  /\ dropped' = dropped \cup {a \in old \ new : attempts[a] = 0}
  /\ req' = [req EXCEPT ![r].pc = "trace"]
  /\ UNCHANGED <<documents, unindexed, workflow, steps, writes, traced,
                 call, used, attempts, crashes>>

\* The trace is appended and the response leaves.
Trace(r) ==
  /\ req[r].pc = "trace"
  /\ traced' = traced \cup ({req[r].action} \cap Actions)
  /\ req' = [req EXCEPT ![r] = Idle]
  /\ UNCHANGED <<sessions, documents, unindexed, workflow, steps, writes, history>>

-----------------------------------------------------------------------------
(* Documents *)

Selecting(ctx, d) == [ctx EXCEPT !.current = d, !.selected = @ \cup {d}]
Attaching(ctx, d) == [ctx EXCEPT !.selected = @ \cup {d},
                                 !.current = IF @ = NoDoc THEN d ELSE @]
Forgetting(ctx, d) == [ctx EXCEPT !.selected = @ \ {d},
                                  !.current = IF @ = d THEN NoDoc ELSE @]

\* Rows whose foreign key keeps the document.
Referenced(d) ==
  \E a \in Actions :
    /\ call[a] # NoCall /\ call[a].source = d
    /\ \/ workflow[a] # "none"
       \/ call[a].kind = "create_note" /\ writes[a] > 0

\* ingest_bytes commits document and chunks, then awaits the embeddings of
\* every pending index event.
UploadStart(r, s, d) ==
  /\ Admit /\ req[r].pc = "idle" /\ d \notin used
  /\ documents' = documents \cup {d} /\ used' = used \cup {d}
  /\ unindexed' = unindexed \cup {d}
  /\ req' = [req EXCEPT ![r] = [Idle EXCEPT !.pc = "embed_upload", !.session = s,
                                  !.doc = d, !.work = unindexed \cup {d}]]
  /\ UNCHANGED <<sessions, workflow, steps, writes, traced,
                 call, attempts, resurrected, dropped, crashes>>

\* Indexed; a session that came with the upload now looks at the document.
UploadDone(r) ==
  LET s == req[r].session  d == req[r].doc IN
  /\ Resume(r, "embed_upload")
  /\ unindexed' = unindexed \ req[r].work
  /\ sessions' = IF s \in Sessions
                 THEN [sessions EXCEPT ![s] = Selecting(@, d)] ELSE sessions
  /\ req' = [req EXCEPT ![r] = Idle]
  /\ UNCHANGED <<documents, workflow, steps, writes, traced, history>>

\* The embedding call raises: the failed batch leaves the pending queue and
\* the request ends with an error before the session is touched.
EmbeddingFails(r) ==
  /\ Resume(r, "embed_upload") \/ Resume(r, "embed_delete")
  /\ \E batch \in SUBSET req[r].work :
       /\ batch # {}
       /\ unindexed' = unindexed \ batch
  /\ req' = [req EXCEPT ![r] = Idle]
  /\ UNCHANGED <<sessions, documents, workflow, steps, writes, traced, history>>

\* Foreign keys refuse the delete of a referenced document (the request ends
\* with an error and nothing changed, so that case is no step here).
DeleteStart(r, s, d) ==
  LET work == unindexed \ {d} IN
  /\ Admit /\ req[r].pc = "idle" /\ ~Referenced(d)
  /\ documents' = documents \ {d}
  /\ unindexed' = work
  /\ req' = [req EXCEPT ![r] =
       [Idle EXCEPT !.session = s, !.doc = d, !.work = work,
          !.pc = IF d \in documents /\ work # {} THEN "embed_delete" ELSE "detach"]]
  /\ UNCHANGED <<sessions, workflow, steps, writes, traced, history>>

\* delete_document after the store: the session forgets the document.
DeleteDone(r) ==
  LET s == req[r].session  d == req[r].doc IN
  /\ Resume(r, "embed_delete") \/ req[r].pc = "detach"
  /\ unindexed' = IF req[r].pc = "detach" THEN unindexed
                  ELSE unindexed \ req[r].work
  /\ sessions' = IF s \in Sessions
                 THEN [sessions EXCEPT ![s] = Forgetting(@, d)] ELSE sessions
  /\ req' = [req EXCEPT ![r] = Idle]
  /\ UNCHANGED <<documents, workflow, steps, writes, traced, history>>

\* Handlers without an await: load, change, save.
SelectDocument(s, d) ==
  /\ Admit /\ d \in documents
  /\ sessions' = [sessions EXCEPT ![s] = Selecting(@, d)]
  /\ UNCHANGED <<documents, unindexed, workflow, steps, writes, traced, req, history>>

AttachDocument(s, d) ==
  /\ Admit /\ d \in documents
  /\ sessions' = [sessions EXCEPT ![s] = Attaching(@, d)]
  /\ UNCHANGED <<documents, unindexed, workflow, steps, writes, traced, req, history>>

DetachDocument(s, d) ==
  /\ Admit
  /\ sessions' = [sessions EXCEPT ![s].selected = @ \ {d}]
  /\ UNCHANGED <<documents, unindexed, workflow, steps, writes, traced, req, history>>

SetRetrievalScope(s, scope) ==
  /\ Admit
  /\ sessions' = [sessions EXCEPT ![s].scope = scope]
  /\ UNCHANGED <<documents, unindexed, workflow, steps, writes, traced, req, history>>

\* The process dies and restarts: only the files survive.
Crash ==
  /\ crashes < MaxCrashes
  /\ \E r \in Requests : req[r].pc # "idle"
  /\ crashes' = crashes + 1
  /\ req' = [r \in Requests |-> Idle]
  /\ UNCHANGED <<durable, call, used, attempts, resurrected, dropped>>

-----------------------------------------------------------------------------
Start(r) ==
  \/ \E s \in Sessions : ChatStart(r, s)
  \/ \E s \in Sessions, a \in Actions : ConfirmStart(r, s, a)
  \/ \E s \in Sessions \cup {NoSession}, d \in Docs :
       UploadStart(r, s, d) \/ DeleteStart(r, s, d)

\* A step of a request that holds the loop.
Hold(r) ==
  \/ Execute(r) \/ Finish(r) \/ Save(r) \/ Trace(r)
  \/ req[r].pc = "detach" /\ DeleteDone(r)

\* A parked request is resumed with a result or an error.
Wake(r) ==
  \/ Decided(r) \/ Retrieved(r) \/ Answered(r)
  \/ ReadToolOrError(r) \/ ToolProposed(r)
  \/ UploadDone(r) \/ EmbeddingFails(r)
  \/ req[r].pc = "embed_delete" /\ DeleteDone(r)

Library ==
  \E s \in Sessions :
    \/ \E d \in Docs : SelectDocument(s, d) \/ AttachDocument(s, d) \/ DetachDocument(s, d)
    \/ \E scope \in Scopes : SetRetrievalScope(s, scope)

Next ==
  \/ \E r \in Requests : Start(r) \/ Hold(r) \/ Wake(r)
  \/ Library
  \/ Crash

Spec == Init /\ [][Next]_vars

\* The loop executes the running segment to its end; every model and embedding
\* call ends with a result or an error (the clients set timeouts), and asyncio
\* resumes ready tasks in order, so a task that is ready again and again runs.
Fairness == \A r \in Requests : WF_vars(Hold(r)) /\ SF_vars(Wake(r))
FairSpec == Spec /\ Fairness
-----------------------------------------------------------------------------
(* Properties *)

TypeOK ==
  /\ sessions \in [Sessions -> Context]
  /\ documents \in SUBSET Docs /\ unindexed \in SUBSET Docs /\ used \in SUBSET Docs
  /\ workflow \in [Actions -> {"none", "awaiting_review"} \cup Closed]
  /\ steps \in [Actions -> Nat] /\ writes \in [Actions -> Nat]
  /\ traced \in SUBSET Actions
  /\ req \in [Requests -> Request]
  /\ call \in [Actions -> ToolCall \cup {NoCall}]
  /\ attempts \in [Actions -> Nat] /\ resurrected \in [Actions -> Nat]
  /\ dropped \in SUBSET Actions
  /\ crashes \in Nat

\* An action runs again only after a crash between the tool's commit and the
\* save of the session, or after a save that wrote back a copy loaded before
\* the confirmation: chat's load - model await - save against confirm_action.
RepeatNeedsCrashOrStaleSave ==
  \A a \in Actions : attempts[a] <= 1 + crashes + resurrected[a]

\* However often an action is confirmed, _finish_workflow_state closes its row
\* once: one confirmed_tool_execution step when closed, none before.
WorkflowClosedOnce ==
  \A a \in Actions : steps[a] = IF workflow[a] \in Closed THEN 1 ELSE 0

\* The audit trail tells the truth: completed means the tool's rows were
\* committed.  A failed row stands for an execution that wrote nothing, so what
\* the action wrote it wrote in another execution, and each of those needs a
\* crash or a stale save of its own: without them failed means no writes.  A
\* trace of a confirmed execution exists only once the tool ran and its row, if
\* it has one, is closed.
AuditTrail ==
  /\ \A a \in Actions :
       /\ workflow[a] = "completed" /\ call[a].kind # "search" => writes[a] > 0
       /\ workflow[a] = "failed" => writes[a] <= crashes + resurrected[a]
  /\ \A a \in traced : attempts[a] > 0 /\ workflow[a] # "awaiting_review"

\* The review gate: a tool that was proposed for review runs only in a later
\* request that confirms it, in the session it was proposed in.
WritesOnlyConfirmed ==
  [][\A a \in Actions : attempts'[a] # attempts[a] =>
        /\ call[a] # NoCall
        /\ \E r \in Requests : /\ req[r].pc = "execute" /\ req[r].action = a
                               /\ req[r].session = call[a].session]_vars

\* A row left awaiting review that nobody can confirm any more was cut off by
\* a crash or by a save that dropped the action from the session.
OrphanNeedsCrashOrStaleSave ==
  \A a \in Actions :
    /\ workflow[a] = "awaiting_review"
    /\ \A r \in Requests : req[r].pc = "idle"
    /\ a \notin sessions[call[a].session].pending
    => crashes > 0 \/ a \in dropped

\* A request holds or parks at most until its model or embedding call ends.
RequestsFinish == \A r \in Requests : req[r].pc # "idle" ~> req[r].pc = "idle"

\* One client, no crash: the library and the gate agree with the session file
\* whenever no request is in flight.
Quiet == \A r \in Requests : req[r].pc = "idle"

PendingIsOpen ==
  Quiet => \A a \in Actions :
    (call[a] # NoCall) =>
      (a \in sessions[call[a].session].pending <=>
         \/ workflow[a] = "awaiting_review"
         \/ workflow[a] = "none" /\ attempts[a] = 0)

\* The README's claim that confirmation executes the tool and records it.
ExecutionsRecorded ==
  Quiet /\ crashes = 0 => \A a \in Actions : attempts[a] = steps[a]

-----------------------------------------------------------------------------
(* One client, no crash: the service implements the abstract review gate. *)

Finishing(a) == \E r \in Requests : req[r].pc = "finish" /\ req[r].action = a

review == [a \in Actions |->
  CASE workflow[a] \in Closed -> workflow[a]
    [] workflow[a] = "awaiting_review" -> "awaiting"
    [] OTHER -> IF call[a] = NoCall THEN "none"
                ELSE IF attempts[a] = 0 \/ Finishing(a) THEN "unrecorded"
                ELSE "spent"]

effect == [a \in Actions |-> IF Finishing(a) THEN 0 ELSE writes[a]]

Gate == INSTANCE ReviewGate WITH Actions <- Actions, review <- review, effect <- effect

GateSpec == Gate!Spec
=============================================================================

---------------------------- MODULE EdgeCopilot ----------------------------
(***************************************************************************)
(* The Cloudflare worker of the copilot.  A request runs in an isolate of  *)
(* its own and keeps nothing between two requests: sessions, documents,    *)
(* review rows and usage counters are rows of D1.  Every statement is an   *)
(* await and a transaction of its own, so any two requests interleave      *)
(* between any two statements.                                             *)
(*                                                                         *)
(* Trace rows (written after everything else, read by debug views only),   *)
(* history and the current project, task and note are left out.  The       *)
(* counters are those of one day.                                          *)
(*                                                                         *)
(* A definition marked (mutant) is the slip the definition after it guards *)
(* against and no part of the specification.                               *)
(***************************************************************************)
EXTENDS Integers, Sequences, FiniteSets

CONSTANTS
  Requests, Sessions, Users,
  Actions,       \* ids of proposed tool calls
  Docs,          \* ids of uploaded documents
  ChunksOf,      \* [Docs -> number of chunks of the file]
  NoSession, NoAction, NoDoc,
  NoContext,     \* no session loaded yet
  Global,        \* the counter of everybody
  Deployments,   \* settings of the daily limits, and the files uploaded under them
  MaxAttempts,   \* bound on the executions of an action
  MaxAborts,     \* bound on requests that just stop
  MaxArrivals    \* bound on well-formed requests

Buckets == {"upload", "openai"}

\* create_task, assign_task, add_comment and create_note write once;
\* update_task_status writes twice; the searches do not write.
Kinds == {"one_write", "status", "search"}

ASSUME ConstantsOK ==
  /\ NoSession \notin Sessions /\ NoAction \notin Actions /\ NoDoc \notin Docs
  /\ Global \notin Users /\ ChunksOf \in [Docs -> Nat \ {0}]
  /\ Deployments \subseteq [chat: Nat, upload: Nat, openai: Nat, files: SUBSET Docs]
  /\ MaxAttempts \in Nat /\ MaxAborts \in Nat /\ MaxArrivals \in Nat

VARIABLES
  limits,        \* DAILY_..._LIMIT of the deployment, 0 for no limit
  tool,          \* [Actions -> Kinds or "none"], the tool call of an action
  sessions,      \* [Sessions -> context], the payload of the row
  documents,     \* stored documents
  chunks,        \* [Docs -> number of chunk rows]
  workflow,      \* [Actions -> review row]
  writes,        \* [Actions -> task or note rows written by it]
  usage,         \* [Buckets -> [Users and Global -> count]]
  req,           \* [Requests -> what the isolate knows]
  past           \* history, see Past

vars == <<limits, tool, sessions, documents, chunks, workflow, writes, usage,
          req, past>>
store == <<sessions, documents, chunks, workflow, writes, usage>>
-----------------------------------------------------------------------------
Context == [pending: SUBSET Actions, current: Docs \cup {NoDoc}]
EmptyContext == [pending |-> {}, current |-> NoDoc]

Status == {"none", "awaiting_review", "completed", "failed"}

\* A row of productivity_workflows with its workflow_steps.
Workflow == [status: Status, session: Sessions \cup {NoSession},
             source: Docs \cup {NoDoc}, proposals: 0..1, closings: Nat]
NoRow == [status |-> "none", session |-> NoSession, source |-> NoDoc,
          proposals |-> 0, closings |-> 0]

Charge == [bucket: Buckets, amount: Nat]
Budgeting == {"check_global", "check_user", "add_global", "add_user"}
Confirming == {"tool", "history", "find_row", "close", "record"}

Request == [pc: {"idle", "insert_document", "chunks", "lookup", "delete_chunks",
                 "delete_document", "load", "answering", "row", "step", "save",
                 "done"} \cup Budgeting \cup Confirming,
            op: {"none", "chat", "upload", "select", "delete"},
            session: Sessions \cup {NoSession}, user: Users \cup {Global},
            action: Actions \cup {NoAction},  \* confirmed, or just proposed
            doc: Docs \cup {NoDoc},
            due: Seq(Charge),                 \* budget still to be enforced
            stored: Nat,                      \* chunks stored so far
            ctx: Context \cup {NoContext},
            ok: BOOLEAN,                      \* result of the tool
            code: {"none", "ok", "refused", "error"}]

\* History: ids handed out, executions of an action, what may explain more
\* than one, proposals that a stale save or a stop dropped, documents whose
\* upload or delete broke off, buckets charged by two uploads at once.
Past == [used: SUBSET (Docs \cup Actions), attempts: [Actions -> Nat],
         excuses: [Actions -> Nat], lost: SUBSET Actions, overlapped: SUBSET Actions,
         broken: SUBSET Docs, raced: SUBSET Buckets, aborts: 0..MaxAborts,
         arrivals: 0..MaxArrivals]

Idle == [pc |-> "idle", op |-> "none", session |-> NoSession, user |-> Global,
         action |-> NoAction, doc |-> NoDoc, due |-> <<>>, stored |-> 0, ctx |-> NoContext,
         ok |-> FALSE, code |-> "none"]

Init ==
  /\ limits \in Deployments
  /\ tool = [a \in Actions |-> "none"]
  /\ sessions = [s \in Sessions |-> EmptyContext]
  /\ documents = {}
  /\ chunks = [d \in Docs |-> 0]
  /\ workflow = [a \in Actions |-> NoRow]
  /\ writes = [a \in Actions |-> 0]
  /\ usage = [b \in Buckets |-> [k \in Users \cup {Global} |-> 0]]
  /\ req = [r \in Requests |-> Idle]
  /\ past = [used |-> {}, attempts |-> [a \in Actions |-> 0],
             excuses |-> [a \in Actions |-> 0], lost |-> {}, overlapped |-> {},
             broken |-> {}, raced |-> {}, aborts |-> 0, arrivals |-> 0]

Ended(rq, code) ==
  IF rq.op = "chat"
  THEN [Idle EXCEPT !.pc = "done", !.code = code, !.op = "chat", !.ctx =
          IF rq.ctx = NoContext THEN NoContext ELSE EmptyContext]
  ELSE [Idle EXCEPT !.pc = "done", !.code = code]

Moves(r, next) == req' = [req EXCEPT ![r] = next]
At(r, pc) == req[r].pc = pc
Goto(r, pc) == [req[r] EXCEPT !.pc = pc]

-----------------------------------------------------------------------------
(* Requests arrive *)

\* No session or message, no file, a file that is too large, of another type
\* or of too many chunks: refused before anything is read.
Malformed(r) ==
  /\ At(r, "idle")
  /\ Moves(r, Ended(Idle, "refused"))
  /\ UNCHANGED <<limits, tool, store, past>>

\* chat hands the parsed body to enforceDailyBudget, which reads the headers
\* of a request from it: with a limit in force the call throws.
HasBudget(a) == limits.chat > 0 \/ (a = NoAction /\ limits.openai > 0)

\* Bound: executions of an action, with those still to come.
MayTry(a) ==
  past.attempts[a] + Cardinality({q \in Requests : req[q].action = a /\ At(q, "load")})
    < MaxAttempts

Arriving == [past EXCEPT !.arrivals = @ + 1]

Chat(r, s, a) ==
  LET rq == [Idle EXCEPT !.op = "chat", !.session = s, !.action = a] IN
  /\ At(r, "idle") /\ past.arrivals < MaxArrivals
  /\ a # NoAction => MayTry(a)
  /\ Moves(r, IF HasBudget(a) THEN Ended(rq, "error") ELSE [rq EXCEPT !.pc = "load"])
  /\ past' = Arriving
  /\ UNCHANGED <<limits, tool, store>>

Charged(bucket, amount) ==
  IF limits[bucket] > 0 THEN <<[bucket |-> bucket, amount |-> amount]>> ELSE <<>>

Charges(d) == Charged("upload", 1) \o Charged("openai", ChunksOf[d])

Upload(r, s, u, d) ==
  /\ At(r, "idle") /\ past.arrivals < MaxArrivals
  /\ d \in limits.files \ past.used
  /\ Moves(r, [Idle EXCEPT !.op = "upload", !.session = s, !.user = u, !.doc = d,
       !.due = Charges(d),
       !.pc = IF Charges(d) = <<>> THEN "insert_document" ELSE "check_global"])
  /\ past' = [Arriving EXCEPT !.used = @ \cup {d}]
  /\ UNCHANGED <<limits, tool, store>>

SelectOrDelete(r, s, d, op) ==
  /\ At(r, "idle") /\ past.arrivals < MaxArrivals /\ d \in past.used
  /\ op = "select" => s # NoSession
  /\ Moves(r, [Idle EXCEPT !.pc = "lookup", !.op = op, !.session = s, !.doc = d])
  /\ past' = Arriving
  /\ UNCHANGED <<limits, tool, store>>

-----------------------------------------------------------------------------
(* enforceDailyBudget: read both counters, then add to both *)

\* (mutant: the limit may be passed by the request that reaches it)
FitsBefore(c, k) == usage[c.bucket][k] < limits[c.bucket] + 1
Fits(c, k) == usage[c.bucket][k] + c.amount <= limits[c.bucket]

Check(r, pc, k, next) ==
  /\ At(r, pc)
  /\ Moves(r, IF Fits(Head(req[r].due), k) THEN Goto(r, next)
                                           ELSE Ended(req[r], "refused"))
  /\ UNCHANGED <<limits, tool, store, past>>

Counted(r, k) ==
  LET c == Head(req[r].due) IN usage' = [usage EXCEPT ![c.bucket][k] = @ + c.amount]

AddGlobal(r) ==
  LET b == Head(req[r].due).bucket IN
  /\ At(r, "add_global")
  /\ Counted(r, Global)
  /\ Moves(r, Goto(r, "add_user"))
  /\ past' = [past EXCEPT !.raced = @ \cup
       {x \in {b} : \E q \in Requests \ {r} :
          req[q].pc \in {"check_user", "add_global"} /\ Head(req[q].due).bucket = x}]
  /\ UNCHANGED <<limits, tool, sessions, documents, chunks, workflow, writes>>

AddUser(r) ==
  LET rest == Tail(req[r].due) IN
  /\ At(r, "add_user")
  /\ Counted(r, req[r].user)
  /\ Moves(r, [req[r] EXCEPT !.due = rest,
       !.pc = IF rest = <<>> THEN "insert_document" ELSE "check_global"])
  /\ UNCHANGED <<limits, tool, sessions, documents, chunks, workflow, writes, past>>

-----------------------------------------------------------------------------
(* Documents *)

AfterDocument(r) ==
  IF req[r].session = NoSession THEN Ended(req[r], "ok")
  ELSE [Goto(r, "load") EXCEPT !.stored = 0]

InsertDocument(r) ==
  /\ At(r, "insert_document")
  /\ documents' = documents \cup {req[r].doc}
  /\ Moves(r, Goto(r, "chunks"))
  /\ UNCHANGED <<limits, tool, sessions, chunks, workflow, writes, usage, past>>

\* The embedding call fails, or the document is gone: the upload breaks off.
ChunkFails(r) ==
  /\ At(r, "chunks")
  /\ Moves(r, Ended(req[r], "error"))
  /\ past' = [past EXCEPT !.broken = @ \cup {req[r].doc}]
  /\ UNCHANGED <<limits, tool, store>>

\* (mutant: the last chunk is not waited for)
StopsEarly(r) == req[r].stored + 1 < ChunksOf[req[r].doc] - 1
MoreChunks(r) == req[r].stored + 1 < ChunksOf[req[r].doc]

StoreChunk(r) ==
  LET d == req[r].doc IN
  /\ At(r, "chunks") /\ d \in documents
  /\ chunks' = [chunks EXCEPT ![d] = @ + 1]
  /\ Moves(r, IF MoreChunks(r) THEN [req[r] EXCEPT !.stored = @ + 1] ELSE AfterDocument(r))
  /\ UNCHANGED <<limits, tool, sessions, documents, workflow, writes, usage, past>>

Lookup(r) ==
  /\ At(r, "lookup")
  /\ Moves(r, IF req[r].doc \notin documents
              THEN Ended(req[r], IF req[r].op = "select" THEN "refused" ELSE "ok")
              ELSE IF req[r].op = "select" THEN Goto(r, "load")
                                           ELSE Goto(r, "delete_chunks"))
  /\ UNCHANGED <<limits, tool, store, past>>

DeleteChunks(r) ==
  /\ At(r, "delete_chunks")
  /\ chunks' = [chunks EXCEPT ![req[r].doc] = 0]
  /\ Moves(r, Goto(r, "delete_document"))
  /\ UNCHANGED <<limits, tool, sessions, documents, workflow, writes, usage, past>>

\* A review row (or the note it led to) refers to the document.
Referenced(d) == \E a \in Actions : workflow[a].status # "none" /\ workflow[a].source = d

DeleteRefused(r) ==
  /\ At(r, "delete_document") /\ Referenced(req[r].doc)
  /\ Moves(r, Ended(req[r], "error"))
  /\ past' = [past EXCEPT !.broken = @ \cup {req[r].doc}]
  /\ UNCHANGED <<limits, tool, store>>

\* Chunks stored meanwhile go with the document (ON DELETE CASCADE).
DeleteDocument(r) ==
  LET d == req[r].doc IN
  /\ At(r, "delete_document") /\ ~Referenced(d)
  /\ documents' = documents \ {d}
  /\ chunks' = [chunks EXCEPT ![d] = 0]
  /\ Moves(r, AfterDocument(r))
  /\ UNCHANGED <<limits, tool, sessions, workflow, writes, usage, past>>

-----------------------------------------------------------------------------
(* Sessions *)

Under(a) == {q \in Requests : req[q].action = a /\ req[q].op = "chat"
                                /\ req[q].pc \in Confirming \cup {"save"}
                                /\ a \notin req[q].ctx.pending}

\* The context with what the request changes in it.
Changed(rq, ctx) ==
  CASE rq.op \in {"upload", "select"} -> [ctx EXCEPT !.current = rq.doc]
    [] rq.op = "delete" /\ ctx.current = rq.doc -> [ctx EXCEPT !.current = NoDoc]
    [] OTHER -> ctx

LoadToChange(r) ==
  /\ At(r, "load") /\ req[r].op # "chat"
  /\ Moves(r, [req[r] EXCEPT !.pc = "save",
                             !.ctx = Changed(req[r], sessions[req[r].session])])
  /\ UNCHANGED <<limits, tool, store, past>>

LoadToAnswer(r) ==
  /\ At(r, "load") /\ req[r].op = "chat" /\ req[r].action = NoAction
  /\ Moves(r, [req[r] EXCEPT !.pc = "answering", !.ctx = sessions[req[r].session]])
  /\ UNCHANGED <<limits, tool, store, past>>

\* (mutant: the action stays in the context)
Peeked(ctx, a) == ctx
Popped(ctx, a) == [ctx EXCEPT !.pending = @ \ {a}]

LoadToConfirm(r) ==
  LET a == req[r].action
      ctx == sessions[req[r].session]
  IN
  /\ At(r, "load") /\ a # NoAction
  /\ IF a \notin ctx.pending
     THEN /\ Moves(r, [req[r] EXCEPT !.pc = "save", !.ctx = ctx, !.action = NoAction])
          /\ UNCHANGED past
     ELSE /\ Moves(r, [req[r] EXCEPT !.pc = "tool", !.ctx = Popped(ctx, a)])
          /\ past' = [past EXCEPT !.attempts[a] = @ + 1,
               !.excuses[a] = @ + (IF Under(a) = {} THEN 0 ELSE 1),
               !.overlapped = @ \cup {x \in {a} : Under(a) # {}}]
  /\ UNCHANGED <<limits, tool, store>>

\* Actions the save puts back, and proposals it removes.
Revived(rq) == {a \in rq.ctx.pending : a # rq.action /\ a \notin sessions[rq.session].pending}
Dropped(rq) == {a \in sessions[rq.session].pending : a # rq.action /\ a \notin rq.ctx.pending}

Save(r) ==
  LET rq == req[r] IN
  /\ At(r, "save")
  /\ sessions' = [sessions EXCEPT ![rq.session] = rq.ctx]
  /\ Moves(r, Ended(rq, "ok"))
  /\ past' = [past EXCEPT !.lost = @ \cup Dropped(rq),
       !.excuses = [a \in Actions |-> @[a] + IF a \in Revived(rq) THEN 1 ELSE 0]]
  /\ UNCHANGED <<limits, tool, documents, chunks, workflow, writes, usage>>

-----------------------------------------------------------------------------
(* Answering and proposing *)

\* From a greeting, the files, the tables, the context or a search, or the
\* apology for a failed orchestrator call: the session is saved in any case.
Reply(r) ==
  /\ At(r, "answering")
  /\ Moves(r, Goto(r, "save"))
  /\ UNCHANGED <<limits, tool, store, past>>

\* A later model or embedding call fails: the promise is returned, not awaited
\* in the try, so the request ends with an error and saves nothing.
AnswerFails(r) ==
  /\ At(r, "answering")
  /\ Moves(r, Ended(req[r], "error"))
  /\ UNCHANGED <<limits, tool, store, past>>

\* (mutant: the action is not put into the context)
ProposalForgotten(ctx, a) == ctx
Proposed(ctx, a) == [ctx EXCEPT !.pending = @ \cup {a}]

\* The tool call names a source document, or the current one is taken.
Propose(r, a, kind, d) ==
  /\ At(r, "answering") /\ a \notin past.used
  /\ Moves(r, [req[r] EXCEPT !.pc = "row", !.action = a, !.ctx = Proposed(@, a),
       !.doc = IF d # NoDoc THEN d ELSE req[r].ctx.current])
  /\ tool' = [tool EXCEPT ![a] = kind]
  /\ past' = [past EXCEPT !.used = @ \cup {a}]
  /\ UNCHANGED <<limits, store>>

\* The foreign key refuses a document that is not stored.
RowRefused(r) ==
  /\ At(r, "row") /\ req[r].doc \notin documents \cup {NoDoc}
  /\ Moves(r, Ended(req[r], "error"))
  /\ UNCHANGED <<limits, tool, store, past>>

InsertRow(r) ==
  /\ At(r, "row") /\ req[r].doc \in documents \cup {NoDoc}
  /\ workflow' = [workflow EXCEPT ![req[r].action] =
       [NoRow EXCEPT !.status = "awaiting_review", !.session = req[r].session,
                     !.source = req[r].doc]]
  /\ Moves(r, Goto(r, "step"))
  /\ UNCHANGED <<limits, tool, sessions, documents, chunks, writes, usage, past>>

InsertStep(r) ==
  /\ At(r, "step")
  /\ workflow' = [workflow EXCEPT ![req[r].action].proposals = 1]
  /\ Moves(r, Goto(r, "save"))
  /\ UNCHANGED <<limits, tool, sessions, documents, chunks, writes, usage, past>>

-----------------------------------------------------------------------------
(* Executing a confirmed action and closing its row *)

WithResult(r, ok) == [req[r] EXCEPT !.pc = "find_row", !.ok = ok]

\* A missing argument, project, task or user, or a failed statement.
ToolFails(r) ==
  /\ req[r].pc \in {"tool", "history"}
  /\ Moves(r, WithResult(r, FALSE))
  /\ UNCHANGED <<limits, tool, store, past>>

ToolSearches(r) ==
  /\ At(r, "tool") /\ tool[req[r].action] = "search"
  /\ Moves(r, WithResult(r, TRUE))
  /\ UNCHANGED <<limits, tool, store, past>>

ToolWrites(r) ==
  LET a == req[r].action IN
  /\ At(r, "tool") /\ tool[a] # "search"
  /\ writes' = [writes EXCEPT ![a] = @ + 1]
  /\ Moves(r, IF tool[a] = "status" THEN Goto(r, "history") ELSE WithResult(r, TRUE))
  /\ UNCHANGED <<limits, tool, sessions, documents, chunks, workflow, usage, past>>

\* update_task_status: the row of status_history after the update.
HistoryWrites(r) ==
  /\ At(r, "history")
  /\ Moves(r, WithResult(r, TRUE))
  /\ UNCHANGED <<limits, tool, store, past>>

FindRow(r) ==
  /\ At(r, "find_row")
  /\ Moves(r, Goto(r, IF workflow[req[r].action].status = "awaiting_review"
                      THEN "close" ELSE "save"))
  /\ UNCHANGED <<limits, tool, store, past>>

\* (mutant: the row says completed whatever the tool said)
OutcomeIgnored(rq) == "completed"
Outcome(rq) == IF rq.ok THEN "completed" ELSE "failed"

Close(r) ==
  /\ At(r, "close")
  /\ workflow' = [workflow EXCEPT ![req[r].action].status = Outcome(req[r])]
  /\ Moves(r, Goto(r, "record"))
  /\ UNCHANGED <<limits, tool, sessions, documents, chunks, writes, usage, past>>

RecordStep(r) ==
  /\ At(r, "record")
  /\ workflow' = [workflow EXCEPT ![req[r].action].closings = @ + 1]
  /\ Moves(r, Goto(r, "save"))
  /\ UNCHANGED <<limits, tool, sessions, documents, chunks, writes, usage, past>>

-----------------------------------------------------------------------------
\* The client goes away, the isolate is evicted or a statement fails outside
\* every try: the request stops where it is.
Abort(r) ==
  LET rq == req[r] IN
  /\ rq.pc \notin {"idle", "done"} /\ past.aborts < MaxAborts
  /\ Moves(r, Ended(rq, "error"))
  /\ past' = [past EXCEPT !.aborts = @ + 1,
       !.broken = @ \cup {d \in {rq.doc} : rq.pc \in {"chunks", "delete_document"}},
       !.lost = @ \cup {a \in {rq.action} :
                          a # NoAction /\ rq.pc \in {"step", "save"} /\ a \in rq.ctx.pending},
       !.excuses = [a \in Actions |-> @[a] + IF r \in Under(a) THEN 1 ELSE 0]]
  /\ UNCHANGED <<limits, tool, store>>

Respond(r) ==
  /\ At(r, "done")
  /\ Moves(r, Idle)
  /\ UNCHANGED <<limits, tool, store, past>>

Arrive(r) ==
  \/ Malformed(r)
  \/ \E s \in Sessions, a \in Actions \cup {NoAction} : Chat(r, s, a)
  \/ \E s \in Sessions \cup {NoSession}, d \in Docs :
       \/ \E u \in Users : Upload(r, s, u, d)
       \/ \E op \in {"select", "delete"} : SelectOrDelete(r, s, d, op)

HandleDocument(r) ==
  \/ Check(r, "check_global", Global, "check_user")
  \/ Check(r, "check_user", req[r].user, "add_global")
  \/ AddGlobal(r) \/ AddUser(r)
  \/ InsertDocument(r) \/ ChunkFails(r) \/ StoreChunk(r)
  \/ Lookup(r) \/ DeleteChunks(r) \/ DeleteRefused(r) \/ DeleteDocument(r)
  \/ LoadToChange(r)

HandleChat(r) ==
  \/ LoadToAnswer(r) \/ LoadToConfirm(r)
  \/ Reply(r) \/ AnswerFails(r)
  \/ \E a \in Actions, kind \in Kinds, d \in Docs \cup {NoDoc} : Propose(r, a, kind, d)
  \/ RowRefused(r) \/ InsertRow(r) \/ InsertStep(r)
  \/ ToolFails(r) \/ ToolSearches(r) \/ ToolWrites(r) \/ HistoryWrites(r)
  \/ FindRow(r) \/ Close(r) \/ RecordStep(r)

Next ==
  \E r \in Requests :
    Arrive(r) \/ HandleDocument(r) \/ HandleChat(r) \/ Save(r) \/ Abort(r) \/ Respond(r)

Spec == Init /\ [][Next]_vars
-----------------------------------------------------------------------------
(* Properties *)

TypeOK ==
  /\ limits \in [chat: Nat, upload: Nat, openai: Nat, files: SUBSET Docs]
  /\ tool \in [Actions -> Kinds \cup {"none"}]
  /\ sessions \in [Sessions -> Context]
  /\ documents \in SUBSET Docs
  /\ chunks \in [Docs -> Nat]
  /\ workflow \in [Actions -> Workflow]
  /\ writes \in [Actions -> Nat]
  /\ usage \in [Buckets -> [Users \cup {Global} -> Nat]]
  /\ req \in [Requests -> Request]
  /\ past \in Past

\* Every execution of a confirmed action beyond the first has a cause of its
\* own: a confirmation that loaded the session before another one saved it, a
\* stop between the tool and the save, or a stale save that put the action back.
RepeatsExplained == \A a \in Actions : past.attempts[a] <= 1 + past.excuses[a]

\* The review row tells what the tool did: closed once unless confirmations
\* overlapped, completed only with the rows written, failed after a write only
\* where the second statement of update_task_status failed or the action ran
\* more than once; a write nobody closed was cut off by a stop.
AuditTrue ==
  \A a \in Actions :
    LET row == workflow[a] IN
    /\ row.closings > 1 => a \in past.overlapped
    /\ row.status = "completed" => tool[a] = "search" \/ writes[a] > 0
    /\ row.status = "failed" /\ writes[a] > 0 =>
         tool[a] = "status" \/ past.attempts[a] > 1
    /\ row.status = "awaiting_review" /\ writes[a] > 0 =>
         past.excuses[a] > 0 \/ \E r \in Requests : req[r].action = a /\ req[r].pc \in Confirming

\* A proposal that awaits review can be confirmed: it is in its session, or
\* will be once the proposing request has saved, unless a stale save or a stop
\* dropped it.
ProposalKept ==
  \A a \in Actions :
    workflow[a].status = "awaiting_review" /\ past.attempts[a] = 0 =>
      \/ a \in sessions[workflow[a].session].pending
      \/ a \in past.lost
      \/ \E r \in Requests :
           req[r].action = a /\ req[r].pc \in {"step", "save"} /\ a \in req[r].ctx.pending

\* A listed document has all its chunks, unless an upload or delete of it is
\* under way or broke off (a failed embedding, a stop, or a foreign key that
\* refuses the document after its chunks are gone).
WholeUnlessBroken ==
  \A d \in documents :
    \/ chunks[d] = ChunksOf[d] \/ d \in past.broken
    \/ \E r \in Requests : req[r].doc = d /\ req[r].pc \in {"chunks", "delete_document"}

\* A daily limit is only exceeded where two uploads read the counter before
\* either added to it, and then by what the others could add at most; no user
\* is charged more than everybody together.
BudgetKept ==
  \A b \in Buckets :
    LET most == IF b = "upload" THEN 1
                ELSE CHOOSE n \in {ChunksOf[d] : d \in Docs} :
                       \A d \in Docs : ChunksOf[d] <= n
    IN
    /\ usage[b][Global] > limits[b] => b \in past.raced
    /\ usage[b][Global] <= limits[b] + (Cardinality(Requests) - 1) * most
    /\ \A u \in Users : usage[b][u] <= usage[b][Global]

\* Violated.  The page of the worker says (index.js:1049) "Ask about uploaded
\* docs, query tasks, or request task actions"; a chat may be refused for a
\* limit or fail at work, but it does not end before its session is loaded.
ChatServed ==
  \A r \in Requests :
    req[r].op = "chat" /\ req[r].code = "error" /\ past.aborts = 0 =>
      req[r].ctx # NoContext
=============================================================================

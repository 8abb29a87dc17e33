# TLA+ models of the agentic systems lab

The repository holds seven small agentic services and an edge worker. They share
one pattern: a language model decides, the backend validates and keeps the
state. What the model answers is outside anybody's control, so the models here
let it answer *anything its response type allows* and ask what the backend
guarantees nevertheless - while requests overlap at every `await`, calls fail,
and the process may die between two writes.

| file | what it is |
|---|---|
| `CopilotSession.tla` | Project 4: sessions, document library, review gate |
| `ReviewGate.tla` | what the review gate promises, in five states per action |
| `DocumentIndex.tla` | Project 4: document store, triggers, freshness log |
| `Retrieval.tla` | Project 4 and the edge worker: chunking and the choice of chunks, pure |
| `EdgeCopilot.tla` | the Cloudflare worker, one step per D1 statement |
| `ReturnBot.tla`, `ReturnPolicy.tla` | Project 1: the return chatbot's turn; the return policy, pure |
| `Orchestrator.tla` | Project 2: plans, specialists, escalation, tickets |
| `EvaluationService.tla` | Project 3: runs, reviews, promotions of prompt patches |
| `AutonomousRun.tla` | Project 6: the planning loop, extends EvaluationService |
| `MetadataPolicy.tla` | Project 5: catalogue, access policy, threads |
| `VideoProvider.tla` | Project 7: generation jobs, webhooks, views |
| `MC*.tla`, `*.cfg` | small instances of them for TLC |
| `CopilotSession_proofs.tla`, `DocumentIndex_proofs.tla`, `EdgeCopilot_proofs.tla`, `ReturnBot_proofs.tla`, `Orchestrator_proofs.tla`, `AutonomousRun_proofs.tla` (with EvaluationService), `MetadataPolicy_proofs.tla`, `VideoProvider_proofs.tla` | theorems, checked by TLAPS |

Check with `tlc -workers 2 -config X.cfg MCModule.tla` and `tlapm M_proofs.tla`.

## 1. Inventory

Each service is a FastAPI application on one asyncio event loop (Project 5
excepted). Between two awaits that really suspend - a model call, an embedding
call, a sleep, a callback in a thread - a handler runs alone. `async def`
functions that only touch files or SQLite never suspend. So the unit of
interleaving is the *segment* between two suspending awaits, and the unit of
failure is the single write, since a crash may hit inside a segment.

### Copilot review gate and sessions (Project 4)

- **State**: `sessions.json` (per session: pending actions, current and selected
  documents, retrieval scope), SQLite tables for documents, workflows, steps,
  tool rows; `traces`.
- **Operations**: `chat` (files, SQL, tool, confirmation), upload, delete,
  select, attach, detach, set scope.
- **Interactions**: calls the document store, the tools, the workflow tables and
  the model API; other sessions share the documents and the tables.
- **Hard**: `chat` loads the session, awaits up to three model calls and saves
  the *loaded* copy. A confirmed tool commits, then its workflow row, then the
  session file, then the trace: four writes a crash can separate. Foreign keys
  between workflow, note and document rows.
- **Correct means**: a state-changing tool runs only when confirmed, in its own
  session, once; its workflow row is closed once and tells what happened.

### Copilot document store and freshness log (Project 4)

- **State**: documents, chunks with embeddings, `document_index_events` written
  by triggers.
- **Operations**: ingest, delete, `process_pending_index_events`,
  `reindex_embeddings`.
- **Hard**: a processor takes *everybody's* pending events and embeds them in
  batches with an await each; two processors overlap; a batch fails; text
  changes or disappears during a call; a crash.
- **Correct means**: a processed event's chunk has an embedding; no pending event
  is forgotten; after a good upload everything it read is searchable.

### Return chatbot (Project 1)

- **State**: `sessions.json` with a TTL, keyed by user and session id joined with a
  colon; refunds and tickets in memory; a trace file.
- **Operations**: one turn: routing agent, planner agent, tools, answer agent.
- **Hard**: the planner proposes calls freely; the money moves before the answer
  is written; a malformed amount breaks off the loop over the calls; turns of
  one session overlap; ids that contain colons make the same key.
- **Correct means**: refunds only for an eligible line of the user's own order
  that was asked for; every refund traced or its turn failed.

### Customer support orchestrator (Project 2)

- **State**: `sessions.json` keyed by the session id alone (the record names its
  user); support tickets in memory.
- **Operations**: one turn: routing, an execution plan, specialists in sequence
  or under `asyncio.gather`, escalation, backend actions, save.
- **Hard**: parallel answers in any order, one failing while the others go on;
  users who share a session id.
- **Correct means**: results in plan order; a specialist's call for a human
  reaches the escalation agent; tickets exactly from answered turns and unheld
  proposals; sessions never leak between users.

### Video provider mock (Project 7)

- **State**: in memory: videos, uploaded assets, webhook endpoints, delivery log.
- **Operations**: create (background job), upload, poll by session or video,
  files, register, patch, rotate, delete endpoints, page through deliveries.
- **Hard**: endpoints change while a job calls them one by one; a sender raises.
- **Correct means**: each receiver is called once, in order; events agree with
  polling and with the files; every job ends.

### Copilot edge worker (`cloudflare/project4`)

- **State**: D1 rows: sessions, documents, chunks, review rows with their steps,
  tool rows, daily usage counters. Nothing is kept between two requests.
- **Operations**: upload, select, delete, chat with its routes, confirmation.
- **Interactions**: D1, the embedding and chat APIs; all isolates share the rows.
- **Hard**: *every* statement suspends and there is no transaction: two
  confirmations of one action overlap, an upload or delete breaks off between
  two statements, the budget is read and then raised.
- **Correct means**: an action runs once, its review row is truthful, a proposal
  can be confirmed, a listed document is whole, limits are kept - or a named
  cause explains why not.

### Adaptive evaluation (Project 3)

- **State**: JSONL files: traces, evaluations, prompt patches, regression cases;
  candidate prompt files.
- **Operations**: import traces, run, feedback run, review, promote, benchmark.
- **Interactions**: reads Project 1's traces; Project 6 builds instances of the
  same service over its own directory.
- **Hard**: a run awaits a model call per trace and agent, then replaces the
  patch file, while reviews, promotions and imports run in between.
- **Correct means**: a review survives every run that proposes its patch again;
  a candidate prompt holds a text somebody approved.

### Autonomous evaluation agent (Project 6)

- **State**: one run: goal, iterations, benchmark, artifacts, gates, status.
- **Operations**: the loop planner - tool - gates, two planners, three tools.
- **Hard**: the model planner may choose anything for ever; gates are judged at
  two places; every tool may fail.
- **Correct means**: the run ends and its status matches what it left behind.

### Metadata service (Project 5)

- **State**: SQLite: datasets, owners, lineage (and columns with their dataset).
- **Operations**: list, search, create, patch, delete; the same through
  structured tasks, a rule-based agent and MCP tools; seeding.
- **Hard**: handlers run on threads; the policy is checked against a row that was
  read earlier; agents act on a dataset they found in an earlier request; ids of
  deleted rows come back; foreign keys are not enforced; a seed reads its records
  one by one before it writes them.
- **Correct means**: every committed change is lawful for its caller; names are
  unique, lineage does not dangle, replies tell what happened.

### Not modelled

- Copilot evaluation framework, latency benchmark: sequential scripts; no state
  outlives a case.
- SQL safety check: it works on characters of SQL text.
- Agents, LLM and embedding clients: in the models they are the arbitrary answer
  or failure of a call. Prompts and wording are left out everywhere.
- Observability: nothing reads the logs back.
- Within modelled parts: text extraction, scores and reranking (DocumentStore);
  return authorizations, which are proposed and never carried out, and the
  context fields (Project 2); the lookups of Project 1 that no handler calls;
  reports and scores (Projects 3, 6); trace rows of the edge worker; API keys.

`PROJECT.json` lists under `hazards` what is hard to test, line by line, with
the properties that watch it. A torn `sessions.json` and repeated refunds of one
line have none: the first stops the service, the second is nowhere promised.

## 2. The modules

### CopilotSession

A request is a small process; `req[r].pc` names the await it is parked at
(`decide`, `plan`, `embed_query`, `answer`, `propose`, `embed_upload`,
`embed_delete`) or the step the loop is executing for it (`execute`, `finish`,
`save`, `trace`, `detach`). The steps of the second kind are separate because a
crash may come between the writes; while one is pending no other request moves
(`LoopFree`). `req[r].ctx` is the loaded session - the copy `_persist` will
write back.

| action | code |
|---|---|
| `ChatStart`, `Decided`, `Retrieved`, `Answered` | `ProjectCopilotService.chat` and `_answer_from_files` up to each await |
| `ReadToolOrError`, `ToolProposed` | `WorkflowActionService.handle_tool` |
| `ConfirmStart`, `Execute`, `Finish`, `Save`, `Trace` | `confirm_action`, `ToolExecutor.execute`, `_finish_workflow_state`, `_persist` |
| `UploadStart` ... `DeleteDone`, `EmbeddingFails` | `upload_document`, `delete_document` with the store |
| `SelectDocument`, `AttachDocument`, `DetachDocument`, `SetRetrievalScope` | the handlers without an await |
| `Crash` | the process dies; only files survive |

Abstracted: message text, history, previews, the ids of current project, task
and note. `KnownIds` says whether an id the model fills in names a stored row
(`FALSE` makes the insert of the workflow row fail). A project write checks the rows
it refers to when it runs, so `Execute` chooses success or failure anew each time
(`MaySucceed`): an action may fail, leave its row `failed`, come back through a stale
save or a crash, and write then. `AuditTrail` says of a failed row that all writes of
its action are those of such further executions. The freshness log is
reduced to the set of documents with a pending event: DocumentIndex has the
detail. `sessions.json` is written in one step: a torn file stops the service.
Two handlers never share a segment, but their calls are ordered arbitrarily.
`Preflight` are the answers given before any model call.

### ReviewGate

The abstract specification: an action is proposed (recorded or, when its row is
refused, unrecorded), confirmed at most once, and ends `completed`, `failed` or
`spent`. `CopilotSession` defines the refinement mapping (`GateSpec`, an INSTANCE
of ReviewGate) from pending actions, workflow rows and tool rows. It holds for a
client that waits for each response, without crashes; with overlap it does not,
and the properties of `copilot_gate` say exactly by how much.

### DocumentIndex

Texts and embeddings are versions; `events` is the log in order of `event_id`;
`job[p]` a request inside `process_pending_index_events` or
`reindex_embeddings`. `Begin` is everything up to the first await. The texts a
job embeds are those it read (`seen`); `Embedded` writes them by chunk id.
Abstracted: the failure marks of one batch commit together (with `BatchSize` 1,
as checked, this is exact). `Edit` stands for an `UPDATE` outside the service,
the case the trigger on text updates exists for.

### Retrieval

Pure operators, written as recursive functions and folds: `ChunkText` with its
three strategies, `EdgeChunkText`, and `Search` with the rounds of
`_diversified_top`. A text is a sequence of characters of which only white space
is told apart; the splitters are left out and their units given. `MCDocumentIndex`
assumes `ChunksCoverText` and `SearchIsFair`, which TLC evaluates in the run
`index_log`: over 155 texts of up to three units, five sizes, four overlaps
(larger than the size, too) no word is lost, no chunk is too long, a unit that
fits stays whole; over all rankings of up to five chunks of three documents an
answer is full, best first within a document, and fair between documents.

`EdgeChunkText` keeps windows of nothing but white space as empty chunks, which
the Python store drops; the property allows it there.

### EdgeCopilot

One action per D1 statement or API call; `req[r].pc` names the next one.

| actions | code |
|---|---|
| `Upload`, `Check`, `AddGlobal`, `AddUser` | `upload`, `enforceDailyBudget` (upload, then one charge for the embeddings) |
| `InsertDocument`, `ChunkFails`, `StoreChunk` | the rest of `upload` |
| `SelectOrDelete`, `Lookup`, `DeleteChunks`, `DeleteRefused`, `DeleteDocument` | `selectDocument`, `deleteDocument` |
| `LoadToChange`, `LoadToAnswer`, `LoadToConfirm`, `Save` | `loadSession`, `saveSession` in each handler |
| `Reply`, `AnswerFails`, `Propose`, `RowRefused`, `InsertRow`, `InsertStep` | `answer`, `handleTool`, `createWorkflow` |
| `ToolFails`, `ToolSearches`, `ToolWrites`, `HistoryWrites` | `executeTool` |
| `FindRow`, `Close`, `RecordStep` | `finishWorkflow` |
| `Abort` | an isolate stops at any statement; a D1 call that fails |

An upload remembers how many chunk rows it has `stored`; `Charges` are the
counters an upload has to raise under the limits that are set, and `closings`
counts the closing steps recorded for a review row (`RecordStep`). `limits` is chosen
at the start from `Deployments`, with the files uploaded under them. `past` holds
what the properties need to name a cause: executions, their excuses, proposals
lost, documents broken, counters raced. It is never read by a guard except for the
bounds. A D1 statement either takes effect or fails; one that commits and whose
reply is lost, so that the worker takes a write for a failure, is not modelled.

### EvaluationService and AutonomousRun

`jobs[j]` is a run between two model calls: the traces left, those that failed,
the patches drafted. The evaluation agent may find anything
(`Evaluation`); `RequiresRegression` is `_normalize_evaluation`, which decides by
its verdict and issues, not by what the agent says of a regression.
`TraceEvaluated` is everything a trace's calls lead to, and
after the last one `save_patches` with the preservation of reviews. `Stores`
are artifact directories: `Shared` is Project 3's, every autonomous run has its
own. The three tools of an autonomous run may fail; `GenerateFails` is
`generate_candidate_prompts` raising at any row, which leaves the files of the rows
before it, and ends the run as `failed` without an artifact. AutonomousRun composes: its `evaluate_traces` is a job of EvaluationService
over its own store and the shared traces, and `AutoNext` interleaves its loop
with the shared service. A history variable remembers verdicts and approvals,
ids a run proposed twice (`blurred`) and texts changed under a review
(`rewritten`): in both cases the code keeps or loses a review by its id alone,
and the properties say that there is no other case.

### MetadataPolicy

A request is a thread: `found` (an agent holds a search result), `insert` and
`write` (checked, not yet written), `refresh` (committed), `counted` (a seed that
saw an empty table). SQLite's connection reads committed state and opens a
transaction at the first write, so a write is one step with its commit.
`Written` changes only the columns whose value differs from the one read, as the
session does. `MaxId` bounds ids; the id of a deleted last row is reused.
`overlapped` marks a request that goes by a dataset (`GoesBy`) somebody else
committed to after it was read: only such a request may land on a row the policy
would have refused.

A seed merges record by record, with a SELECT each that sees what is committed then
(`MergeRow`, `MergeEdge`; `seen` and `edges` remember what it found), and writes at
its commit (`Seed`): what was absent is inserted, the columns that differ are
updated, what was equal is not written. The flush is refused where a key or a name is
taken or a row to update is gone (`FlushRefused`), and all of it is rolled back.
`raced` are the edges that a seed inserted although another commit had come between:
a delete between its merges of the datasets and of the lineage leaves such an edge
without its dataset, and `CatalogueConsistent` excepts them. Owners, schemas and
columns are not in the model; an overlapped seed may fail because of them, too.
The model starts after the start-up seed; a seed counts rows again before each
MCP tool call.

A server error has no task status: `httpx.ASGITransport` raises it through the
structured task, whose own request ends in a 500. `TaskStatus` counts that as
failed: what `RepliesTrue` says of it is that nothing was committed unless another
write came between (`db.refresh` may miss a committed row).

### ReturnBot, Orchestrator

A turn parks at each model call. In ReturnBot `Planned` is the planner's answer,
`_normalize_planner_output` and the loop over the tools in one step, because no
tool suspends. `KeyOf` is the record key of a user and a session id: the ids are joined
with a colon, which either may contain, so it is any function and two users may have
one key; `load` compares no user. `Asking` bounds who asks. Ids that name no line are `Unknown`; lines of other users are
`Foreign`. `ReturnPolicy` is `check_return_policy` over a catalogue of orders,
products and policies; `MCReturnBot` assumes that the owners and eligible lines
of the run are those of its catalogue, which has a line on the last day of its
window and one a day later. Every intent that no plan follows is `other`; questions
have no effect on state.

In Orchestrator `waiting` is the set of agents under way, `results` what came in.
A decision of the routing model names any agents in any order, repeated or none
at all; `Normalizes` is what `_normalize_selected_agents` makes of it, and
`RunsParallel` is `_build_execution_plan` with `_requires_sequential`, where the
words of the message that ask for a sensitive change are a free choice. `Answer`
is the run of a specialist: what its tools look up is read-only catalogue data
that only shapes the prompt, and the authorizations a return agent adds are
never carried out. `Executed` is `validate_and_execute_action`. Reason codes are free text of the model, so "results disagree" is
always possible. A support ticket proposal is `held` when it needs approval, is
not a safe write or has no reason; actions with another name are never carried
out and left out. Tickets are a set of proposals, so that none is created twice
is not shown. `StrayEnds` is a call that gather did not cancel.

### VideoProvider

`job[v].pc`: `queued` and `rendering` are the two sleeps, `sending` a callback.
Without a delay the sleeps are skipped and `Finish` starts from `queued`. The
number of edits dates urls and secrets, so "outdated" can be said. `EventPage`,
`GenerationStatus`, `Links`, `Failure` and `FileAnswer` are what the API shows;
the properties are about these views, not about the store.

### Definitions marked (mutant)

They are no part of a specification: each is the slip its neighbour guards
against. `PROJECT.json` pairs every checked property with one that breaks it.

## 3. The runs

| run | instance | shows |
|---|---|---|
| `copilot_gate` | 1 session, 2 requests, 1 action, 1 document, 1 crash, 2 attempts | Overlap and crashes: repeats and orphans are explained by a crash or a stale save; rows are closed once, and rows and traces are truthful; nothing unconfirmed runs |
| `copilot_serial` | 2 sessions, 1 request at a time, 2 actions, 1 document | The service implements ReviewGate; session file and rows agree between requests |
| `copilot_live` | 1 session, 2 requests, 2 documents | Every request ends, also when uploads and deletes index side by side |
| `copilot_double_execution` | 1 session, 2 requests, 1 action, no crash | **violated**: a confirmed action comes back and runs again, unrecorded |
| `index_log` | 2 documents of 1 chunk, 2 processors, 2 versions, 1 crash | Processed means embedded; fresh unless a slow processor overwrote; nothing pending is lost; read after write. Also evaluates the assumptions about Retrieval |
| `edge` | 2 isolates, 1 session, 1 user, 1 action, 2 documents of 1 and 2 chunks, 1 abort, 5 requests; limits off, or 1 upload and 2 embeddings a day | Repeats, lost proposals, broken documents and exceeded limits have a named cause; review rows are truthful |
| `edge_chat` | the same, all three limits in force as in `wrangler.toml` (2, 2 and 3 for its 50, 50 and 100) | **violated**: no chat gets past the budget |
| `evaluation` | 1 shared run and 1 autonomous run, 2 traces, 2 patch ids with 2 texts; 1 request beside an autonomous run, 4 without | Reviews kept, candidates approved, run status true, every run ends |
| `metadata` | 2 threads, an editor, an admin and a viewer of two teams, 2 names, ids up to 4, 2 seeded rows with an edge | Every change lawful, names unique, no lineage dangles but by a seed that was overtaken, replies true |
| `video` | 2 videos, 2 endpoints, 1 asset, 2 edits | Calls once and in order, events as polled, staleness explained, jobs end |
| `return_bot` | 2 users, 2 session ids, 3 of their pairs asking, 2 of which make one key, 3 lines, 2 turns, plans of 2 | Refunds due, asked for, accounted for; sessions apart and remembered; turns end |
| `orchestrator` | 2 users, 1 shared session id, 2 turns, the agents return, payment and escalation, plans of 2 | Tickets from answered turns only, results in plan order, escalations handled, sessions apart, every call ends |

**Bounds.** Two requests are enough for every hazard listed: each is one request
overtaking another. One action and one document suffice in `copilot_gate`,
because handlers touch one of each - but for a delete, which indexes what other
uploads left pending and so waits only where there are two documents
(`copilot_live`); `copilot_serial` has two of sessions and actions for what
crosses them. Two attempts show a repetition. `BatchSize` 1 with two events gives
two batches, so later batches are left when the first fails. In `edge`, a document
of two chunks can break off half way; five arrivals are a proposal, two
confirmations, an upload and a delete. Two deployments keep the counters small: a
limit is exceeded by the second of two uploads. In `evaluation` a second run of a
service needs four requests and is looked at without an autonomous run beside it;
goals of four iterations reach every tool and the last gate. In `metadata` the
seeded rows have the ids 1 and 2; a third and a fourth let two threads create at once,
and the id of the last row comes back when it is deleted. Both threads may find the
table empty and seed. Plans of
two proposals have a valid call before and after a malformed one. Two turns of
`return_bot` are too few for one thing, and the proof of `SessionsApart` found it: an
expired history can come back, when a turn that loaded it before saves it after
another turn of the session ran beside it. Four turns of one user reach it; the
property says so now, and the theorem holds for any number of turns. In `orchestrator` a return and
a payment agent make a parallel step that answers in both orders, and the third is the
escalation that follows it or is a part of it. `MaxAttempts` also caps the history counter `resurrected`, which never
needs to exceed it. Symmetry is used only in runs without liveness, over sets
whose members are treated alike.

**Deadlock.** `CHECK_DEADLOCK FALSE` where ids run out by construction: documents,
videos and turns are finite in an instance.

**Fairness.** Nobody promises that users send requests, so starting one is never
fair. The loop executes the segment it is in (weak fairness of `Hold`). A model
or embedding call ends with a result or an error, by the client's timeout at the
latest - a callback of VideoProvider, too, although `urlopen`'s timeout is one for
each socket operation and a receiver that drips its answer could stretch it - and asyncio resumes ready tasks in order. In CopilotSession another
segment may run whenever a task is ready, so resuming needs strong fairness
(`Wake`); in the other modules a segment is one step and weak fairness does. In
AutonomousRun each job's model call and each run's loop is weakly fair; nothing
makes the planner finish, so the run ends by the count of iterations alone. The
edge worker and the metadata service have no liveness property: an isolate or a
client may simply stop.

The assumptions about the pure modules have no mutant in `PROJECT.json`; they were
seen to fail with an off-by-one in `NextStart` and in the return window.

## 4. What the runs found

1. **A confirmed action can run twice** (`copilot_double_execution`). A chat of
   the session that waits for a model while a confirmation runs saves the copy
   it loaded before: the action is pending again; confirming it again executes
   the tool again and no row records it.
2. **The edge worker serves no chat while its limits are on** (`edge_chat`): the
   budget asks the parsed body for its headers, so every chat ends in an error.

Consequences of the models that no run is spent on:

- A deleted document can come back as current, the same way as 1: Project 4's
  README (92-93) says a delete clears it, `service.py:460` saves the older copy.
- A pending action can lack its workflow row (README 145-146 says it has one):
  it enters the context at `workflow_actions.py:58` before the insert, and a
  refused insert is answered as a model error with the context saved. That is why
  `PendingIsOpen` and ReviewGate have an unrecorded state.
- The status of an index event is not final: with overlapping processors `failed`
  becomes `processed` and back (`document_store.py:212`), against the diagram of
  `docs/project4_rag_chunking_freshness.md:99-100`.
- In Project 3 an approval is kept by the id of a patch although a later run
  proposes another text under it (`past.rewritten`), and a run that proposes one
  id twice loses or spreads its review (`past.blurred`).
- In the edge worker a delete that a foreign key refuses leaves the document
  without its chunks (`index.js:146-147`).
- A refund in Project 1 stays made, and untraced, when the answer call fails
  (`unreported`), and nothing asks whether a line was refunded before;
  overlapping turns of a session forget the one that saves first (`overlapped`);
  in Project 2 a save replaces another user's record of the same session id
  (`displaced`), and an escalation whose ticket proposal is held creates none.
- In Project 1 the comment on `JsonSessionStore` (`session_store.py:16-21`) says that a
  session is active only when it "belongs to the requesting user". User `a` with session `b:c`
  and user `a:b` with session `c` have one record (`return_bot` reaches it): the second
  sees the turns and continues the request of the first. Money is safe from it:
  `RefundsAreDue` holds for any `KeyOf`. `UsersApartIfKeysDiffer` is what the comment
  says, under the assumption it lacks.
- In Project 5 two MCP calls on an empty table both seed, and a delete between the reads
  of the slower one leaves a lineage edge without its dataset (`raced`).
- In Project 5 an editor's patch can land on a row that became sensitive, or
  another team's, after the policy was checked (`overlapped`).

## 5. The proofs

TLAPS proves these for all values of the constants: any number of sessions,
requests, users, actions, lines, isolates, crashes. Each module starts from the
named assumption on the constants of the component it extends; where a theorem
needs more, it says so itself. Every inductive invariant was first checked by TLC
as an invariant of the component's run.

Each proof has one lemma per action and one step per conjunct the action can
disturb. Where most actions touch nothing of a part, they are sorted into kinds
first (a turn begins, moves on, concludes; a request is quiet, loads, works) and
the part is argued about kinds.

| module | theorem | property | rests on |
|---|---|---|---|
| `CopilotSession_proofs` | `TypeCorrect` | `TypeOK` | `TypeInv` |
| | `ClosedOnce` | `WorkflowClosedOnce` | `GateInv` |
| | `OnlyConfirmedRuns` | `WritesOnlyConfirmed` | `GateInv` |
| | `RepeatsJustified` | `RepeatNeedsCrashOrStaleSave` | `RepeatInv` |
| | `AuditTrailTrue` | `AuditTrail` | `AuditInv` |
| | `OrphansExplained` | `OrphanNeedsCrashOrStaleSave` | `OrphanInv` |
| | `PendingMeansOpen` | `PendingIsOpen` | `SerialInv`; one client, no crash |
| | `ServiceImplementsGate` | `GateSpec` | `SerialInv`; one client, no crash |
| `DocumentIndex_proofs` | `TypeCorrect` | `TypeOK` | `IInv` |
| | `ProcessedMeansEmbedded`, `NoEventForgotten` | `ProcessedIsEmbedded`, `PendingIsHeld` | `IInv` |
| | `LogKeepsFresh` | `FreshUnlessOverwritten` | `Carried` |
| | `AnswerAfterWrite` | `ReadAfterWrite` | `WorkDone` |
| `EdgeCopilot_proofs` | `DocumentsWhole` | `WholeUnlessBroken` | `Whole` |
| | `RepeatsAreExplained`, `ProposalsAreKept` | `RepeatsExplained`, `ProposalKept` | `Confirmed` |
| | `AuditIsTrue` | `AuditTrue` | `Audited` |
| | `BudgetIsKept` | `BudgetKept` | `Budgeted`; `Limited` |
| `ReturnBot_proofs` | `BotTypeCorrect`, `RefundsAlwaysDue`, `RefundsAreAskedFor` | `TypeOK`, `RefundsAreDue`, `RefundNeedsRequest` | `Base` |
| | `NoRefundLost` | `RefundsAccountedFor` | `RefundsCounted` |
| | `HistoryIsKept`, `SessionsKeptApart` | `TurnsRemembered`, `SessionsApart` | `History` |
| | `UsersApartIfKeysDiffer` | no user sees another's turns; `KeysDiffer` | `History` |
| `Orchestrator_proofs` | `OrchestratorTypeCorrect`, `TicketsAlwaysProposed`, `ResultsAlwaysFollowPlan`, `EscalationsAlwaysHandled`, `TurnsAlwaysRemembered`, `SessionsKeptApart` | `TypeOK`, `TicketsAreProposed`, `ResultsFollowPlan`, `EscalationsHandled`, `TurnsRemembered`, `SessionsApart` | `IInv` |
| `AutonomousRun_proofs` | `ReviewsSurvive`, `OnlyApprovedPromoted` | `ReviewsKept`, `CandidatesApproved` | `SharedOK` |
| | `StatusIsTrue` | `RunStatusTrue` | `AutoOK` |
| `MetadataPolicy_proofs` | `TypeCorrect`, `CatalogueStaysConsistent`, `RepliesAreTrue`, `PolicyIsKept` | `TypeOK`, `CatalogueConsistent`, `RepliesTrue`, `PolicyHolds` | `IInv` |
| `VideoProvider_proofs` | `TypeCorrect`, `CallsOnceInOrder` | `TypeOK`, `CalledOnceInOrder` | `IInv` |
| | `EventsTellTheStatus` | `EventsMatchPoll` | `StatusFits`, `Truthful` |
| | `StaleIsExplained` | `StaleOnlyAfterEdit` | `StillRegistered` |

### CopilotSession

The invariants build on each other; the properties say what is seen at the end,
and none of them is inductive alone.

- `TypeInv` adds to `TypeOK` that a chat request has a session, an executing one an
  action, a parked one none (`Held`): a handler reads what its request holds.
- `GateInv` connects requests and sessions: at most one request is in a running
  step (`OneRunning`), an action nobody proposed is in no context and no row
  (`Unproposed`), and an action in a context, stored or loaded, belongs to that
  session (`Ownership`).
- `RepeatInv`: a bound on runs says nothing of whether one more is possible. While
  an action can run again it ran at most as often as there were crashes and
  saves that put it back (`RunsJustified`), and the capped counter of such saves
  loses none (`AttemptsBound`).
- `AuditInv`: between the execution and the closing of the row the request carries
  the result (`ResultTold`). An execution writes at most once, and an action whose row
  is failed has an execution without a write, so it has fewer writes than
  executions (`EffectsTold`); how many those can be is `RepeatInv`, and the two together
  give `AuditTrail`.
- `OrphanInv`: until the first crash an action that awaits review has not run, or
  is about to be closed, and is in its session, in a copy about to be saved, or
  was dropped (`Confirmable`).
- `SerialInv`: for one client without crashes the copy a request holds is the stored
  context, less the action it confirms (`HoldsPending`), and pending is the same
  as open but in the steps between the two writes (`PendingOpen`).

`ServiceImplementsGate` maps `Finish` to Confirm, `ToolProposed` to Propose and every
other step to a stutter. `OneAtATime` and `MaxCrashes = 0` are hypotheses of the last
two theorems because without them the statement is false:
`copilot_double_execution` is the counterexample.

### DocumentIndex

Every stored text has an event that stands for it (`Carries`): whoever holds that
event has seen the present text, and it is not processed before that text was
embedded, or a slower job wrote over it. This is what `FreshUnlessOverwritten`
leaves implicit, and it needs `SeenIsPast` (no job has seen a later text than the
stored one) and `OfUsedIds` (ids are not drawn twice). `WorkDone` says of a job in
the middle of its batches what `ReadAfterWrite` says of its end.

### EdgeCopilot

Since every statement is a step, most of the invariant is what a request knows at
each stop (`Shape`).

- `Whole`: a document is uploaded by one request (`OneUpload`), and a listed one has
  the rows its upload has stored so far, or is being deleted, or broke
  (`Accounted`).
- `Confirmed`: an action has one session (`OneHome`); until it is saved only the
  proposing request knows of it (`ProposerAlone`); and while it can be confirmed
  again it has an excuse left (`SpareExcuse`) - `RepeatsExplained` itself counts only
  what has happened.
- `Audited`: where confirmations do not overlap one of them closes the row
  (`ClosedOnce`); what an execution did is known until it writes the row
  (`Result`, `FirstResult`).
- `Budgeted`: a counter can still take what requests in flight have found to fit
  (`StillFits`), unless uploads raced; counted and in flight together stay within
  what the others add (`Overshoot`); a user's counter follows the global one
  (`Covered`). The last two are sums over requests. As a recursive sum could not be
  reasoned about, a sum is the cardinality of a set of pairs, one for each unit of
  each request (`Tokens`, `Total`), and the lemmas on what one request adds or
  takes are proved from the library's facts on cardinalities.

`BudgetIsKept` assumes `Limited`: finitely many requests, at least one, some document,
and a largest number of chunks - the upload refuses files with more than
`MAX_UPLOAD_CHUNKS` (`index.js:87`). Without a largest number the bound of
`BudgetKept` has no meaning.

### ReturnBot

`IssuedIsDue` is the lemma under `RefundsAreDue` and `RefundNeedsRequest`: whatever is
proposed, a call left after normalisation that passes validation is for an
eligible line of the user's own. `Planning` says that only complete return requests
reach the planner. `RefundsCounted` turns the inequalities of `RefundsAccountedFor` into an
equation: refunds are those traced, those unreported, and those in the hands of
open turns, again counted as tokens. `History` says of the copies held by open turns
what the two properties say of stored records: `RecordsApart`, `OpenOverlap`, `OpenKnows`.

### Orchestrator

`Planned` says what is known of the results at each point of a turn: in a parallel
step every selected agent has answered or is under way (`InParallel`), in sequence
the results are a prefix of the plan and the next agent is under way
(`InSequence`), always one result per agent (`OnePerAgent`). Putting results in plan
order picks, for each selected agent, a result of that agent; that there is one
when the step completes is the point of the type theorem. `TicketInv` ties each
ticket to an answered turn. Records hold turns of their own user and session id
(`RecordsApart`), two open turns of a session id have overlapped (`OpenOverlap`), and an
open turn has loaded every answered turn that was neither displaced nor
overlapped (`OpenKnows`) - so its save loses none of them.

### EvaluationService and AutonomousRun

The proofs are about the composition `AutoSpec`, so they cover the shared service
with autonomous runs beside it. `RowsReviewed`: an id that is not blurred has at most
one row, and an id without a row has its verdict reset - which is what makes
`save_patches` keep the right review. `ApprovedRows` says of what *may* be promoted
what `CandidatesApproved` says of what was. For `RunStatusTrue` the rule-based planner
has used one iteration per tool that ended well (`OncePerTool`), so four suffice.

### MetadataPolicy

A request between its read and its write was allowed what it is about to do
(`Allowed`), and what it read is stored still unless it is marked `overlapped`
(`ReadIsStored`), the rows a seed has merged among it; `CommitKnows` carries that over
every commit, for each commit marks whoever goes by a row it changes (`Marks`).
So an insert of a seed that nobody overtook joins rows that are stored, or that it
stores itself, and one that was overtaken is in `raced` (`SeedKeepsCatalogue`).
That names stay unique is the unique index, statement by statement (`NamesClash`).

### VideoProvider

The order of calls is about filtered lists: the endpoints that match, the
deliveries of one video. `InOrder` gives the positions of a filter in ascending order,
by their ranks, and two lemmas carry the proof: every rank is taken (`Within`, by the
pigeonhole principle), and a later position comes last (`LaterIsLast`) - so a new
delivery is appended to the calls of its video and touches no other's
(`OneMoreCall`). `StatusFits` ties the step of a job to the status of its video,
`NobodyBefore` says that receivers are left exactly while a job calls, and
`StillRegistered` that as long as nothing was edited since the video ended, the
receivers left are registered as they were taken down.

### What is only model-checked, and why

Every safety and action property of a passing run is a theorem, and the refinement
`GateSpec` too. What stays with TLC:

- Liveness: `RequestsFinish`, `TurnsEnd` (twice), `JobsEnd`, `RunsEnd`. Fairness and ENABLED
  are outside the prover.
- `TypeOK` of EvaluationService and `AutoTypeOK`, which hold on the instance of `evaluation`:
  `Merged` filters the imported traces with `SelectSeq`, of which the prover knows no
  facts. AutonomousRun_proofs takes the domains and shapes it needs (`FilesOK`,
  `AutoOK`).
- Retrieval and ReturnPolicy: recursive functions over sequences, again induction
  over data; TLC evaluates their assumptions on all bounded inputs.
- The two violated runs, which are about single counterexamples.

## 6. Plan

1. The lemmas on sums as sets of pairs stand in `EdgeCopilot_proofs` and in a simpler
   form in `ReturnBot_proofs`; one module could serve both.
2. What `BudgetKept` says of a single counter is the best possible without a
   transaction; a model of `enforceDailyBudget` as one conditional update, and the
   proof that it keeps the limit exactly, would show what a repair buys.
3. ReviewGate with overlap: an abstract gate that allows a confirmation to repeat for
   the causes `RepeatNeedsCrashOrStaleSave` names, so that `copilot_gate` refines it
   without hypotheses.

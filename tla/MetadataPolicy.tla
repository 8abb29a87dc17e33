--------------------------- MODULE MetadataPolicy ---------------------------
(***************************************************************************)
(* The metadata service: a dataset catalogue behind REST endpoints, and    *)
(* the agents and MCP tools that call the same endpoints for a caller.     *)
(*                                                                         *)
(* The endpoints are plain functions, so each request runs on a worker     *)
(* thread of its own.  The driver opens a transaction at the first write   *)
(* only: what a handler reads before is committed state of that moment,    *)
(* and its write is a separate step that is atomic with its commit.        *)
(* Seeding reads record by record and writes all of them in one commit.    *)
(* SQLite hands the largest id + 1 to a new row, so the id of a deleted    *)
(* last row is used again.  The rows of schemas and owners are left out.   *)
(*                                                                         *)
(* A definition marked (mutant) is the slip the definition after it guards *)
(* against and no part of the specification.                               *)
(***************************************************************************)
EXTENDS Integers, FiniteSets

CONSTANTS
  Requests,     \* worker threads
  Callers, NoCaller,
  Role,         \* [Callers -> Roles], the X-Role header
  Team,         \* [Callers -> Teams], the X-Team header
  Teams,        \* teams a request may name
  Owners,       \* teams that have a row in owners
  Names,        \* dataset names
  MaxId,        \* bound on dataset ids
  NoRow, Unread,
  Same,         \* a field the patch does not set
  NewRows,      \* rows a create may ask for
  Patches,      \* patches an update may ask for
  SeedRows,     \* the rows seed_database merges, by id
  SeedEdges     \* its lineage

Roles == {"viewer", "editor", "admin", "service"}

\* public and internal; high, restricted and confidential; any other word.
Levels == {"open", "sensitive", "unlisted"}

Ids == 1..MaxId
NoId == 0
Row == [name: Names, team: Teams, level: Levels]
Patch == [name: Names \cup {Same}, team: Teams \cup {Same},
          level: Levels \cup {Same}]

ASSUME ConstantsOK ==
  /\ NoCaller \notin Callers /\ Role \in [Callers -> Roles]
  /\ Team \in [Callers -> Teams] /\ Owners \subseteq Teams
  /\ MaxId \in Nat /\ NoRow \notin Row /\ Unread \notin Row \cup {NoRow}
  /\ Same \notin Names /\ Same \notin Teams /\ Same \notin Levels
  /\ NewRows \subseteq Row /\ Patches \subseteq Patch
  /\ DOMAIN SeedRows \subseteq Ids
  /\ \A i \in DOMAIN SeedRows : SeedRows[i] \in Row
  /\ \A i, j \in DOMAIN SeedRows :
       SeedRows[i].name = SeedRows[j].name => i = j
  /\ SeedEdges \subseteq (DOMAIN SeedRows) \X (DOMAIN SeedRows)

VARIABLES
  datasets,     \* [Ids -> Row or NoRow]
  lineage,      \* set of <<upstream id, downstream id>>
  raced,        \* history: edges of it inserted by an overlapped seed
  req           \* [Requests -> what the thread knows]

catalogue == <<datasets, lineage, raced>>
vars == <<catalogue, req>>
-----------------------------------------------------------------------------
Codes == {"none", "ok", "denied", "missing", "invalid", "conflict", "error"}

Request == [pc: {"idle", "found", "insert", "write", "refresh", "counted", "done"},
            op: {"none", "create", "update", "delete", "seed"},
            caller: Callers \cup {NoCaller}, id: Ids \cup {NoId},
            row: Row \cup {NoRow},      \* as read, or as asked for by a create
            patch: Patch, confirmed: BOOLEAN, code: Codes,
            \* what the merges of a seed found
            seen: [DOMAIN SeedRows -> Row \cup {NoRow, Unread}],
            edges: [SeedEdges -> {"unread", "found", "absent"}],
            committed: BOOLEAN,         \* history: its write took effect
            overlapped: BOOLEAN]        \* history: see Touched

Untouched == [name |-> Same, team |-> Same, level |-> Same]

Idle == [pc |-> "idle", op |-> "none", caller |-> NoCaller, id |-> NoId,
         row |-> NoRow, patch |-> Untouched, confirmed |-> FALSE, code |-> "none",
         seen |-> [i \in DOMAIN SeedRows |-> Unread],
         edges |-> [e \in SeedEdges |-> "unread"],
         committed |-> FALSE, overlapped |-> FALSE]

Stored == {i \in Ids : datasets[i] # NoRow}

Seeded == [i \in Ids |-> IF i \in DOMAIN SeedRows THEN SeedRows[i] ELSE NoRow]

Init ==
  /\ datasets = Seeded
  /\ lineage = SeedEdges /\ raced = {}
  /\ req = [r \in Requests |-> Idle]

Answered(rq, code) ==
  [Idle EXCEPT !.pc = "done", !.code = code, !.committed = rq.committed,
               !.overlapped = rq.overlapped]

\* The request has read row i, or picked it, and goes by what it read.
GoesBy(rq, i) ==
  \/ rq.id = i /\ rq.pc # "done"
  \/ rq.pc = "counted" /\ i \in DOMAIN SeedRows /\ rq.seen[i] # Unread

\* A commit on the rows in changed overlaps the other requests that go by them.
Touched(changed) ==
  [q \in Requests |->
     IF \E i \in changed : GoesBy(req[q], i)
     THEN [req[q] EXCEPT !.overlapped = TRUE] ELSE req[q]]

-----------------------------------------------------------------------------
(* The policy. *)

IsAdmin(c) == Role[c] \in {"admin", "service"}

CanRead(c, row) ==
  IsAdmin(c) \/ row.team = Team[c] \/ row.level = "open"

\* What a list or a search may return to c.
Visible(c) == {i \in Stored : CanRead(c, datasets[i])}

MayCreate(c, row) ==
  \/ IsAdmin(c)
  \/ Role[c] = "editor" /\ row.team = Team[c] /\ row.level # "sensitive"

\* (mutant: the level the row has already is not looked at)
MayUpdateAnyLevel(c, row, patch) ==
  \/ IsAdmin(c)
  \/ /\ Role[c] = "editor" /\ row.team = Team[c]
     /\ patch.team \in {Same, row.team} /\ patch.level # "sensitive"

MayUpdate(c, row, patch) ==
  \/ IsAdmin(c)
  \/ /\ Role[c] = "editor"
     /\ row.team = Team[c]
     /\ patch.team \in {Same, row.team}
     /\ row.level # "sensitive" /\ patch.level # "sensitive"

MayDelete(c, confirmed) == IsAdmin(c) /\ confirmed

-----------------------------------------------------------------------------
(* Creating *)

NameTaken(name, i) == \E j \in Stored \ {i} : datasets[j].name = name

\* Bound: creates under way, and a seed, find ids below MaxId.
RoomForIds ==
  \A i \in Stored \cup DOMAIN SeedRows :
    i + Cardinality({q \in Requests : req[q].pc = "insert"}) < MaxId

CreateStart(r, c, row) ==
  LET rq == [Idle EXCEPT !.op = "create", !.caller = c, !.row = row] IN
  /\ req[r].pc = "idle" /\ RoomForIds
  /\ req' = [req EXCEPT ![r] =
       CASE ~MayCreate(c, row) -> Answered(rq, "denied")
         [] MayCreate(c, row) /\ row.team \notin Owners -> Answered(rq, "invalid")
         [] MayCreate(c, row) /\ row.team \in Owners /\ NameTaken(row.name, NoId) ->
              Answered(rq, "conflict")
         [] OTHER -> [rq EXCEPT !.pc = "insert"]]
  /\ UNCHANGED catalogue

\* The unique index refuses the row of a create that lost the race.
InsertConflicts(r) ==
  /\ req[r].pc = "insert" /\ NameTaken(req[r].row.name, NoId)
  /\ req' = [req EXCEPT ![r] = Answered(@, "error")]
  /\ UNCHANGED catalogue

Insert(r) ==
  /\ req[r].pc = "insert" /\ ~NameTaken(req[r].row.name, NoId)
  /\ \E i \in Ids :
       /\ \A j \in Stored : j < i
       /\ i = 1 \/ i - 1 \in Stored
       /\ datasets' = [datasets EXCEPT ![i] = req[r].row]
       /\ req' = [Touched({i}) EXCEPT ![r] =
            [Idle EXCEPT !.pc = "refresh", !.id = i, !.committed = TRUE]]
  /\ UNCHANGED <<lineage, raced>>

\* db.refresh after the commit: the row may be gone again.
Refresh(r) ==
  /\ req[r].pc = "refresh"
  /\ req' = [req EXCEPT ![r] =
       Answered(@, IF req[r].id \in Stored THEN "ok" ELSE "error")]
  /\ UNCHANGED catalogue

-----------------------------------------------------------------------------
(* Finding, updating and deleting *)

\* The rule-based agent searches as its caller and goes on with the first hit.
AgentFind(r, c, i, op) ==
  /\ req[r].pc = "idle" /\ i \in Visible(c)
  /\ \E confirmed \in BOOLEAN, patch \in Patches :
       /\ op = "delete" => patch = Untouched
       /\ op = "update" => ~confirmed /\ patch.level \in {"open", "sensitive"}
                           /\ patch.name = Same /\ patch.team = Same
       /\ req' = [req EXCEPT ![r] =
            [Idle EXCEPT !.pc = "found", !.op = op, !.caller = c, !.id = i,
                         !.confirmed = confirmed, !.patch = patch]]
  /\ UNCHANGED catalogue

\* The endpoint reads the row and decides.
Decided(rq) ==
  LET row == datasets[rq.id]
      allowed == IF rq.op = "update" THEN MayUpdate(rq.caller, row, rq.patch)
                                     ELSE MayDelete(rq.caller, rq.confirmed)
  IN CASE row = NoRow -> Answered(rq, "missing")
       [] row # NoRow /\ ~allowed -> Answered(rq, "denied")
       [] row # NoRow /\ allowed /\ rq.patch.team \notin Owners \cup {Same} ->
            Answered(rq, "invalid")
       [] OTHER -> [rq EXCEPT !.pc = "write", !.row = row]

Ask(r, c, i, op) ==
  /\ req[r].pc = "idle"
  /\ \E confirmed \in BOOLEAN, patch \in Patches :
       /\ IF op = "delete" THEN patch = Untouched ELSE ~confirmed
       /\ req' = [req EXCEPT ![r] =
            Decided([Idle EXCEPT !.op = op, !.caller = c, !.id = i,
                                 !.confirmed = confirmed, !.patch = patch])]
  /\ UNCHANGED catalogue

AskFound(r) ==
  /\ req[r].pc = "found"
  /\ req' = [req EXCEPT ![r] = Decided(@)]
  /\ UNCHANGED catalogue

\* The UPDATE names the columns whose value differs from the one read.
Written(rq, stored) ==
  [f \in DOMAIN stored |->
     IF rq.patch[f] \notin {Same, rq.row[f]} THEN rq.patch[f] ELSE stored[f]]

\* No row with that id any more, or the name is taken.
Refused(rq) ==
  \/ rq.id \notin Stored
  \/ /\ rq.patch.name \notin {Same, rq.row.name}
     /\ NameTaken(rq.patch.name, rq.id)

\* (mutant: a failed update is reported as done)
UpdateSwallowed(r) ==
  /\ req[r].pc = "write" /\ req[r].op = "update" /\ Refused(req[r])
  /\ req' = [req EXCEPT ![r] = Answered(@, "ok")]
  /\ UNCHANGED catalogue

UpdateFails(r) ==
  /\ req[r].pc = "write" /\ req[r].op = "update" /\ Refused(req[r])
  /\ req' = [req EXCEPT ![r] = Answered(@, "error")]
  /\ UNCHANGED catalogue

Update(r) ==
  LET i == req[r].id IN
  /\ req[r].pc = "write" /\ req[r].op = "update" /\ ~Refused(req[r])
  /\ datasets' = [datasets EXCEPT ![i] = Written(req[r], @)]
  /\ req' = [Touched({i}) EXCEPT ![r] =
       [Idle EXCEPT !.pc = "refresh", !.id = i, !.committed = TRUE,
                    !.overlapped = req[r].overlapped]]
  /\ UNCHANGED <<lineage, raced>>

\* (mutant: only the edges that lead into the dataset go with it)
DownstreamOnly(i) == {e \in lineage : e[2] # i}
EdgesWithout(i) == {e \in lineage : e[1] # i /\ e[2] # i}

\* Lineage, columns and row in one transaction, whatever row has the id now.
Delete(r) ==
  LET i == req[r].id IN
  /\ req[r].pc = "write" /\ req[r].op = "delete"
  /\ datasets' = [datasets EXCEPT ![i] = NoRow]
  /\ lineage' = EdgesWithout(i) /\ raced' = raced \cap lineage'
  /\ req' = [Touched({i}) EXCEPT ![r] =
       Answered([req[r] EXCEPT !.committed = i \in Stored], "ok")]

-----------------------------------------------------------------------------
(* Seeding: at the start of the service and before every MCP tool call. *)

SeedCount(r) ==
  /\ req[r].pc = "idle" /\ Stored = {}
  /\ req' = [req EXCEPT ![r] = [Idle EXCEPT !.pc = "counted", !.op = "seed"]]
  /\ UNCHANGED catalogue

\* Each merge is one SELECT of a record's id; the datasets come in the order of
\* their ids, then the lineage, of which the order makes no difference.
MergeRow(r) ==
  /\ req[r].pc = "counted"
  /\ \E i \in DOMAIN SeedRows :
       /\ req[r].seen[i] = Unread
       /\ \A j \in DOMAIN SeedRows : j < i => req[r].seen[j] # Unread
       /\ req' = [req EXCEPT ![r].seen[i] = datasets[i]]
  /\ UNCHANGED catalogue

RowsMerged(rq) == \A i \in DOMAIN SeedRows : rq.seen[i] # Unread

MergeEdge(r) ==
  /\ req[r].pc = "counted" /\ RowsMerged(req[r])
  /\ \E e \in SeedEdges :
       /\ req[r].edges[e] = "unread"
       /\ req' = [req EXCEPT ![r].edges[e] = IF e \in lineage THEN "found" ELSE "absent"]
  /\ UNCHANGED catalogue

Merged(rq) == RowsMerged(rq) /\ \A e \in SeedEdges : rq.edges[e] # "unread"

\* The flush inserts what was absent and updates what was different; a record
\* that was found equal is not written.
InsertedRows(rq) == {i \in DOMAIN SeedRows : rq.seen[i] = NoRow}
UpdatedRows(rq) == {i \in DOMAIN SeedRows : rq.seen[i] \notin {NoRow, SeedRows[i]}}
InsertedEdges(rq) == {e \in SeedEdges : rq.edges[e] = "absent"}

Renamed(rq) == {i \in UpdatedRows(rq) : rq.seen[i].name # SeedRows[i].name}

\* The unique index refuses a name that another row has at that statement: the
\* updates run in the order of the ids, then the inserts.
NamesClash(rq) ==
  \E i \in Renamed(rq) \cup InsertedRows(rq) :
    \E j \in Stored \ {i} :
      /\ datasets[j].name = SeedRows[i].name
      /\ j \in Renamed(rq) => i \in Renamed(rq) /\ i < j

\* An insert finds its key taken, an update finds no row, or a name is taken.
FlushRefused(rq) ==
  \/ InsertedRows(rq) \cap Stored # {}
  \/ ~(UpdatedRows(rq) \subseteq Stored)
  \/ InsertedEdges(rq) \cap lineage # {}
  \/ NamesClash(rq)

\* The whole seed is rolled back.  An overlapped one may fail on what is not
\* modelled too: other columns of a row that is gone, or the rows of schemas.
SeedFails(r) ==
  /\ req[r].pc = "counted" /\ Merged(req[r])
  /\ FlushRefused(req[r]) \/ req[r].overlapped
  /\ req' = [req EXCEPT ![r] = Answered(@, "error")]
  /\ UNCHANGED catalogue

\* The columns of a row that the seed and the read agree on stay as they are.
Reseeded(rq, i) ==
  [f \in DOMAIN SeedRows[i] |->
     IF rq.seen[i][f] # SeedRows[i][f] THEN SeedRows[i][f] ELSE datasets[i][f]]

\* Another seed under way is overlapped whatever it has read: schemas, too.
Seed(r) ==
  LET rq == req[r]
      inserted == InsertedRows(rq)  updated == UpdatedRows(rq)
      touched == Touched(inserted \cup updated)
  IN
  /\ rq.pc = "counted" /\ Merged(rq) /\ ~FlushRefused(rq)
  /\ datasets' = [i \in Ids |->
       IF i \in inserted THEN SeedRows[i]
       ELSE IF i \in updated THEN Reseeded(rq, i) ELSE datasets[i]]
  /\ lineage' = lineage \cup InsertedEdges(rq)
  /\ raced' = raced \cup (IF rq.overlapped THEN InsertedEdges(rq) ELSE {})
  /\ req' = [q \in Requests |->
       IF q = r THEN Answered([rq EXCEPT !.committed = TRUE], "ok")
       ELSE IF req[q].pc = "counted" THEN [req[q] EXCEPT !.overlapped = TRUE]
       ELSE touched[q]]

\* The response leaves the service.
Respond(r) ==
  /\ req[r].pc = "done"
  /\ req' = [req EXCEPT ![r] = Idle]
  /\ UNCHANGED catalogue

-----------------------------------------------------------------------------
Next ==
  \E r \in Requests :
    \/ \E c \in Callers :
         \/ \E row \in NewRows : CreateStart(r, c, row)
         \/ \E i \in Ids, op \in {"update", "delete"} :
              AgentFind(r, c, i, op) \/ Ask(r, c, i, op)
    \/ AskFound(r) \/ InsertConflicts(r) \/ Insert(r) \/ Refresh(r)
    \/ UpdateFails(r) \/ Update(r) \/ Delete(r)
    \/ SeedCount(r) \/ MergeRow(r) \/ MergeEdge(r) \/ SeedFails(r) \/ Seed(r)
    \/ Respond(r)

Spec == Init /\ [][Next]_vars
-----------------------------------------------------------------------------
(* Properties *)

TypeOK ==
  /\ datasets \in [Ids -> Row \cup {NoRow}]
  /\ lineage \in SUBSET (Ids \X Ids) /\ raced \in SUBSET lineage
  /\ req \in [Requests -> Request]

\* What a committed write of caller c may have done to a row.  An editor's
\* write never moves a dataset to another team and never makes it sensitive;
\* it lands on another team's or on a sensitive row only if somebody else
\* committed a write to that id after the editor's request had read it.
Lawful(rq, old, new) ==
  LET c == rq.caller IN
  CASE rq.op = "create" ->
         old = NoRow /\ Role[c] # "viewer" /\
         (~IsAdmin(c) => new.team = Team[c] /\ new.level # "sensitive")
    [] rq.op = "delete" -> IsAdmin(c) /\ rq.confirmed
    [] rq.op = "update" ->
         \/ IsAdmin(c)
         \/ /\ Role[c] = "editor" /\ old # NoRow
            /\ new.team = old.team /\ new.level \in {old.level, "open", "unlisted"}
            /\ \/ rq.overlapped
               \/ old.team = Team[c] /\ old.level # "sensitive"
    [] OTHER -> rq.op = "seed"

\* Every change of the catalogue, also one made through an agent or an MCP
\* tool, is lawful for the caller whose request made it.
PolicyHolds ==
  [][\A i \in Ids : datasets'[i] # datasets[i] =>
       \E r \in Requests :
         ~req[r].committed /\ req'[r].committed
           /\ Lawful(req[r], datasets[i], datasets'[i])]_vars

\* However creates, renames, deletes and seeding interleave: names stay
\* unique, and a lineage edge dangles (foreign keys are not enforced) only if a
\* seed inserted it after another commit on a row it had merged: a delete then.
CatalogueConsistent ==
  /\ \A i, j \in Stored : datasets[i].name = datasets[j].name => i = j
  /\ \A e \in lineage \ raced : e[1] \in Stored /\ e[2] \in Stored

\* The status a structured task reports for a service response.  A server error
\* is raised through the task, which ends in an error of its own and reports no
\* status: it counts as failed here.
TaskStatus(code) ==
  CASE code = "ok" -> "completed" [] code = "denied" -> "blocked"
    [] OTHER -> "failed"

\* The reply tells what happened: a blocked request changed nothing; a task
\* reported completed took effect and one reported failed did not, unless
\* another write came between its steps (a delete of a row that is gone, a
\* committed row that db.refresh no longer finds).
RepliesTrue ==
  \A r \in Requests : req[r].pc = "done" =>
    /\ TaskStatus(req[r].code) = "blocked" => ~req[r].committed
    /\ req[r].overlapped \/ (req[r].committed <=> TaskStatus(req[r].code) = "completed")
=============================================================================

---------------------------- MODULE VideoProvider ----------------------------
(***************************************************************************)
(* The mock video provider: generation jobs, uploaded assets, webhook      *)
(* endpoints, the deliveries a finished job makes, and what the API shows  *)
(* of them (MockVideoProviderStore, _advance_video_job,                    *)
(* _dispatch_webhooks and the endpoints of create_app).                    *)
(*                                                                         *)
(* A job is a background task of the event loop.  It parks in two sleeps,  *)
(* which a job without a delay skips, and in each callback, which a thread *)
(* sends; the endpoints may be patched, rotated and deleted meanwhile.     *)
(* All state is in memory and goes with the process, so no crash appears.  *)
(*                                                                         *)
(* A definition marked (mutant) is no part of the specification: it is the *)
(* slip the definition after it guards against, kept to show that the      *)
(* properties notice it.                                                   *)
(***************************************************************************)
EXTENDS Integers, FiniteSets, SequencesExt

CONSTANTS
  Videos,      \* video ids a generation may draw (uuid4: never reused)
  Endpoints,   \* endpoint ids a registration may draw (uuid4: never reused)
  AnyVideo,    \* an endpoint without an entity_id
  Callback,    \* the callback_url of a generation, as a delivery's receiver
  Filters,     \* event filters in use
  Assets,      \* asset ids an upload may draw
  MaxEdits     \* bound on changes of registered endpoints

EventType == {"completed", "failed"}

ASSUME ProviderConstants ==
  /\ AnyVideo \notin Videos /\ Callback \notin Endpoints
  /\ Filters \subseteq SUBSET EventType /\ MaxEdits \in Nat

VARIABLES
  video,       \* [Videos -> the stored video, or what it will be before it is]
  job,         \* [Videos -> background task: pc and targets left to call]
  endpoints,   \* webhook_endpoints in the order of registration
  deliveries,  \* deliveries recorded, oldest first
  assets,      \* uploaded assets
  \* history
  edits,       \* changes of the endpoints so far; dates their urls and secrets
  plan,        \* [Videos -> the targets the job started out with]
  ended,       \* [Videos -> edits when the video ended]
  raised       \* videos whose job died of an exception of a sender

store == <<video, endpoints, deliveries, assets>>
vars == <<store, job, edits, plan, ended, raised>>

Video == [status: {"none", "pending", "processing"} \cup EventType,
          outcome: {"success", "fail"}, delay: BOOLEAN, callback: BOOLEAN]

\* events holds the types an endpoint listens to (a null filter: all of them);
\* a url or secret is named by the edit that set it.
Endpoint == [id: Endpoints, events: SUBSET EventType,
             entity: Videos \cup {AnyVideo}, url: Nat, secret: Nat]

Target == [to: Endpoints \cup {Callback}, url: Nat, secret: Nat]

\* A delivery row, with the receiver and the secret the call was signed with,
\* and the video as the event_data shows it; whether the call went well is
\* recorded too and changes nothing else.
Delivery == [video: Videos, event: EventType, shown: Video, target: Target]

\* pc "rendering" and "sending" are parked in the second sleep and in a call.
Job == [pc: {"none", "queued", "rendering", "sending", "done"}, targets: Seq(Target)]

NoVideo == [status |-> "none", outcome |-> "success", delay |-> FALSE, callback |-> FALSE]
NoJob == [pc |-> "none", targets |-> <<>>]

Init ==
  /\ video = [v \in Videos |-> NoVideo] /\ job = [v \in Videos |-> NoJob]
  /\ endpoints = <<>> /\ deliveries = <<>> /\ assets = {}
  /\ edits = 0 /\ plan = [v \in Videos |-> <<>>]
  /\ ended = [v \in Videos |-> 0] /\ raised = {}

-----------------------------------------------------------------------------
(* Generation jobs *)

\* A generation request; failWord: its prompt holds the words mock:fail.
Generation == [outcome: {"success", "fail"}, failWord: BOOLEAN,
               delay: BOOLEAN, callback: BOOLEAN]

\* The video a request asks for, and its session, in one go.
Pending(g) ==
  [status |-> "pending", outcome |-> IF g.failWord THEN "fail" ELSE g.outcome,
   delay |-> g.delay, callback |-> g.callback]

\* The response leaves; the task is queued behind it.
CreateVideo(v) ==
  /\ video[v].status = "none"
  /\ \E g \in Generation : video' = [video EXCEPT ![v] = Pending(g)]
  /\ job' = [job EXCEPT ![v].pc = "queued"]
  /\ UNCHANGED <<endpoints, deliveries, assets, edits, plan, ended, raised>>

\* update_video_status, under the lock; the job always finds its video.
WithStatus(v, status) == [video EXCEPT ![v].status = status]

\* The first sleep is over.
Advance(v) ==
  /\ job[v].pc = "queued" /\ video[v].delay
  /\ video' = WithStatus(v, "processing")
  /\ job' = [job EXCEPT ![v].pc = "rendering"]
  /\ UNCHANGED <<endpoints, deliveries, assets, edits, plan, ended, raised>>

\* The status a video ends with; the event is named after it.
End(v) == IF video[v].outcome = "fail" THEN "failed" ELSE "completed"

Matches(e, v) == End(v) \in e.events /\ e.entity \in {v, AnyVideo}

\* (mutant: every call is signed with the provider's own secret)
SignedAlike(e) == [to |-> e.id, url |-> e.url, secret |-> 0]

Signed(e) == [to |-> e.id, url |-> e.url, secret |-> e.secret]

\* The positions in S, in ascending order: a filter keeps the order of a list.
InOrder(S) ==
  [n \in 1..Cardinality(S) |-> CHOOSE i \in S : Cardinality({j \in S : j <= i}) = n]

\* _dispatch_webhooks takes down whom to call, and with which secret, once.
Targets(v) ==
  LET matching == InOrder({i \in DOMAIN endpoints : Matches(endpoints[i], v)}) IN
  (IF video[v].callback THEN <<[to |-> Callback, url |-> 0, secret |-> 0]>> ELSE <<>>)
    \o [n \in DOMAIN matching |-> Signed(endpoints[matching[n]])]

Calling(targets) ==
  [pc |-> IF targets = <<>> THEN "done" ELSE "sending", targets |-> targets]

\* (mutant: the calls go out before the status is set)
DispatchFirst(v) ==
  /\ job[v].pc = (IF video[v].delay THEN "rendering" ELSE "queued")
  /\ job' = [job EXCEPT ![v] = Calling(Targets(v))]
  /\ plan' = [plan EXCEPT ![v] = Targets(v)] /\ ended' = [ended EXCEPT ![v] = edits]
  /\ UNCHANGED <<video, endpoints, deliveries, assets, edits, raised>>

\* (mutant: a job without a delay is left to a sleep it never takes)
FinishDelayed(v) ==
  /\ job[v].pc = "rendering"
  /\ video' = WithStatus(v, End(v))
  /\ job' = [job EXCEPT ![v] = Calling(Targets(v))]
  /\ plan' = [plan EXCEPT ![v] = Targets(v)] /\ ended' = [ended EXCEPT ![v] = edits]
  /\ UNCHANGED <<endpoints, deliveries, assets, edits, raised>>

\* The video ends and its calls begin; without a delay both are one segment
\* with the start of the task.
Finish(v) ==
  /\ job[v].pc = (IF video[v].delay THEN "rendering" ELSE "queued")
  /\ video' = WithStatus(v, End(v))
  /\ job' = [job EXCEPT ![v] = Calling(Targets(v))]
  /\ plan' = [plan EXCEPT ![v] = Targets(v)] /\ ended' = [ended EXCEPT ![v] = edits]
  /\ UNCHANGED <<endpoints, deliveries, assets, edits, raised>>

Recorded(v) ==
  Append(deliveries, [video |-> v, event |-> End(v), shown |-> video[v],
                      target |-> Head(job[v].targets)])

\* (mutant: a failed call is tried again)
DeliverAgain(v) ==
  /\ job[v].pc = "sending"
  /\ deliveries' = Recorded(v)
  /\ \E ok \in BOOLEAN :
       job' = [job EXCEPT ![v] = IF ok THEN Calling(Tail(job[v].targets)) ELSE @]
  /\ Len(deliveries) < 3
  /\ UNCHANGED <<video, endpoints, assets, edits, plan, ended, raised>>

\* A call came back, with an answer or an error: it is recorded either way.
Deliver(v) ==
  /\ job[v].pc = "sending"
  /\ deliveries' = Recorded(v)
  /\ job' = [job EXCEPT ![v] = Calling(Tail(job[v].targets))]
  /\ UNCHANGED <<video, endpoints, assets, edits, plan, ended, raised>>

\* A sender raises what it does not catch (a malformed url): the task dies.
SenderRaises(v) ==
  /\ job[v].pc = "sending"
  /\ job' = [job EXCEPT ![v] = Calling(<<>>)]
  /\ raised' = raised \cup {v}
  /\ UNCHANGED <<store, edits, plan, ended>>

-----------------------------------------------------------------------------
(* Webhook endpoints *)

\* An id that was registered and deleted unseen by any job counts as a new one.
Register(id) ==
  /\ edits < MaxEdits /\ edits' = edits + 1
  /\ \A i \in DOMAIN endpoints : endpoints[i].id # id
  /\ \A v \in Videos : \A i \in DOMAIN plan[v] : plan[v][i].to # id
  /\ \E events \in Filters, entity \in Videos \cup {AnyVideo} :
       endpoints' = Append(endpoints, [id |-> id, events |-> events, entity |-> entity,
                                       url |-> edits', secret |-> edits'])
  /\ UNCHANGED <<video, job, deliveries, assets, plan, ended, raised>>

Patch(i) ==
  /\ edits < MaxEdits /\ edits' = edits + 1
  /\ \E url \in {endpoints[i].url, edits'}, events \in Filters \cup {endpoints[i].events},
        entity \in Videos \cup {AnyVideo} :
       endpoints' = [endpoints EXCEPT ![i].url = url, ![i].events = events,
                                      ![i].entity = entity]
  /\ UNCHANGED <<video, job, deliveries, assets, plan, ended, raised>>

Rotate(i) ==
  /\ edits < MaxEdits /\ edits' = edits + 1
  /\ endpoints' = [endpoints EXCEPT ![i].secret = edits']
  /\ UNCHANGED <<video, job, deliveries, assets, plan, ended, raised>>

Delete(i) ==
  /\ edits < MaxEdits /\ edits' = edits + 1
  /\ endpoints' = RemoveAt(endpoints, i)
  /\ UNCHANGED <<video, job, deliveries, assets, plan, ended, raised>>

-----------------------------------------------------------------------------
(* Assets, and what the API shows *)

\* An upload of up to 32 MB is kept; a larger one is refused and leaves nothing.
UploadAsset(a) ==
  /\ a \notin assets /\ assets' = assets \cup {a}
  /\ UNCHANGED <<video, endpoints, deliveries, job, edits, plan, ended, raised>>

\* GET /v1/video-generations/{session_id}: a session leads to its video.
GenerationStatus(v) ==
  IF video[v].status \in {"pending", "processing"} THEN "generating"
  ELSE video[v].status

\* GET /mock-files/{video_id}.mp4 or .jpg
FileAnswer(v) ==
  CASE video[v].status = "none" -> 404
    [] video[v].status = "completed" -> 200
    [] OTHER -> 409

\* What _video_data adds about a finished video.
Links(shown) == shown.status = "completed"
Failure(shown) == shown.status = "failed"

\* GET /v1/webhooks/events?entity_id=: newest first, one page of them.
EventPage(v, limit) ==
  LET mine == InOrder({i \in DOMAIN deliveries : deliveries[i].video = v})
      newest == Reverse(mine)
  IN [n \in 1..(IF limit < Len(mine) THEN limit ELSE Len(mine)) |-> deliveries[newest[n]]]

-----------------------------------------------------------------------------
Work(v) == Advance(v) \/ Finish(v) \/ Deliver(v) \/ SenderRaises(v)

Next ==
  \/ \E v \in Videos : CreateVideo(v) \/ Work(v)
  \/ \E id \in Endpoints : Register(id)
  \/ \E a \in Assets : UploadAsset(a)
  \/ \E i \in DOMAIN endpoints : Patch(i) \/ Rotate(i) \/ Delete(i)

\* Sleeps end, and a call ends by its timeout at the latest.
Fairness == \A v \in Videos : WF_vars(Work(v))

Spec == Init /\ [][Next]_vars
FairSpec == Spec /\ Fairness

-----------------------------------------------------------------------------
(* Properties *)

TypeOK ==
  /\ video \in [Videos -> Video] /\ job \in [Videos -> Job]
  /\ endpoints \in Seq(Endpoint) /\ deliveries \in Seq(Delivery)
  /\ assets \in SUBSET Assets
  /\ edits \in Nat /\ plan \in [Videos -> Seq(Target)]
  /\ ended \in [Videos -> Nat] /\ raised \in SUBSET Videos

\* The receivers called for a video, in order, as the event log shows them.
Made(v) ==
  LET page == Reverse(EventPage(v, Len(deliveries))) IN
  [i \in DOMAIN page |-> page[i].target]

\* The receivers a job took down are called once each, in order, and the event
\* log loses none while the task lives; after an exception the rest is never
\* called.
CalledOnceInOrder ==
  \A v \in Videos :
    IF v \in raised
    THEN \E n \in 0..Len(plan[v]) : Made(v) = SubSeq(plan[v], 1, n)
    ELSE Made(v) \o job[v].targets = plan[v]

\* A consumer that reacts to an event finds everything as the event says: its
\* data and the generation have the event's status, and the file of a
\* completed video is served, never 409.
EventsMatchPoll ==
  \A i \in DOMAIN deliveries :
    LET d == deliveries[i] IN
    /\ GenerationStatus(d.video) = d.event
    /\ d.event = "completed" => Links(d.shown) /\ FileAnswer(d.video) = 200
    /\ d.event = "failed" => Failure(d.shown)

\* A call with an outdated url or secret, or to an endpoint that is gone, is
\* explained by an edit made while the job was calling.
StaleOnlyAfterEdit ==
  [][\A v \in Videos :
       LET t == Head(job[v].targets) IN
       Deliver(v) /\ t.to # Callback /\ edits = ended[v] =>
         \E i \in DOMAIN endpoints :
           endpoints[i].id = t.to /\ endpoints[i].url = t.url /\ endpoints[i].secret = t.secret]_vars

\* Every generation ends, and so does its task.
JobsEnd == \A v \in Videos : job[v].pc = "queued" ~> job[v].pc = "done"
=============================================================================

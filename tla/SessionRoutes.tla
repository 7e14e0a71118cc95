----------------------------- MODULE SessionRoutes -----------------------------
(***************************************************************************)
(* Routing of Windows' audio sessions in the engine host.  Windows creates *)
(* sessions and reports them by callbacks into the watcher                 *)
(* (windows_audio_session_watcher.cpp); the control loop of the host       *)
(* (engine_preview.cpp) follows the default endpoint, has the coordinator  *)
(* (windows_audio_session_route.cpp) enumerate, publishes the catalog,     *)
(* keeps one loopback capture per routed process and carries out the       *)
(* commands of clients, who name a session by a handle of the catalog they *)
(* read last.                                                              *)
(*                                                                         *)
(* The loop polls, syncs the captures, drains commands and delivers, each  *)
(* at its own pace; here it turns from idle to any of them.  Callbacks and *)
(* clients run between any two steps.                                      *)
(***************************************************************************)
EXTENDS SessionRules

CONSTANTS
    Endpoints, NoEndpoint,
    Order,            \* the order in which Windows enumerates the sessions
    Running,          \* the sets of sessions that may run before the host starts
    PendingCapacity, CatalogCapacity, MaxSources, FailureLimit,
    Rules,            \* the rules that clients send
    MaxEvents         \* bound: changes and failures of Windows, and commands

ASSUME SessionAssumption ==
    /\ IsFiniteSet(Sessions) /\ Order \in Seq(Sessions) /\ Order # <<>>
    /\ \A s \in Sessions : About[s].endpoint \in Endpoints
    /\ {RuleCapacity, SessionCapacity, CatalogCapacity, MaxSources} \subseteq Nat

VARIABLES
    live,        \* Windows: the state of each session
    default,     \* Windows: the default render endpoint
    callbacks,   \* where the report of each session's creation is
    watcher,     \* [endpoint, open, pending, sequence, last]
    coordinator, \* [bound, rules, registry, graph, generation, degraded]
    host,        \* [phase, bound, endpoint, target]: the loop and SessionRoutingState
    catalog,     \* the published snapshot: [sequence, generation, sessions]
    mailbox,     \* commands that clients built from the catalog they read
    batch,       \* [queue, expected, dirty]: the commands being drained
    strayed,     \* sessions that a command reached while it named another
    sources,     \* the capture slots: [active, pid, lane, running, failures]
    delivery,    \* [ready, graph]: the graph the captures are rendered by
    budget       \* events still to come

windowsVars == <<live, default, callbacks>>
captureVars == <<sources, delivery>>
sessionVars == <<windowsVars, watcher, coordinator, host, catalog, mailbox, batch,
                 strayed, captureVars, budget>>

\* Mutant: bind and unbind leave the number that was polled last.
WatchingStale(e) == [endpoint |-> e, open |-> e # NoEndpoint, pending |-> <<>>,
                     sequence |-> 0, last |-> watcher.last]
Watching(e) == [endpoint |-> e, open |-> e # NoEndpoint, pending |-> <<>>,
                sequence |-> 0, last |-> 0]

Unbound(rules) == [bound |-> FALSE, rules |-> rules, registry |-> <<>>, graph |-> <<>>,
                   generation |-> 0, degraded |-> FALSE]
NoCatalog == [sequence |-> 0, generation |-> 0, sessions |-> <<>>]
NoSource == [active |-> FALSE, pid |-> NoPid, lane |-> NoLane, running |-> FALSE,
             failures |-> 0]

SessionInit ==
    /\ live \in {[s \in Sessions |-> IF s \in R THEN "active" ELSE "absent"] : R \in Running}
    /\ default = About[Order[1]].endpoint
    /\ callbacks = [s \in Sessions |-> "none"]
    /\ watcher = [endpoint |-> NoEndpoint, open |-> FALSE, pending |-> <<>>,
                  sequence |-> 0, last |-> 0]
    /\ coordinator = Unbound(EmptyStore)
    /\ host = [phase |-> "idle", bound |-> FALSE, endpoint |-> NoEndpoint,
               target |-> NoEndpoint]
    /\ catalog = NoCatalog
    /\ mailbox = {} /\ batch = [queue |-> <<>>, expected |-> 0, dirty |-> FALSE]
    /\ strayed = {}
    /\ sources = [k \in 1..MaxSources |-> NoSource]
    /\ delivery = [ready |-> FALSE, graph |-> <<>>]
    /\ budget = MaxEvents

Spend(n) == n <= budget /\ budget' = budget - n
MayFail(fails) == Spend(IF fails THEN 1 ELSE 0)

(***************************************************************************)
(* Windows.  It reports the creation of a session on the endpoint the      *)
(* watcher is registered with, and no other change of a session.           *)
(***************************************************************************)
Create(s) ==
    /\ live[s] = "absent" /\ Spend(1)
    /\ \E state \in {"active", "inactive"} : live' = [live EXCEPT ![s] = state]
    /\ callbacks' = IF watcher.endpoint = About[s].endpoint
                    THEN [callbacks EXCEPT ![s] = "called"] ELSE callbacks
    /\ UNCHANGED <<default, watcher, coordinator, host, catalog, mailbox, batch,
                   strayed, captureVars>>

Change(s) ==
    /\ live[s] \in {"active", "inactive"} /\ Spend(1)
    /\ \E state \in {"active", "inactive", "gone"} \ {live[s]} :
           live' = [live EXCEPT ![s] = state]
    /\ UNCHANGED <<default, callbacks, watcher, coordinator, host, catalog, mailbox,
                   batch, strayed, captureVars>>

DefaultMoves ==
    /\ \E e \in (Endpoints \cup {NoEndpoint}) \ {default} : default' = e
    /\ Spend(1)
    /\ UNCHANGED <<live, callbacks, watcher, coordinator, host, catalog, mailbox,
                   batch, strayed, captureVars>>

(***************************************************************************)
(* OnSessionCreated, on a thread of Windows: through the gate, then into   *)
(* the queue unless it is full, the change announced and out again.        *)
(***************************************************************************)
Inside == {s \in Sessions : callbacks[s] = "entered"}

try_enter_callback(s) ==
    /\ callbacks[s] = "called"
    /\ callbacks' = [callbacks EXCEPT ![s] = IF watcher.open THEN "entered" ELSE "none"]
    /\ UNCHANGED watcher

enqueue_pending_session(s) ==
    /\ callbacks[s] = "entered"
    /\ callbacks' = [callbacks EXCEPT ![s] = "none"]
    /\ watcher' = [watcher EXCEPT !.sequence = @ + 1,
                      !.pending = IF Len(@) < PendingCapacity THEN Append(@, s) ELSE @]

OnSessionCreated(s) ==
    /\ try_enter_callback(s) \/ enqueue_pending_session(s)
    /\ UNCHANGED <<live, default, coordinator, host, catalog, mailbox, batch, strayed,
                   captureVars, budget>>

(***************************************************************************)
(* The coordinator: an enumeration meets the queued sessions, then those   *)
(* that Windows lists.                                                     *)
(***************************************************************************)
Enumeration ==
    LET here == {i \in DOMAIN Order : /\ live[Order[i]] \in {"active", "inactive"}
                                      /\ About[Order[i]].endpoint = watcher.endpoint}
    IN  Met(watcher.pending \o Picked(Order, here))

\* Mutant: the candidate is taken as it was enumerated.
KeptNot(registry, candidate) == candidate
\* A session that is active keeps the lane it had.
Kept(registry, candidate) ==
    [i \in DOMAIN candidate |->
        LET e == candidate[i]
            previous == Entry(registry, e.session)
            lane == IF previous = {} THEN NoLane ELSE registry[FirstOf(previous)].lane
        IN  IF e.active /\ lane # NoLane THEN [e EXCEPT !.lane = lane] ELSE e]

\* The coordinator once a registry is committed to it, or cannot be.
Degraded(c) == [c EXCEPT !.degraded = TRUE]
Commit(c, registry) ==
    LET routed == Routed(registry)
    IN  IF routed = <<>> \/ build_session_route_graph(routed)
        THEN [c EXCEPT !.registry = registry, !.graph = routed,
                       !.generation = @ + 1, !.degraded = FALSE]
        ELSE Degraded(c)

\* What a registry, enumerated without a failure or not, makes of a coordinator.
Refreshed(c, registry, fails) == IF fails THEN Degraded(c) ELSE Commit(c, registry)

set_rules_and_refresh(c, rules, registry, fails) ==
    LET candidate == Commit([c EXCEPT !.rules = rules], registry)
    IN  IF fails \/ candidate.degraded THEN Degraded(c) ELSE candidate

copy_graph(c) == IF c.degraded THEN <<>> ELSE c.graph
Plan(c) == IF c.bound /\ copy_graph(c) # <<>> THEN build_process_loopback_plan(c.graph)
           ELSE [refused |-> FALSE, entries |-> <<>>]

\* make_session_catalog_snapshot and the store's publish, from a coordinator.
publish_session_catalog(c) ==
    catalog' = IF /\ c.bound /\ ~c.degraded /\ c.generation # 0
                  /\ Len(c.registry) <= CatalogCapacity
               THEN [sequence |-> catalog.sequence + 1, generation |-> c.generation,
                     sessions |-> [i \in DOMAIN c.registry |-> c.registry[i].session]]
               ELSE catalog

(***************************************************************************)
(* The poll of the loop.                                                   *)
(***************************************************************************)
Phase(p) == host.phase = p
Goto(p) == host' = [host EXCEPT !.phase = p]

SameEndpoint == host.bound /\ default = host.endpoint

\* poll_and_refresh consumes the announcement before it enumerates.
Poll ==
    /\ Phase("idle") /\ SameEndpoint
    /\ watcher.sequence \notin {0, watcher.last}
    /\ watcher' = [watcher EXCEPT !.last = watcher.sequence]
    /\ Goto("polled")
    /\ UNCHANGED <<coordinator, catalog, budget>>

\* unbind closes the gate, then waits for the callbacks inside.
Unbind(target) ==
    /\ watcher' = [watcher EXCEPT !.open = FALSE]
    /\ host' = [host EXCEPT !.phase = "unbinding", !.target = target]

FollowDefault ==
    /\ Phase("idle") /\ ~SameEndpoint
    /\ Unbind(default)
    /\ UNCHANGED <<coordinator, catalog, budget>>

Rebind ==
    /\ Phase("unbinding") /\ Inside = {}
    /\ \E fails \in BOOLEAN :
           LET e == IF fails THEN NoEndpoint ELSE host.target
           IN  /\ fails => host.target # NoEndpoint
               /\ MayFail(fails)
               /\ watcher' = Watching(e)
               /\ coordinator' = [Unbound(coordinator.rules) EXCEPT !.bound = e # NoEndpoint]
               /\ host' = [host EXCEPT !.phase = IF e = NoEndpoint THEN "idle" ELSE "bound",
                                       !.bound = e # NoEndpoint, !.endpoint = e,
                                       !.target = NoEndpoint]
    /\ UNCHANGED catalog

\* A refresh that degrades right after a bind unbinds again; one after a
\* poll only has the next poll bind anew.
Refresh ==
    /\ host.phase \in {"bound", "polled"}
    /\ \E fails \in BOOLEAN, met \in {Enumeration} :
       \E registry \in {Kept(coordinator.registry, Registry(coordinator.rules, live, met))} :
           /\ MayFail(fails)
           /\ coordinator' = Refreshed(coordinator, registry,
                                       fails \/ ~Enumerable(coordinator.rules, met))
           /\ publish_session_catalog(coordinator')
           /\ IF coordinator'.degraded /\ Phase("bound")
              THEN /\ watcher' = [watcher EXCEPT !.open = FALSE, !.pending = <<>>]
                   /\ host' = [host EXCEPT !.phase = "unbinding", !.target = NoEndpoint]
              ELSE /\ watcher' = [watcher EXCEPT !.pending = <<>>]
                   /\ host' = [host EXCEPT !.phase = "idle",
                                           !.bound = ~coordinator'.degraded]

PollDue ==
    /\ Poll \/ FollowDefault
    /\ UNCHANGED <<windowsVars, mailbox, batch, strayed, captureVars>>
PollGoesOn ==
    /\ Rebind \/ Refresh
    /\ UNCHANGED <<windowsVars, mailbox, batch, strayed, captureVars>>

(***************************************************************************)
(* The captures: stop those the plan no longer has, start those it has.    *)
(* A refused plan leaves them all as they are.                             *)
(***************************************************************************)
\* Mutant: a capture is recognised by its process alone.
ServesProcess(source, request) == source.active /\ source.pid = request.pid
Serves(source, request) ==
    source.active /\ source.pid = request.pid /\ source.lane = request.lane

StillWanted(plan) == {k \in DOMAIN sources : \E r \in ToSet(plan.entries) : Serves(sources[k], r)}
Missing(plan) ==
    Picked(plan.entries, {i \in DOMAIN plan.entries :
                             ~\E k \in DOMAIN sources : Serves(sources[k], plan.entries[i])})
FreeSlots(staying) == InOrder(DOMAIN sources \ staying)

sync_delivery_sources(plan) ==
    \E staying \in {StillWanted(plan)}, missing \in {Missing(plan)} :
    \E free \in {FreeSlots(staying)} :
    \E failing \in SUBSET (DOMAIN free \cap DOMAIN missing) :
        /\ Spend(Cardinality(failing))
        /\ sources' = [k \in DOMAIN sources |->
               IF k \in staying THEN sources[k]
               ELSE IF \E i \in DOMAIN missing \ failing : i \in DOMAIN free /\ free[i] = k
               THEN LET r == missing[CHOOSE i \in DOMAIN free : free[i] = k]
                    IN  [active |-> TRUE, pid |-> r.pid, lane |-> r.lane,
                         running |-> TRUE, failures |-> 0]
               ELSE NoSource]

SyncDue ==
    /\ Phase("idle")
    /\ delivery' = IF ~coordinator.bound THEN [delivery EXCEPT !.ready = FALSE]
                   ELSE IF copy_graph(coordinator) = <<>> THEN delivery
                   ELSE [ready |-> TRUE, graph |-> coordinator.graph]
    /\ \E plan \in {Plan(coordinator)} :
           IF plan.refused THEN UNCHANGED <<sources, budget>> ELSE sync_delivery_sources(plan)
    /\ UNCHANGED <<windowsVars, watcher, coordinator, host, catalog, mailbox, batch, strayed>>

Failed(source) ==
    IF source.failures < FailureLimit THEN [source EXCEPT !.failures = @ + 1]
    ELSE [source EXCEPT !.active = FALSE, !.pid = NoPid, !.failures = @ + 1]

\* A capture whose lane the graph has is read once per turn; one that is no
\* longer running is given up after some turns.
Deliver ==
    /\ Phase("idle")
    /\ LET read == IF delivery.ready /\ host.bound
                   THEN {k \in DOMAIN sources : /\ sources[k].active
                                                /\ \E e \in ToSet(delivery.graph) : e.lane = sources[k].lane}
                   ELSE {}
           broken == {k \in read : ~sources[k].running}
       IN  \E breaking \in SUBSET (read \ broken) :
               /\ Spend(Cardinality(breaking))
               /\ sources' = [k \in DOMAIN sources |->
                      IF k \in breaking THEN [sources[k] EXCEPT !.running = FALSE]
                      ELSE IF k \in broken THEN Failed(sources[k]) ELSE sources[k]]
    /\ UNCHANGED <<windowsVars, watcher, coordinator, host, catalog, mailbox, batch, strayed,
                   delivery>>

(***************************************************************************)
(* Clients.  A handle is the catalog's generation with an index; what it   *)
(* names is what the client saw at that index.  Between the catalog that a *)
(* client reads and the arrival of its command anything may happen.        *)
(***************************************************************************)
ByHandle(kind, lane, i) ==
    [kind |-> kind, lane |-> lane, sequence |-> catalog.sequence,
     generation |-> catalog.generation, index |-> i, session |-> catalog.sessions[i]]
Listed == DOMAIN catalog.sessions
Commands ==
    {ByHandle("route", l, i) : l \in Lanes, i \in Listed}
    \cup {ByHandle("volume", NoLane, i) : i \in Listed}
    \cup {[kind |-> "upsert", rule |-> r, sequence |-> catalog.sequence] : r \in Rules}
    \cup {[kind |-> "remove", id |-> r.id, sequence |-> catalog.sequence] : r \in Rules}
    \cup {[kind |-> "clear", sequence |-> catalog.sequence]}

Send ==
    /\ catalog.sequence # 0 /\ Spend(1)
    /\ \E command \in Commands \ mailbox : mailbox' = mailbox \cup {command}
    /\ UNCHANGED <<windowsVars, watcher, coordinator, host, catalog, batch, strayed,
                   captureVars>>

(***************************************************************************)
(* The drain: what has arrived is queued, or refused while unbound; then   *)
(* each command is carried out if it was built from the newest catalog,    *)
(* counting the commits of the batch, and one catalog is published.        *)
(***************************************************************************)
BeginDrain ==
    /\ Phase("idle")
    /\ \E arrived \in SetToAllKPermutations(mailbox) \ {<<>>} :
           /\ batch' = [queue |-> IF host.bound THEN arrived ELSE <<>>,
                        expected |-> catalog.sequence, dirty |-> FALSE]
           /\ mailbox' = mailbox \ ToSet(arrived)
    /\ Goto(IF host.bound THEN "draining" ELSE "idle")
    /\ UNCHANGED <<watcher, coordinator, catalog, strayed, budget>>

Command == Head(batch.queue)
\* Mutant: a command is carried out whatever catalog it was built from.
CurrentAlways(command) == TRUE
Current(command) == command.sequence = batch.expected

\* The entry a handle stands for now.
Reaches(command) ==
    /\ ~coordinator.degraded
    /\ command.generation = coordinator.generation
    /\ command.index \in DOMAIN coordinator.registry
    /\ coordinator.registry[command.index].active

Stray(command) ==
    LET reached == coordinator.registry[command.index].session
    IN  strayed' = strayed \cup ({reached} \ {command.session})

Rebound == [coordinator.registry EXCEPT ![Command.index].lane = Command.lane]
bind_session_route_handle ==
    /\ Command.kind = "route" /\ Current(Command) /\ Reaches(Command)
    /\ build_session_route_graph(Routed(Rebound))
    /\ coordinator' = Commit(coordinator, Rebound)
    /\ batch' = [queue |-> Tail(batch.queue), expected |-> batch.expected + 1,
                 dirty |-> TRUE]
    /\ Stray(Command)
    /\ UNCHANGED <<watcher, budget>>

write_session_volume_handle ==
    /\ Command.kind = "volume" /\ Current(Command) /\ Reaches(Command)
    /\ batch' = [batch EXCEPT !.queue = Tail(@), !.dirty = TRUE]
    /\ Stray(Command)
    /\ UNCHANGED <<watcher, coordinator, budget>>

Candidate(rules) ==
    IF Command.kind = "upsert" THEN upsert(rules, Command.rule)
    ELSE IF Command.kind = "remove" THEN remove(rules, Command.id)
    ELSE EmptyStore
RuleStands ==
    \/ Command.kind = "upsert" /\ Accepted(coordinator.rules, Command.rule)
    \/ Command.kind = "remove" /\ Holding(coordinator.rules, Command.id) # {}
    \/ Command.kind = "clear"

apply_route_rule ==
    /\ Current(Command) /\ RuleStands
    /\ \E fails \in BOOLEAN, met \in {Enumeration}, rules \in {Candidate(coordinator.rules)} :
       \E registry \in {Registry(rules, live, met)} :
           /\ MayFail(fails)
           /\ coordinator' = set_rules_and_refresh(coordinator, rules, registry,
                                                   fails \/ ~Enumerable(rules, met))
           /\ watcher' = [watcher EXCEPT !.pending = <<>>]
           /\ batch' = IF coordinator'.degraded THEN [batch EXCEPT !.queue = Tail(@)]
                       ELSE [queue |-> Tail(batch.queue), expected |-> batch.expected + 1,
                             dirty |-> TRUE]
    /\ UNCHANGED strayed

Skipped ==
    /\ \/ ~Current(Command)
       \/ Command.kind \in {"route", "volume"} /\ ~Reaches(Command)
       \/ /\ Command.kind = "route" /\ Reaches(Command)
          /\ ~build_session_route_graph(Routed(Rebound))
       \/ Command.kind \in {"upsert", "remove", "clear"} /\ ~RuleStands
    /\ batch' = [batch EXCEPT !.queue = Tail(@)]
    /\ UNCHANGED <<watcher, coordinator, strayed, budget>>

DrainOne ==
    /\ Phase("draining") /\ batch.queue # <<>>
    /\ \/ bind_session_route_handle \/ write_session_volume_handle
       \/ apply_route_rule \/ Skipped
    /\ UNCHANGED <<host, catalog, mailbox>>

EndDrain ==
    /\ Phase("draining") /\ batch.queue = <<>>
    /\ IF batch.dirty THEN publish_session_catalog(coordinator) ELSE UNCHANGED catalog
    /\ batch' = [queue |-> <<>>, expected |-> 0, dirty |-> FALSE]
    /\ Goto("idle")
    /\ UNCHANGED <<watcher, coordinator, mailbox, strayed, budget>>

DrainDue == BeginDrain /\ UNCHANGED <<windowsVars, captureVars>>
DrainGoesOn == (DrainOne \/ EndDrain) /\ UNCHANGED <<windowsVars, captureVars>>

(***************************************************************************)
(* What the loop has begun it finishes; its timers make it poll, sync and  *)
(* deliver again and again; Windows finishes the callbacks it has begun.   *)
(***************************************************************************)
GoesOn == PollGoesOn \/ DrainGoesOn

SessionNext ==
    \/ PollDue \/ SyncDue \/ DrainDue \/ Deliver \/ GoesOn
    \/ \E s \in Sessions : Create(s) \/ Change(s) \/ OnSessionCreated(s)
    \/ DefaultMoves
    \/ Send

SessionFairness ==
    /\ WF_sessionVars(GoesOn)
    /\ SF_sessionVars(PollDue)
    /\ SF_sessionVars(SyncDue)
    /\ SF_sessionVars(Deliver)
    /\ WF_sessionVars(\E s \in Sessions : OnSessionCreated(s))

SessionSpec == SessionInit /\ [][SessionNext]_sessionVars /\ SessionFairness

-----------------------------------------------------------------------------
(***************************************************************************)
(* Properties.                                                             *)
(***************************************************************************)
\* A route or volume command reaches the session its client picked in the
\* catalog, and no other, however the endpoint, the registry and the numbers
\* of catalog and coordinator changed since (engine_preview.cpp:1151-1231).
RouteReachesNamedSession == strayed = {}

\* A refresh that a new session causes leaves every lane that was assigned to
\* a session still active as it was, the ones clients assigned by hand
\* included (windows_audio_session_route.cpp:248-262).
AssignedLaneSurvives ==
    [][(host.phase # "draining" /\ coordinator'.generation > coordinator.generation
        /\ coordinator.generation # 0)
       => \A i \in DOMAIN coordinator.registry, j \in DOMAIN coordinator'.registry :
              LET e == coordinator.registry[i] f == coordinator'.registry[j]
              IN  (e.session = f.session /\ f.active /\ e.lane # NoLane)
                  => f.lane = e.lane]_sessionVars

\* No process is captured twice and no lane is fed by two captures, over all
\* changes of routes and failures of captures (engine_preview.cpp:833-886).
OneCapturePerLane ==
    \A j, k \in DOMAIN sources :
        (j # k /\ sources[j].active /\ sources[k].active)
        => sources[j].pid # sources[k].pid /\ sources[j].lane # sources[k].lane

\* Once Windows and the clients are quiet (their events are bounded), either
\* routing is unbound again and again, or the published catalog has every
\* session that runs on the default endpoint: no creation is lost between gate,
\* queue, poll and rebind (windows_audio_session_watcher.cpp:244-251,639-647).
\* The catalog may list more than that: Windows reports creations only, so a
\* session that has ended stays until the next refresh finds it gone, and one
\* that was reported during a rebind may be taken for one of the new endpoint.
RunningHere ==
    {s \in Sessions : live[s] \in {"active", "inactive"} /\ About[s].endpoint = default}
SessionsAreSeen ==
    <>[](RunningHere \subseteq ToSet(catalog.sessions)) \/ []<>~host.bound

\* Once they are quiet, either routing is unbound again and again, or every
\* process of the plan is captured for its lane, whatever captures failed to
\* start or broke on the way (engine_preview.cpp:833-931).
Captured(request) == \E k \in DOMAIN sources : sources[k].running /\ Serves(sources[k], request)
CaptureFollowsRoutes ==
    <>[](\A request \in ToSet(Plan(coordinator).entries) : Captured(request))
    \/ []<>~host.bound

\* Once Windows and the clients are quiet, catalog and captures settle: every
\* session that runs is listed, and every process of the plan is captured.
RoutingSettles == SessionsAreSeen /\ CaptureFollowsRoutes

\* windows_audio_session_watcher.hpp:85-88: a callback that races with the closing
\* of the gate "cannot enter after the wait sees zero", so the registry holds
\* sessions of the bound endpoint only.  TLC refutes it: the next bind opens the
\* gate again, and a report that had not come to it yet enters then.
LateReportsStayOut ==
    host.bound => \A i \in DOMAIN coordinator.registry :
                      About[coordinator.registry[i].session].endpoint = host.endpoint

\* SPEC-0023: a rule command that cannot be carried out keeps the old rules
\* and the old graph.  TLC refutes it: the refusal also marks the
\* coordinator degraded, and a degraded coordinator hands out no graph.
RefusedRuleKeepsGraph ==
    [][(host.phase = "draining" /\ coordinator'.rules = coordinator.rules
        /\ coordinator'.generation = coordinator.generation)
       => copy_graph(coordinator') = copy_graph(coordinator)]_sessionVars
================================================================================

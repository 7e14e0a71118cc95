----------------------------- MODULE DeviceCatalog -----------------------------
(***************************************************************************)
(* The catalog of the physical endpoints.  Windows reports each change of  *)
(* an endpoint by a callback on a thread of its own; the watcher           *)
(* (windows_device_watcher.cpp) keeps only the last report, in a cell that *)
(* a sequence number guards, and drops a report that finds the cell taken. *)
(* The control loop polls the cell and, when it has changed, enumerates    *)
(* the endpoints one call of Windows after the other                       *)
(* (windows_device_catalog.cpp), builds a candidate catalog                *)
(* (device_catalog.cpp) and publishes it to the pipe worker                *)
(* (device_catalog_snapshot.cpp), while endpoints go on changing.          *)
(*                                                                         *)
(* The loop discards what the reports say, so a report is only its number. *)
(* An endpoint has a mix format only while it is active.                   *)
(***************************************************************************)
EXTENDS Integers, FiniteSets

CONSTANTS
    Devices,          \* the endpoints
    Flows, FlowOf,    \* and the flow of each
    FirstFlow,        \* the flow that is enumerated first
    Unsupported,      \* the endpoints whose format is outside the contract
    NoDevice,
    CatalogLimit,     \* what the catalog holds
    MaxChanges,       \* bound: changes of endpoints
    MaxFailures       \* bound: enumerations that fail

\* Two flows, render and capture; every endpoint is of one of them.
ASSUME DeviceAssumption ==
    /\ IsFiniteSet(Devices) /\ NoDevice \notin Devices /\ FlowOf \in [Devices -> Flows]
    /\ \E w \in Flows : w # FirstFlow /\ Flows = {FirstFlow, w}
    /\ CatalogLimit \in Nat \ {0} /\ MaxChanges \in Nat

VARIABLES
    endpoint,   \* Windows: the state of each endpoint
    default,    \* Windows: the default endpoint of each flow
    reports,    \* the callbacks under way: [at, loaded] of each thread of Windows
    cell,       \* the watcher: [sequence, last]
    loop,       \* the control loop: [at, flow, todo, default, device, state, candidate, failed]
    service,    \* the service: [catalog, sequence]
    store,      \* the snapshot that the pipe worker replies: [catalog, sequence]
    changes, failures

deviceVars == <<endpoint, default, reports, cell, loop, service, store, changes, failures>>

States == {"active", "disabled", "unplugged", "absent"}
Threads == 1..MaxChanges
Even(n) == n % 2 = 0

Quiet == [at |-> "none", loaded |-> 0]
Idle == [at |-> "idle", flow |-> FirstFlow, todo |-> {}, default |-> NoDevice,
         device |-> NoDevice, state |-> "absent", candidate |-> {}, failed |-> FALSE]

DeviceInit ==
    /\ endpoint = [d \in Devices |-> "active"]
    /\ default \in {f \in [Flows -> Devices] : \A w \in Flows : FlowOf[f[w]] = w}
    /\ reports = [t \in Threads |-> Quiet]
    /\ cell = [sequence |-> 0, last |-> 0]
    /\ loop = [Idle EXCEPT !.at = "bound"]
    /\ service = [catalog |-> {}, sequence |-> 0]
    /\ store = service
    /\ changes = 0 /\ failures = 0

(***************************************************************************)
(* Windows                                                                 *)
(***************************************************************************)
Reported ==
    \E t \in Threads :
        /\ reports[t] = Quiet /\ \A u \in 1..(t - 1) : reports[u] # Quiet
        /\ reports' = [reports EXCEPT ![t].at = "called"]

Change ==
    /\ changes < MaxChanges /\ changes' = changes + 1
    /\ Reported
    /\ \/ \E d \in Devices, s \in States :
              s # endpoint[d] /\ endpoint' = [endpoint EXCEPT ![d] = s] /\ UNCHANGED default
       \/ \E w \in Flows : \E d \in {d \in Devices : FlowOf[d] = w} \cup {NoDevice} :
              d # default[w] /\ default' = [default EXCEPT ![w] = d] /\ UNCHANGED endpoint
    /\ UNCHANGED <<cell, loop, service, store, failures>>

(***************************************************************************)
(* WindowsDeviceWatcher::publish: load the number, claim the cell by       *)
(* making it odd unless it changed since, store the fields, release it.    *)
(***************************************************************************)
load(t) ==
    /\ reports[t].at = "called"
    /\ reports' = [reports EXCEPT ![t] =
           IF Even(cell.sequence) THEN [at |-> "loaded", loaded |-> cell.sequence] ELSE Quiet]
    /\ UNCHANGED cell

claim(t) ==
    /\ reports[t].at = "loaded"
    /\ IF cell.sequence = reports[t].loaded
       THEN /\ cell' = [cell EXCEPT !.sequence = @ + 1]
            /\ reports' = [reports EXCEPT ![t].at = "claimed"]
       ELSE /\ reports' = [reports EXCEPT ![t] = Quiet]
            /\ UNCHANGED cell

release(t) ==
    /\ reports[t].at = "claimed"
    /\ cell' = [cell EXCEPT !.sequence = reports[t].loaded + 2]
    /\ reports' = [reports EXCEPT ![t] = Quiet]

publish(t) ==
    /\ load(t) \/ claim(t) \/ release(t)
    /\ UNCHANGED <<endpoint, default, loop, service, store, changes, failures>>

(***************************************************************************)
(* The control loop.  Its start registers the watcher and refreshes at     *)
(* once; afterwards it polls every 250 ms.  A poll that finds the cell     *)
(* taken or changing answers nothing, and the next one looks again.        *)
(***************************************************************************)
Enumerating(w) == [Idle EXCEPT !.at = "collection", !.flow = w]

refresh_now ==
    /\ loop.at = "bound"
    /\ loop' = Enumerating(FirstFlow)
    /\ UNCHANGED <<endpoint, default, reports, cell, service, store, changes, failures>>

poll_and_refresh ==
    /\ loop.at = "idle"
    /\ Even(cell.sequence) /\ cell.sequence # 0 /\ cell.sequence # cell.last
    /\ cell' = [cell EXCEPT !.last = cell.sequence]
    /\ loop' = Enumerating(FirstFlow)
    /\ UNCHANGED <<endpoint, default, reports, service, store, changes, failures>>

(***************************************************************************)
(* enumerate_flow: the collection of the flow, its default endpoint, then  *)
(* the state and the format of one endpoint after the other.  An endpoint  *)
(* whose format cannot be read, or is not supported, is left out; one that *)
(* the catalog has no room for is dropped.                                 *)
(***************************************************************************)
Step(next) ==
    /\ loop' = next
    /\ UNCHANGED <<endpoint, default, reports, cell, service, store, changes, failures>>

EnumAudioEndpoints ==
    /\ loop.at = "collection"
    /\ Step([loop EXCEPT !.at = "default",
                !.todo = {d \in Devices : FlowOf[d] = loop.flow /\ endpoint[d] # "absent"}])

default_endpoint_id ==
    /\ loop.at = "default"
    /\ Step([loop EXCEPT !.at = "devices", !.default = default[loop.flow]])

GetState ==
    /\ loop.at = "devices"
    /\ \E d \in loop.todo :
           Step([loop EXCEPT !.at = "format", !.todo = @ \ {d}, !.device = d,
                             !.state = IF endpoint[d] = "absent" THEN "unplugged"
                                       ELSE endpoint[d]])

clear_defaults(catalog, w) == {[e EXCEPT !.default = @ /\ e.flow # w] : e \in catalog}
upsert(catalog, e) ==
    IF Cardinality(catalog) = CatalogLimit THEN catalog
    ELSE {e} \cup IF e.default THEN clear_defaults(catalog, e.flow) ELSE catalog

read_audio_format(d) == endpoint[d] = "active" /\ d \notin Unsupported

Described ==
    [id |-> loop.device, flow |-> loop.flow, state |-> loop.state,
     default |-> loop.state = "active" /\ loop.device = loop.default]

AddDevice ==
    /\ loop.at = "format"
    /\ Step([loop EXCEPT !.at = "devices",
                !.candidate = IF read_audio_format(loop.device) THEN upsert(@, Described) ELSE @])

NextFlow ==
    /\ loop.at = "devices" /\ loop.todo = {}
    /\ IF loop.flow = FirstFlow
       THEN \E w \in Flows \ {FirstFlow} : Step([loop EXCEPT !.at = "collection", !.flow = w])
       ELSE Step([loop EXCEPT !.at = "publish"])

\* Any call of Windows fails the whole refresh: what was published stays. At the
\* start the host goes on without a catalog.
Fail ==
    /\ loop.at \in {"collection", "devices"}
    /\ failures < MaxFailures /\ failures' = failures + 1
    /\ loop' = [Idle EXCEPT !.failed = TRUE, !.at = IF service.sequence = 0 THEN "off" ELSE "idle"]
    /\ UNCHANGED <<endpoint, default, reports, cell, service, store, changes>>

\* Mutant: the watcher counts as seen what it was told before the refresh ended.
CommitSeen ==
    /\ loop.at = "publish"
    /\ LET next == [catalog |-> loop.candidate, sequence |-> service.sequence + 1]
       IN  store' = next /\ service' = next /\ loop' = Idle
    /\ cell' = [cell EXCEPT !.last = cell.sequence]
    /\ UNCHANGED <<endpoint, default, reports, changes, failures>>
\* The store takes only a number above its own; the service commits what it took.
Commit ==
    /\ loop.at = "publish"
    /\ LET next == [catalog |-> loop.candidate, sequence |-> service.sequence + 1]
           taken == next.sequence > store.sequence
       IN  /\ store' = IF taken THEN next ELSE store
           /\ service' = IF taken THEN next ELSE service
           /\ loop' = [Idle EXCEPT !.failed = ~taken]
    /\ UNCHANGED <<endpoint, default, reports, cell, changes, failures>>

Refreshing ==
    EnumAudioEndpoints \/ default_endpoint_id \/ GetState \/ AddDevice \/ NextFlow \/ Commit

DeviceNext ==
    \/ Change
    \/ \E t \in Threads : publish(t)
    \/ refresh_now \/ poll_and_refresh
    \/ Refreshing \/ Fail

\* Callbacks run to their end, and the control loop keeps turning.
DeviceFairness ==
    /\ \A t \in Threads : WF_deviceVars(publish(t))
    /\ WF_deviceVars(refresh_now) /\ WF_deviceVars(poll_and_refresh)
    /\ WF_deviceVars(Refreshing)

DeviceSpec == DeviceInit /\ [][DeviceNext]_deviceVars /\ DeviceFairness
-------------------------------------------------------------------------------
(* Properties *)

Usable == {d \in Devices : endpoint[d] = "active" /\ d \notin Unsupported}
Actual == {[id |-> d, flow |-> FlowOf[d], state |-> "active", default |-> default[FlowOf[d]] = d] :
              d \in Usable}

\* When endpoints stop changing, what clients read of them becomes and stays what
\* Windows has, whatever reports the watcher dropped and however the changes fell
\* into the enumeration under way; unless the last refresh failed, which no later
\* poll tries again (windows_device_watcher.cpp:38-68, 122-147;
\* windows_device_catalog.cpp:202-265, 398-429).
CatalogFollowsDevices == <>[](store.catalog = Actual) \/ <>[](loop.failed \/ loop.at = "off")

\* A report on its way that will still leave its number in the cell.
Coming(t) ==
    \/ reports[t].at \in {"called", "claimed"}
    \/ reports[t].at = "loaded" /\ reports[t].loaded = cell.sequence

\* The safety half: at rest after a refresh that did not fail, a catalog that is
\* not what Windows has is about to be refreshed. Either a poll sees a new number
\* in the cell or a callback under way will leave one there; a report is dropped
\* only when another one tells of its change (windows_device_watcher.cpp:38-68).
NoChangeIsLost ==
    loop.at = "idle" /\ ~loop.failed /\ store.catalog # Actual =>
        cell.sequence # cell.last \/ \E t \in Threads : Coming(t)

\* However changes fall into an enumeration, the published catalog is one a
\* client can decode (device_catalog_snapshot.cpp, valid_entries): an endpoint at
\* most once, at most one default per flow and that one active, nothing whose
\* format is outside the contract, and no more than it has room for.
CatalogIsSound ==
    /\ \A e, f \in store.catalog : e.id = f.id \/ (e.default /\ f.default /\ e.flow = f.flow) => e = f
    /\ \A e \in store.catalog :
          /\ e.id \in Devices \ Unsupported /\ e.flow = FlowOf[e.id]
          /\ e.default => e.state = "active"
    /\ Cardinality(store.catalog) <= CatalogLimit
===============================================================================

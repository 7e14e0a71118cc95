----------------------------- MODULE SessionRules -----------------------------
(***************************************************************************)
(* What the hub computes from Windows' audio sessions, without any state:  *)
(* which rule routes a session (session_route_rules.cpp), the registry of  *)
(* an enumeration (audio_session_registry.cpp), the graph of the routed    *)
(* sessions (session_route.cpp) and the processes to capture for it        *)
(* (process_loopback_plan.cpp).                                            *)
(*                                                                         *)
(* Texts are compared folded, so a text stands for its folded form.  A     *)
(* route is its lane: lanes are unique in a graph, so the output group of  *)
(* a route distinguishes nothing that its lane does not, and gain owner    *)
(* and makeup only colour the lane.                                        *)
(***************************************************************************)
EXTENDS Integers, SequencesExt, FiniteSets

CONSTANTS
    Sessions, Lanes,
    About,            \* [Sessions -> [endpoint, pid, app, words, sound]]: words is
                      \* what its display name contains, sound that its
                      \* descriptor is valid
    RuleCapacity, PriorityLimit, SessionCapacity, LaneCapacity, PlanCapacity

NoText == "none"  \* no text given
Blank == "blank"  \* spaces only
NoLane == NoText
NoRule == [id |-> NoText]
NoPid == 0

EmptyStore == [i \in 1..RuleCapacity |-> NoRule]

(***************************************************************************)
(* A loop over a sequence that keeps some places of it, in their order:    *)
(* SelectSeq by places, written without recursion so that it can be        *)
(* reasoned about.                                                         *)
(***************************************************************************)
InOrder(places) ==
    [k \in 1..Cardinality(places) |->
        CHOOSE i \in places : Cardinality({j \in places : j < i}) = k - 1]
Picked(seq, places) ==
    LET order == InOrder(places) IN [k \in DOMAIN order |-> seq[order[k]]]

(***************************************************************************)
(* Rules: [id, priority, enabled, app, word, lane].                        *)
(***************************************************************************)
HasText(text) == text \notin {NoText, Blank}

valid(rule) ==
    /\ HasText(rule.id) /\ HasText(rule.lane)
    /\ rule.priority \in -PriorityLimit..PriorityLimit
    /\ HasText(rule.app) \/ HasText(rule.word)

matches(rule, s) ==
    /\ rule.enabled
    /\ rule.app \in {NoText, About[s].app}
    /\ rule.word = NoText \/ rule.word \in About[s].words

Holding(store, id) == {i \in DOMAIN store : store[i].id = id}
FirstOf(S) == CHOOSE i \in S : \A j \in S : i <= j

\* The slot of a rule's id, otherwise a free one; none in a full store.
SlotFor(store, id) ==
    IF Holding(store, id) # {} THEN Holding(store, id) ELSE Holding(store, NoText)
Accepted(store, rule) == valid(rule) /\ SlotFor(store, rule.id) # {}
upsert(store, rule) == [store EXCEPT ![FirstOf(SlotFor(store, rule.id))] = rule]

remove(store, id) ==
    [i \in DOMAIN store |-> IF store[i].id = id THEN NoRule ELSE store[i]]

Matching(store, s) ==
    {i \in DOMAIN store : store[i] # NoRule /\ matches(store[i], s)}

\* Refused: a match that ties with the best of the matches before it.
Ambiguous(store, s) ==
    \E j \in Matching(store, s) :
        LET before == {i \in Matching(store, s) : i < j}
        IN  /\ \E i \in before : store[i].priority = store[j].priority
            /\ \A i \in before : store[i].priority <= store[j].priority

\* The lane the rules give a session, NoLane when none matches.
RuleLane(store, s) ==
    LET m == Matching(store, s)
    IN  IF m = {} \/ Ambiguous(store, s) THEN NoLane
        ELSE store[CHOOSE i \in m : \A j \in m : store[j].priority <= store[i].priority].lane

(***************************************************************************)
(* The registry is the sequence of [session, active, lane] of one          *)
(* enumeration: the sessions in the order in which they were first met.    *)
(***************************************************************************)
Met(seq) == Picked(seq, {i \in DOMAIN seq : \A j \in 1..(i - 1) : seq[j] # seq[i]})

\* What each session met becomes. Invalid ones and those over the capacity
\* are left out, and fail the enumeration, as an ambiguous rule does.
upsert_session_control(store, live, s) ==
    [session |-> s, active |-> live[s] = "active", lane |-> RuleLane(store, s)]
Registry(store, live, met) ==
    LET kept == Picked(met, {i \in DOMAIN met : About[met[i]].sound})
    IN  [i \in DOMAIN kept \cap 1..SessionCapacity |->
            upsert_session_control(store, live, kept[i])]
Enumerable(store, met) ==
    /\ \A s \in ToSet(met) : About[s].sound /\ ~Ambiguous(store, s)
    /\ Len(met) <= SessionCapacity

\* AudioSessionRegistry::find
Entry(registry, s) == {i \in DOMAIN registry : registry[i].session = s}

Routed(registry) ==
    Picked(registry, {i \in DOMAIN registry : registry[i].active /\ registry[i].lane # NoLane})

(***************************************************************************)
(* The graph has a lane for each routed session; it is not built when two  *)
(* of them share a lane, or when there are more than lanes.                *)
(***************************************************************************)
build_session_route_graph(routed) ==
    /\ routed # <<>>
    /\ Len(routed) <= LaneCapacity
    /\ \A i, j \in DOMAIN routed : i # j => routed[i].lane # routed[j].lane

(***************************************************************************)
(* The capture plan: a sequence of [pid, lane].  It is refused for a       *)
(* session without a process, a lane of two processes, a process with two  *)
(* lanes, or more processes than the plan holds.                           *)
(***************************************************************************)
Request(e) == [pid |-> About[e.session].pid, lane |-> e.lane]
build_process_loopback_plan(routed) ==
    LET requests == Met([i \in DOMAIN routed |-> Request(routed[i])])
        Fits(r) == r.pid # NoPid /\ \A q \in ToSet(requests) : r.pid = q.pid <=> r.lane = q.lane
    IN  IF Len(requests) <= PlanCapacity /\ \A r \in ToSet(requests) : Fits(r)
        THEN [refused |-> FALSE, entries |-> requests]
        ELSE [refused |-> TRUE, entries |-> <<>>]
===============================================================================

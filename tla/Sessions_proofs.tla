--------------------------- MODULE Sessions_proofs ---------------------------
(***************************************************************************)
(* Theorems about SessionRoutes, for any sessions, endpoints, rules and    *)
(* capacities.                                                             *)
(*                                                                         *)
(* A command stands for an entry of the catalog by number, and the         *)
(* registry it is carried out on may be another one by then.  CommandInv   *)
(* says why it reaches its session all the same: the number it names is    *)
(* that of the newest catalog, nothing was committed in this drain, and a  *)
(* coordinator that still answers then has the sessions that the catalog   *)
(* lists.  The last step needs FewSessions: the published catalog has room *)
(* for the whole registry.                                                 *)
(***************************************************************************)
EXTENDS SessionRoutes, FiniteSetTheorems, SequenceTheorems, TLAPS

-----------------------------------------------------------------------------
(* Places of a sequence *)

\* InOrder counts a finite set of places: it takes each exactly once.
LEMMA InOrderCounts ==
  ASSUME NEW places \in SUBSET Nat, IsFiniteSet(places)
  PROVE  /\ Cardinality(places) \in Nat
         /\ InOrder(places) \in [1..Cardinality(places) -> places]
         /\ \A j, k \in 1..Cardinality(places) : InOrder(places)[j] = InOrder(places)[k] => j = k
         /\ \A i \in places : \E k \in 1..Cardinality(places) : InOrder(places)[k] = i
<1> DEFINE n == Cardinality(places)
           Below(i) == {j \in places : j < i}
           rank == [i \in places |-> Cardinality(Below(i)) + 1]
<1>n. n \in Nat BY FS_CardinalityType
<1>1. \A i \in places : /\ IsFiniteSet(Below(i)) /\ Cardinality(Below(i)) \in Nat
                        /\ Cardinality(Below(i)) < n
  <2> SUFFICES ASSUME NEW i \in places
               PROVE  /\ IsFiniteSet(Below(i)) /\ Cardinality(Below(i)) \in Nat
                      /\ Cardinality(Below(i)) < n
    OBVIOUS
  <2>1. Below(i) \in SUBSET places /\ Below(i) # places OBVIOUS
  <2>2. IsFiniteSet(Below(i)) /\ Cardinality(Below(i)) <= n /\ Cardinality(Below(i)) # n
    BY <2>1, FS_Subset
  <2>. QED BY <1>n, <2>2, FS_CardinalityType
<1>2. rank \in [places -> 1..n]
  BY <1>1, <1>n
<1>3. ASSUME NEW i \in places, NEW j \in places, i < j PROVE rank[i] < rank[j]
  <2>0. places \subseteq Nat OBVIOUS
  <2>3. i \in Nat /\ j \in Nat /\ i < j BY <1>3, <2>0
  <2>4. ASSUME NEW m \in Below(i) PROVE m \in Below(j)
    <3>1. m \in places /\ m \in Nat /\ m < i BY <2>0
    <3>2. m < j BY <3>1, <2>3
    <3>. QED BY <3>1, <3>2
  <2>5. i \in Below(j) BY <2>3
  <2>6. i \notin Below(i) BY <2>3
  <2>1. Below(i) \in SUBSET Below(j) /\ i \in Below(j) /\ i \notin Below(i)
    BY <2>4, <2>5, <2>6
  <2>2. Cardinality(Below(i)) <= Cardinality(Below(j)) /\ Cardinality(Below(i)) # Cardinality(Below(j))
    BY <2>1, <1>1, FS_Subset
  <2>. QED BY <2>2, <1>1
<1>4. \A i, j \in places : rank[i] = rank[j] => i = j
  <2> SUFFICES ASSUME NEW i \in places, NEW j \in places, rank[i] = rank[j] PROVE i = j
    OBVIOUS
  <2>1. i \in Nat /\ j \in Nat /\ rank[i] \in Nat /\ rank[j] \in Nat BY <1>2, <1>n
  <2>. QED BY <2>1, <1>3
<1>5. rank \in Injection(places, 1..n)
  BY <1>2, <1>4 DEF Injection, IsInjective
<1>6. IsFiniteSet(1..n) /\ Cardinality(1..n) = n
  BY <1>n, FS_Interval
<1>7. rank \in Surjection(places, 1..n)
  BY <1>5, <1>6, FS_Injection
<1>8. \A k \in 1..n : \E i \in places : rank[i] = k
  BY <1>7 DEF Surjection
<1>9. ASSUME NEW k \in 1..n PROVE \E i \in places : Cardinality(Below(i)) = k - 1
  <2>1. PICK i \in places : rank[i] = k BY <1>8
  <2>2. rank[i] = Cardinality(Below(i)) + 1 OBVIOUS
  <2>3. Cardinality(Below(i)) = k - 1 BY <2>1, <2>2, <1>1, <1>n
  <2>. QED BY <2>3
<1>10. \A k \in 1..n : /\ InOrder(places)[k] \in places
                       /\ Cardinality(Below(InOrder(places)[k])) = k - 1
  BY <1>9 DEF InOrder
<1>11. InOrder(places) \in [1..n -> places]
  BY <1>10 DEF InOrder
<1>12. \A j, k \in 1..n : InOrder(places)[j] = InOrder(places)[k] => j = k
  <2> SUFFICES ASSUME NEW j \in 1..n, NEW k \in 1..n, InOrder(places)[j] = InOrder(places)[k]
               PROVE  j = k
    OBVIOUS
  <2>1. j - 1 = k - 1 BY <1>10
  <2>. QED BY <2>1, <1>n
<1>13. ASSUME NEW i \in places PROVE \E k \in 1..n : InOrder(places)[k] = i
  <2>1. rank[i] \in 1..n BY <1>2
  <2> DEFINE k == rank[i]
             i2 == InOrder(places)[k]
  <2>2. i2 \in places /\ Cardinality(Below(i2)) = k - 1 BY <1>10, <2>1
  <2>3. rank[i2] = rank[i] BY <2>1, <2>2, <1>1, <1>n
  <2>4. i2 = i BY <2>2, <2>3, <1>4
  <2>. QED BY <2>1, <2>4
<1>. QED BY <1>n, <1>11, <1>12, <1>13

\* What Picked takes from a sequence, and that it takes each place once.
LEMMA PickedTakes ==
  ASSUME NEW S, NEW seq \in Seq(S), NEW places \in SUBSET DOMAIN seq
  PROVE  /\ Picked(seq, places) \in Seq(S)
         /\ DOMAIN Picked(seq, places) = DOMAIN InOrder(places)
         /\ \A k \in DOMAIN Picked(seq, places) :
               InOrder(places)[k] \in places /\ Picked(seq, places)[k] = seq[InOrder(places)[k]]
         /\ \A j, k \in DOMAIN Picked(seq, places) :
               InOrder(places)[j] = InOrder(places)[k] => j = k
         /\ \A i \in places : \E k \in DOMAIN Picked(seq, places) : Picked(seq, places)[k] = seq[i]
<1> DEFINE order == InOrder(places)
           n == Cardinality(places)
<1>1. places \in SUBSET Nat /\ IsFiniteSet(places)
  <2>1. Len(seq) \in Nat /\ DOMAIN seq = 1..Len(seq) OBVIOUS
  <2>2. IsFiniteSet(1..Len(seq)) BY <2>1, FS_Interval
  <2>. QED BY <2>1, <2>2, FS_Subset
<1>2. /\ n \in Nat /\ order \in [1..n -> places]
      /\ \A j, k \in 1..n : order[j] = order[k] => j = k
      /\ \A i \in places : \E k \in 1..n : order[k] = i
  BY <1>1, InOrderCounts
<1>3. Picked(seq, places) = [k \in 1..n |-> seq[order[k]]]
  BY <1>2 DEF Picked
<1>4. \A k \in 1..n : order[k] \in places /\ seq[order[k]] \in S
  BY <1>2
<1>5. Picked(seq, places) \in Seq(S)
  BY <1>2, <1>3, <1>4
<1>6. DOMAIN Picked(seq, places) = 1..n /\ DOMAIN order = 1..n
  BY <1>2, <1>3
<1> HIDE DEF order, n
<1>7. \A k \in 1..n : order[k] \in places /\ Picked(seq, places)[k] = seq[order[k]]
  BY <1>3, <1>4
<1>8. \A i \in places : \E k \in 1..n : Picked(seq, places)[k] = seq[i]
  BY <1>2, <1>7
<1>9. order = InOrder(places)
  BY DEF order
<1>. QED BY <1>2, <1>5, <1>6, <1>7, <1>8, <1>9

\* Met keeps of equal elements the first: it lists what a sequence holds, and
\* nothing twice.
Distinct(seq) == \A i, j \in DOMAIN seq : seq[i] = seq[j] => i = j
LEMMA MetLists ==
  ASSUME NEW S, NEW seq \in Seq(S)
  PROVE  Met(seq) \in Seq(S) /\ Distinct(Met(seq))
<1> DEFINE firsts == {i \in DOMAIN seq : \A j \in 1..(i - 1) : seq[j] # seq[i]}
<1>1. firsts \in SUBSET DOMAIN seq OBVIOUS
<1>2. \A i, j \in firsts : seq[i] = seq[j] => i = j
  <2> SUFFICES ASSUME NEW i \in firsts, NEW j \in firsts, seq[i] = seq[j] PROVE i = j
    OBVIOUS
  <2>1. i \in Nat \ {0} /\ j \in Nat \ {0} OBVIOUS
  <2>2. ~(i < j)
    <3> SUFFICES ASSUME i < j PROVE FALSE OBVIOUS
    <3>1. i \in 1..(j - 1) BY <2>1
    <3>. QED BY <3>1
  <2>3. ~(j < i)
    <3> SUFFICES ASSUME j < i PROVE FALSE OBVIOUS
    <3>1. j \in 1..(i - 1) BY <2>1
    <3>. QED BY <3>1
  <2>. QED BY <2>1, <2>2, <2>3
<1>3. Met(seq) = Picked(seq, firsts) BY DEF Met
<1> HIDE DEF firsts
<1>. QED BY <1>1, <1>2, <1>3, PickedTakes DEF Distinct

-----------------------------------------------------------------------------
(* Registries and plans *)

Stores == [1..RuleCapacity -> Rules \cup {NoRule}]
LaneTexts == {RuleLane(store, s) : store \in Stores, s \in Sessions} \cup Lanes \cup {NoLane}
Entries == [session : Sessions, active : BOOLEAN, lane : LaneTexts]
OneEach(registry) ==
    \A i, j \in DOMAIN registry : registry[i].session = registry[j].session => i = j
Registries == {r \in Seq(Entries) : OneEach(r)}
Pids == {About[s].pid : s \in Sessions} \cup {NoPid}
Requests == [pid : Pids, lane : LaneTexts]

\* An enumeration meets each session once.
LEMMA EnumerationLists ==
  ASSUME watcher.pending \in Seq(Sessions)
  PROVE  Enumeration \in Seq(Sessions) /\ Distinct(Enumeration)
<1> DEFINE here == {i \in DOMAIN Order : /\ live[Order[i]] \in {"active", "inactive"}
                                        /\ About[Order[i]].endpoint = watcher.endpoint}
<1>1. Picked(Order, here) \in Seq(Sessions)
  BY SessionAssumption, PickedTakes
<1>2. watcher.pending \o Picked(Order, here) \in Seq(Sessions)
  BY <1>1
<1>3. Enumeration = Met(watcher.pending \o Picked(Order, here))
  BY DEF Enumeration
<1> HIDE DEF here
<1>. QED BY <1>2, <1>3, MetLists

\* The registry of an enumeration has a session at one place at most.
LEMMA RegistryLists ==
  ASSUME NEW store \in Stores, NEW states, NEW met \in Seq(Sessions), Distinct(met)
  PROVE  Registry(store, states, met) \in Registries
<1> DEFINE sound == {i \in DOMAIN met : About[met[i]].sound}
           kept == Picked(met, sound)
           m == IF Len(kept) < SessionCapacity THEN Len(kept) ELSE SessionCapacity
<1>1. /\ kept \in Seq(Sessions)
      /\ \A j, k \in DOMAIN kept : kept[j] = kept[k] => j = k
  <2>1. sound \in SUBSET DOMAIN met OBVIOUS
  <2> HIDE DEF sound
  <2>2. /\ kept \in Seq(Sessions)
        /\ \A k \in DOMAIN kept : InOrder(sound)[k] \in sound /\ kept[k] = met[InOrder(sound)[k]]
        /\ \A j, k \in DOMAIN kept : InOrder(sound)[j] = InOrder(sound)[k] => j = k
    BY <2>1, PickedTakes
  <2>. QED BY <2>1, <2>2 DEF Distinct
<1>2. Registry(store, states, met)
        = [i \in DOMAIN kept \cap 1..SessionCapacity |-> upsert_session_control(store, states, kept[i])]
  BY DEF Registry
<1> HIDE DEF kept
<1>3. m \in Nat /\ DOMAIN kept \cap 1..SessionCapacity = 1..m
  BY <1>1, SessionAssumption
<1>4. \A i \in 1..m : i \in DOMAIN kept /\ kept[i] \in Sessions
  BY <1>1, <1>3
<1>5. \A i \in 1..m : /\ upsert_session_control(store, states, kept[i]) \in Entries
                      /\ upsert_session_control(store, states, kept[i]).session = kept[i]
  BY <1>4 DEF upsert_session_control, Entries, LaneTexts
<1> HIDE DEF m
<1>6. Registry(store, states, met) \in Seq(Entries)
  <2> DEFINE f == [i \in 1..m |-> upsert_session_control(store, states, kept[i])]
  <2>1. f \in Seq(Entries) BY <1>3, <1>5
  <2>2. f = Registry(store, states, met) BY <1>2, <1>3
  <2>. QED BY <2>1, <2>2
<1>. QED BY <1>1, <1>2, <1>3, <1>4, <1>5, <1>6 DEF Registries, OneEach

\* A session that stays active keeps the lane it had.
LEMMA KeptLists ==
  ASSUME NEW old \in Registries, NEW new \in Registries
  PROVE  /\ Kept(old, new) \in Registries
         /\ DOMAIN Kept(old, new) = DOMAIN new
         /\ \A j \in DOMAIN new : /\ Kept(old, new)[j].session = new[j].session
                                 /\ Kept(old, new)[j].active = new[j].active
         /\ \A i \in DOMAIN old, j \in DOMAIN new :
               (old[i].session = new[j].session /\ new[j].active /\ old[i].lane # NoLane)
               => Kept(old, new)[j].lane = old[i].lane
<1> DEFINE places(s) == Entry(old, s)
           lane(j) == IF places(new[j].session) = {} THEN NoLane
                      ELSE old[FirstOf(places(new[j].session))].lane
<1>1. \A j \in DOMAIN new :
        Kept(old, new)[j] = IF new[j].active /\ lane(j) # NoLane
                            THEN [new[j] EXCEPT !.lane = lane(j)] ELSE new[j]
  BY DEF Kept
<1>2. DOMAIN Kept(old, new) = DOMAIN new
  BY DEF Kept
<1>3. ASSUME NEW i \in DOMAIN old, NEW s, old[i].session = s PROVE places(s) = {i} /\ FirstOf(places(s)) = i
  <2>1. places(s) = {i} BY <1>3 DEF Entry, Registries, OneEach
  <2>2. i \in Nat BY DEF Registries
  <2>. QED BY <2>1, <2>2 DEF FirstOf
<1>4. \A j \in DOMAIN new : lane(j) \in LaneTexts
  <2> SUFFICES ASSUME NEW j \in DOMAIN new PROVE lane(j) \in LaneTexts
    OBVIOUS
  <2>1. CASE places(new[j].session) = {}
    BY <2>1 DEF LaneTexts
  <2>2. CASE places(new[j].session) # {}
    <3>1. PICK i \in DOMAIN old : old[i].session = new[j].session
      BY <2>2 DEF Entry
    <3>2. lane(j) = old[i].lane BY <2>2, <3>1, <1>3
    <3>3. old[i] \in Entries BY DEF Registries
    <3>. QED BY <3>2, <3>3 DEF Entries
  <2>. QED BY <2>1, <2>2
<1>5. \A i \in DOMAIN old, j \in DOMAIN new : old[i].session = new[j].session => lane(j) = old[i].lane
  <2> SUFFICES ASSUME NEW i \in DOMAIN old, NEW j \in DOMAIN new, old[i].session = new[j].session
               PROVE  lane(j) = old[i].lane
    OBVIOUS
  <2>1. places(new[j].session) = {i} /\ FirstOf(places(new[j].session)) = i
    BY <1>3
  <2>. QED BY <2>1
<1> HIDE DEF lane
<1>6. new \in Seq(Entries) /\ OneEach(new)
  BY DEF Registries
<1>7. \A j \in DOMAIN new : /\ Kept(old, new)[j] \in Entries
                            /\ Kept(old, new)[j].session = new[j].session
                            /\ Kept(old, new)[j].active = new[j].active
  <2> SUFFICES ASSUME NEW j \in DOMAIN new
               PROVE  /\ Kept(old, new)[j] \in Entries
                      /\ Kept(old, new)[j].session = new[j].session
                      /\ Kept(old, new)[j].active = new[j].active
    OBVIOUS
  <2>1. new[j] \in Entries BY <1>6
  <2>2. lane(j) \in LaneTexts BY <1>4
  <2>. QED BY <1>1, <2>1, <2>2 DEF Entries
<1>8. Kept(old, new) \in Seq(Entries)
  <2>1. Kept(old, new) = [j \in 1..Len(new) |-> Kept(old, new)[j]]
    BY <1>6 DEF Kept
  <2>2. \A j \in 1..Len(new) : Kept(old, new)[j] \in Entries BY <1>6, <1>7
  <2>3. Len(new) \in Nat BY <1>6
  <2> DEFINE f == [j \in 1..Len(new) |-> Kept(old, new)[j]]
  <2>4. f \in Seq(Entries) BY <2>2, <2>3
  <2>. QED BY <2>1, <2>4
<1>9. OneEach(Kept(old, new))
  BY <1>2, <1>6, <1>7 DEF OneEach
<1>10. \A i \in DOMAIN old, j \in DOMAIN new :
         (old[i].session = new[j].session /\ new[j].active /\ old[i].lane # NoLane)
         => Kept(old, new)[j].lane = old[i].lane
  <2> SUFFICES ASSUME NEW i \in DOMAIN old, NEW j \in DOMAIN new,
                      old[i].session = new[j].session, new[j].active, old[i].lane # NoLane
               PROVE  Kept(old, new)[j].lane = old[i].lane
    OBVIOUS
  <2>1. lane(j) = old[i].lane BY <1>5
  <2>2. Kept(old, new)[j] = [new[j] EXCEPT !.lane = lane(j)] BY <1>1, <2>1
  <2>3. new[j] \in Entries BY <1>6
  <2>. QED BY <2>1, <2>2, <2>3 DEF Entries
<1>. QED BY <1>2, <1>7, <1>8, <1>9, <1>10 DEF Registries

\* A registry is no longer than there are sessions.
LEMMA RegistryFits ==
  ASSUME NEW r \in Registries
  PROVE  Len(r) \in Nat /\ Len(r) <= Cardinality(Sessions)
<1> DEFINE f == [i \in 1..Len(r) |-> r[i].session]
<1>1. r \in Seq(Entries) /\ OneEach(r) /\ Len(r) \in Nat
  BY DEF Registries
<1>2. ASSUME NEW i \in 1..Len(r) PROVE r[i] \in Entries /\ r[i].session \in Sessions
  <2>1. r[i] \in Entries BY <1>1
  <2>. QED BY <2>1 DEF Entries
<1>3. f \in Injection(1..Len(r), Sessions)
  BY <1>1, <1>2 DEF Injection, IsInjective, OneEach
<1>4. PICK n \in Nat : n = Len(r)
  BY <1>1
<1>5. IsFiniteSet(1..n) /\ Cardinality(1..n) = n
  BY FS_Interval
<1>6. f \in Injection(1..n, Sessions)
  BY <1>3, <1>4
<1>7. n <= Cardinality(Sessions)
  BY <1>5, <1>6, FS_Injection, SessionAssumption
<1>. QED BY <1>4, <1>7

\* The plan has a process once and a lane once.
Separate(entries) ==
    \A i, j \in DOMAIN entries : i # j => entries[i].pid # entries[j].pid /\ entries[i].lane # entries[j].lane
LEMMA PlanSeparates ==
  ASSUME NEW graph \in Seq(Entries)
  PROVE  /\ build_process_loopback_plan(graph).entries \in Seq(Requests)
         /\ Separate(build_process_loopback_plan(graph).entries)
<1> DEFINE asked == [i \in DOMAIN graph |-> Request(graph[i])]
           requests == Met(asked)
           Fits(r) == r.pid # NoPid /\ \A q \in ToSet(requests) : r.pid = q.pid <=> r.lane = q.lane
<1>1. ASSUME NEW i \in 1..Len(graph) PROVE Request(graph[i]) \in Requests
  <2>1. graph[i] \in Entries OBVIOUS
  <2>. QED BY <2>1 DEF Request, Requests, Entries, Pids
<1>2. asked \in Seq(Requests)
  <2>1. Len(graph) \in Nat /\ DOMAIN graph = 1..Len(graph) OBVIOUS
  <2>. QED BY <1>1, <2>1
<1> HIDE DEF asked
<1>3. requests \in Seq(Requests) /\ Distinct(requests)
  BY <1>2, MetLists
<1> HIDE DEF requests
<1>4. ASSUME \A r \in ToSet(requests) : Fits(r),
             NEW i \in DOMAIN requests, NEW j \in DOMAIN requests, i # j
      PROVE  requests[i].pid # requests[j].pid /\ requests[i].lane # requests[j].lane
  <2>1. requests[i] \in Requests /\ requests[j] \in Requests BY <1>3
  <2>2. requests[i] # requests[j] BY <1>3, <1>4 DEF Distinct
  <2>3. requests[i] \in ToSet(requests) /\ requests[j] \in ToSet(requests) BY DEF ToSet
  <2>4. requests[i].pid = requests[j].pid <=> requests[i].lane = requests[j].lane
    BY <1>4, <2>3
  <2>5. ~(requests[i].pid = requests[j].pid /\ requests[i].lane = requests[j].lane)
    BY <2>1, <2>2 DEF Requests
  <2>. QED BY <2>4, <2>5
<1>5. CASE \A r \in ToSet(requests) : Fits(r)
  <2>1. Separate(requests) BY <1>4, <1>5 DEF Separate
  <2>2. build_process_loopback_plan(graph).entries = requests
        \/ build_process_loopback_plan(graph).entries = <<>>
    BY DEF build_process_loopback_plan, requests, asked
  <2>3. <<>> \in Seq(Requests) /\ Separate(<<>>) BY DEF Separate
  <2>. QED BY <1>3, <2>1, <2>2, <2>3
<1>6. CASE ~\A r \in ToSet(requests) : Fits(r)
  <2>1. build_process_loopback_plan(graph).entries = <<>>
    BY <1>6 DEF build_process_loopback_plan, requests, asked
  <2>. QED BY <2>1 DEF Separate
<1>. QED BY <1>5, <1>6

-----------------------------------------------------------------------------
(* The invariant *)

Places == Endpoints \cup {NoEndpoint}
Watchers ==
    [endpoint : Places, open : BOOLEAN, pending : Seq(Sessions), sequence : Nat, last : Nat]
Hosts ==
    [phase : {"idle", "unbinding", "bound", "polled", "draining"},
     bound : BOOLEAN, endpoint : Places, target : Places]
Catalogs == [sequence : Nat, generation : Nat, sessions : Seq(Sessions)]
Coordinators ==
    [bound : BOOLEAN, rules : Stores, registry : Registries, graph : Seq(Entries),
     generation : Nat, degraded : BOOLEAN]
Messages ==
    [kind : {"route", "volume"}, lane : Lanes \cup {NoLane}, sequence : Nat,
     generation : Nat, index : Nat, session : Sessions]
    \cup [kind : {"upsert"}, rule : Rules, sequence : Nat]
    \cup [kind : {"remove"}, id : {r.id : r \in Rules}, sequence : Nat]
    \cup [kind : {"clear"}, sequence : Nat]
Batches == [queue : Seq(Messages), expected : Nat, dirty : BOOLEAN]
Sources ==
    [active : BOOLEAN, pid : Pids, lane : LaneTexts, running : BOOLEAN, failures : Nat]

\* A watcher whose queue an enumeration took, or whose gate is closed as well.
LEMMA QueueTaken ==
  ASSUME NEW w \in Watchers
  PROVE  /\ [w EXCEPT !.pending = <<>>] \in Watchers
         /\ [w EXCEPT !.open = FALSE, !.pending = <<>>] \in Watchers
<1>1. ASSUME NEW v \in Watchers PROVE [v EXCEPT !.pending = <<>>] \in Watchers
  <2>1. ASSUME NEW q \in Seq(Sessions) PROVE [v EXCEPT !.pending = q] \in Watchers
    BY DEF Watchers
  <2>2. <<>> \in Seq(Sessions) OBVIOUS
  <2>. QED BY <2>1, <2>2, Zenon
<1>2. [w EXCEPT !.open = FALSE] \in Watchers
  BY DEF Watchers
<1>3. [[w EXCEPT !.open = FALSE] EXCEPT !.pending = <<>>] \in Watchers
  BY <1>1, <1>2
<1>4. [[w EXCEPT !.open = FALSE] EXCEPT !.pending = <<>>]
        = [w EXCEPT !.open = FALSE, !.pending = <<>>]
  OBVIOUS
<1>. QED BY <1>1, <1>3, <1>4

USE DEF Watchers, Hosts, Catalogs, Batches

SessionTypeOK ==
    /\ default \in Places
    /\ watcher \in Watchers
    /\ coordinator \in Coordinators
    /\ host \in Hosts
    /\ catalog \in Catalogs
    /\ mailbox \in SUBSET Messages /\ IsFiniteSet(mailbox)
    /\ batch \in Batches
    /\ sources \in [1..MaxSources -> Sources]

\* The loop has the coordinator bound in the phases that use it.
LoopIsBound ==
    /\ host.bound => coordinator.bound
    /\ host.phase \in {"bound", "polled", "draining"} => host.bound

\* A handle that names the newest catalog is of its generation and was read
\* from its entries.
Told(command) ==
    command.kind \in {"route", "volume"}
    => /\ command.sequence <= catalog.sequence /\ command.generation # 0
       /\ command.sequence = catalog.sequence
          => /\ command.generation = catalog.generation
             /\ command.index \in DOMAIN catalog.sessions
             /\ command.session = catalog.sessions[command.index]
HandlesTold ==
    /\ catalog.sequence # 0 => catalog.generation # 0
    /\ \A command \in mailbox : Told(command)
    /\ \A i \in DOMAIN batch.queue : Told(batch.queue[i])

\* The number a drain expects runs ahead of the catalog by its commits, and a
\* commit leaves a catalog to publish.
CommitsCounted ==
    host.phase = "draining" =>
        /\ batch.expected >= catalog.sequence
        /\ ~batch.dirty => batch.expected = catalog.sequence

\* The catalog has room for every session there can be.
FewSessions == Cardinality(Sessions) <= CatalogCapacity

\* Unless the drain has committed something, a coordinator that answers at all
\* has the sessions that the catalog lists, under the catalog's generation.
Uncommitted == host.phase = "draining" => batch.expected = catalog.sequence
Lists(published, c) ==
    /\ published.generation = c.generation
    /\ DOMAIN published.sessions = DOMAIN c.registry
    /\ \A i \in DOMAIN c.registry : published.sessions[i] = c.registry[i].session
Answers(c) == c.bound /\ ~c.degraded /\ c.generation # 0
CatalogIsFresh ==
    FewSessions /\ Answers(coordinator) /\ Uncommitted => Lists(catalog, coordinator)

CommandInv ==
    /\ SessionTypeOK /\ LoopIsBound /\ HandlesTold /\ CommitsCounted /\ CatalogIsFresh
    /\ FewSessions => RouteReachesNamedSession

-----------------------------------------------------------------------------
(* The coordinator *)

LEMMA DegradedIsOne ==
  ASSUME NEW c \in Coordinators
  PROVE  /\ Degraded(c) \in Coordinators /\ Degraded(c).degraded
         /\ Degraded(c).bound = c.bound /\ Degraded(c).generation = c.generation
  BY DEF Degraded, Coordinators

LEMMA GenerationStays ==
  ASSUME NEW c \in Coordinators, NEW n \in Nat
  PROVE  [c EXCEPT !.generation = n] \in Coordinators
  BY DEF Coordinators

\* A commit either takes the registry under the next generation or degrades.
LEMMA CommitMakes ==
  ASSUME NEW c \in Coordinators, NEW registry \in Registries
  PROVE  /\ Commit(c, registry) \in Coordinators
         /\ Commit(c, registry).bound = c.bound
         /\ \/ Commit(c, registry).degraded /\ Commit(c, registry).generation = c.generation
            \/ /\ ~Commit(c, registry).degraded
               /\ Commit(c, registry).registry = registry
               /\ Commit(c, registry).generation = c.generation + 1
<1> DEFINE kept == {i \in DOMAIN registry : registry[i].active /\ registry[i].lane # NoLane}
<1>1. Routed(registry) \in Seq(Entries)
  <2>1. registry \in Seq(Entries) /\ kept \in SUBSET DOMAIN registry BY DEF Registries
  <2>2. Routed(registry) = Picked(registry, kept) BY DEF Routed
  <2> HIDE DEF kept
  <2>. QED BY <2>1, <2>2, PickedTakes
<1>2. PICK routed \in Seq(Entries) : routed = Routed(registry)
  BY <1>1
<1>3. PICK d1 \in Coordinators : d1 = [c EXCEPT !.registry = registry, !.graph = routed]
  BY DEF Coordinators
<1>4. PICK d2 \in Coordinators : d2 = [d1 EXCEPT !.generation = @ + 1]
  <2>1. PICK next \in Nat : next = d1.generation + 1
    BY DEF Coordinators
  <2>2. [d1 EXCEPT !.generation = next] \in Coordinators
    BY GenerationStays
  <2>. QED BY <2>1, <2>2
<1>5. PICK d \in Coordinators : d = [d2 EXCEPT !.degraded = FALSE]
  <2>1. [d2 EXCEPT !.degraded = FALSE] \in Coordinators
    BY DEF Coordinators
  <2>. QED BY <2>1
<1>6. d.bound = c.bound /\ ~d.degraded /\ d.registry = registry /\ d.generation = c.generation + 1
  BY <1>3, <1>4, <1>5 DEF Coordinators
<1>7. d = [c EXCEPT !.registry = registry, !.graph = routed,
                    !.generation = @ + 1, !.degraded = FALSE]
  BY <1>3, <1>4, <1>5
<1>8. Commit(c, registry) = d \/ Commit(c, registry) = Degraded(c)
  BY <1>2, <1>7 DEF Commit
<1>. QED BY <1>6, <1>8, DegradedIsOne

\* What publishing does: the coordinator's sessions under the next number.
LEMMA PublishLists ==
  ASSUME NEW c \in Coordinators, publish_session_catalog(c),
         catalog \in Catalogs
  PROVE  /\ catalog' \in Catalogs
         /\ \/ catalog' = catalog
            \/ Answers(c) /\ catalog'.sequence = catalog.sequence + 1 /\ Lists(catalog', c)
         /\ FewSessions /\ Answers(c) => Lists(catalog', c)
<1> DEFINE listed == [i \in DOMAIN c.registry |-> c.registry[i].session]
           next == [sequence |-> catalog.sequence + 1, generation |-> c.generation, sessions |-> listed]
<1>1. c.registry \in Registries /\ c.generation \in Nat BY DEF Coordinators
<1>2. FewSessions => Len(c.registry) <= CatalogCapacity
  BY <1>1, RegistryFits, SessionAssumption, FS_CardinalityType DEF FewSessions
<1>3. listed \in Seq(Sessions)
  <2>1. c.registry \in Seq(Entries) BY <1>1 DEF Registries
  <2>2. Len(c.registry) \in Nat /\ DOMAIN c.registry = 1..Len(c.registry) BY <2>1
  <2>3. ASSUME NEW i \in 1..Len(c.registry) PROVE c.registry[i].session \in Sessions
    <3>1. c.registry[i] \in Entries BY <2>1
    <3>. QED BY <3>1 DEF Entries
  <2>. QED BY <2>2, <2>3
<1>4. /\ (catalog' = next /\ Answers(c)) \/ catalog' = catalog
      /\ FewSessions /\ Answers(c) => catalog' = next
  BY <1>2 DEF publish_session_catalog, Answers
<1>5. DOMAIN listed = DOMAIN c.registry /\ \A i \in DOMAIN c.registry : listed[i] = c.registry[i].session
  OBVIOUS
<1> HIDE DEF listed
<1>. QED BY <1>1, <1>3, <1>4, <1>5 DEF Lists

-----------------------------------------------------------------------------
(* Commands reach the session they name *)

LEMMA InitCommandInv == SessionInit => CommandInv
<1> SUFFICES ASSUME SessionInit PROVE CommandInv
  OBVIOUS
<1> USE DEF SessionInit
<1>1. EmptyStore \in Stores BY DEF EmptyStore, Stores
<1>2. <<>> \in Registries BY DEF Registries, OneEach
<1>3. coordinator \in Coordinators
  BY <1>1, <1>2 DEF Unbound, Coordinators
<1>4. Order[1] \in Sessions /\ default \in Places
  BY SessionAssumption DEF Places
<1>5. IsFiniteSet(mailbox) BY FS_EmptySet
<1>6. sources \in [1..MaxSources -> Sources]
  BY DEF Sources, NoSource, Pids, LaneTexts
<1>7. SessionTypeOK
  BY <1>3, <1>4, <1>5, <1>6 DEF SessionTypeOK, NoCatalog, Places
<1>8. LoopIsBound /\ HandlesTold /\ CommitsCounted
  BY DEF LoopIsBound, HandlesTold, CommitsCounted, NoCatalog
<1>9. CatalogIsFresh
  BY DEF CatalogIsFresh, Answers, Unbound
<1>. QED BY <1>7, <1>8, <1>9 DEF CommandInv, RouteReachesNamedSession

\* Windows and its callbacks touch nothing that commands rest on.
LEMMA WindowsKeeps ==
  ASSUME CommandInv, DefaultMoves \/ \E s \in Sessions : Create(s) \/ Change(s) \/ OnSessionCreated(s)
  PROVE  CommandInv'
<1>1. UNCHANGED <<coordinator, host, catalog, mailbox, batch, strayed, sources>>
  BY DEF DefaultMoves, Create, Change, OnSessionCreated, captureVars
<1>2. default' \in Places
  BY DEF DefaultMoves, Create, Change, OnSessionCreated, CommandInv, SessionTypeOK, Places
<1>3. watcher' \in Watchers
  <2>1. CASE UNCHANGED watcher BY <2>1 DEF CommandInv, SessionTypeOK
  <2>2. ASSUME NEW s \in Sessions, enqueue_pending_session(s)
        PROVE  watcher' \in Watchers
    <3> DEFINE queue == IF Len(watcher.pending) < PendingCapacity
                        THEN Append(watcher.pending, s) ELSE watcher.pending
    <3>1. queue \in Seq(Sessions) BY DEF CommandInv, SessionTypeOK
    <3>2. watcher' = [watcher EXCEPT !.sequence = @ + 1, !.pending = queue]
      BY <2>2 DEF enqueue_pending_session
    <3> HIDE DEF queue
    <3>3. watcher' = [endpoint |-> watcher.endpoint, open |-> watcher.open, pending |-> queue,
                      sequence |-> watcher.sequence + 1, last |-> watcher.last]
      BY <3>2 DEF CommandInv, SessionTypeOK
    <3>. QED BY <3>1, <3>3 DEF CommandInv, SessionTypeOK
  <2>. QED BY <2>1, <2>2 DEF DefaultMoves, Create, Change, OnSessionCreated, try_enter_callback
<1>4. SessionTypeOK'
  BY <1>1, <1>2, <1>3 DEF CommandInv, SessionTypeOK
<1>. QED BY <1>1, <1>4 DEF CommandInv, LoopIsBound, HandlesTold, Told, CommitsCounted, CatalogIsFresh,
          Answers, Uncommitted, Lists, RouteReachesNamedSession

\* Syncing and delivering touch the captures only.
LEMMA CapturesKeep ==
  ASSUME CommandInv, sources' \in [1..MaxSources -> Sources],
         UNCHANGED <<default, watcher, coordinator, host, catalog, mailbox, batch, strayed>>
  PROVE  CommandInv'
BY DEF CommandInv, SessionTypeOK, LoopIsBound, HandlesTold, Told, CommitsCounted, CatalogIsFresh,
       Answers, Uncommitted, Lists, RouteReachesNamedSession

\* A client copies a handle from the catalog that is published.
LEMMA SendKeeps ==
  ASSUME CommandInv, Send
  PROVE  CommandInv'
<1>0. /\ UNCHANGED <<default, watcher, coordinator, host, catalog, batch, strayed, sources>>
      /\ catalog.sequence # 0
  BY DEF Send, captureVars, windowsVars
<1>1. PICK command \in Commands \ mailbox : mailbox' = mailbox \cup {command}
  <2> HIDE DEF Commands
  <2>. QED BY DEF Send
<1>2. catalog \in Catalogs
  BY DEF CommandInv, SessionTypeOK
<1>3. command \in Messages /\ Told(command)
  <2>1. ASSUME NEW l \in Lanes \cup {NoLane}, NEW kind \in {"route", "volume"},
               NEW i \in Listed, command = ByHandle(kind, l, i)
        PROVE  command \in Messages /\ Told(command)
    <3>1. i \in Nat /\ catalog.sessions[i] \in Sessions BY <1>2 DEF Listed
    <3>2. command \in Messages BY <1>2, <2>1, <3>1 DEF ByHandle, Messages
    <3>3. catalog.generation # 0 BY <1>0 DEF CommandInv, HandlesTold
    <3>. QED BY <1>2, <2>1, <3>2, <3>3 DEF ByHandle, Told, Listed
  <2>2. ASSUME NEW r \in Rules,
               \/ command = [kind |-> "upsert", rule |-> r, sequence |-> catalog.sequence]
               \/ command = [kind |-> "remove", id |-> r.id, sequence |-> catalog.sequence]
        PROVE  command \in Messages /\ Told(command)
    BY <1>2, <2>2 DEF Messages, Told
  <2>3. CASE command = [kind |-> "clear", sequence |-> catalog.sequence]
    BY <1>2, <2>3 DEF Messages, Told
  <2>. QED BY <1>1, <2>1, <2>2, <2>3 DEF Commands
<1>4. mailbox' \in SUBSET Messages /\ IsFiniteSet(mailbox')
  BY <1>1, <1>3, FS_AddElement DEF CommandInv, SessionTypeOK
<1>5. SessionTypeOK'
  BY <1>0, <1>4 DEF CommandInv, SessionTypeOK
<1>6. HandlesTold'
  <2>1. \A c : Told(c)' <=> Told(c) BY <1>0 DEF Told
  <2>. QED BY <1>0, <1>1, <1>3, <2>1 DEF CommandInv, HandlesTold
<1>. QED BY <1>0, <1>5, <1>6 DEF CommandInv, LoopIsBound, CommitsCounted, CatalogIsFresh,
          Answers, Uncommitted, Lists, RouteReachesNamedSession

\* A poll that finds the endpoint as it was, or begins to follow another.
LEMMA PollDueKeeps ==
  ASSUME CommandInv, PollDue
  PROVE  CommandInv'
<1>0. UNCHANGED <<default, coordinator, catalog, mailbox, batch, strayed, sources>>
  BY DEF PollDue, Poll, FollowDefault, windowsVars, captureVars
<1>1. /\ watcher' \in Watchers
      /\ host' \in Hosts
      /\ host.phase = "idle" /\ host'.bound = host.bound
      /\ host'.phase \in {"polled", "unbinding"} /\ (host'.phase = "polled" => host.bound)
  <2>1. CASE Poll
    BY <2>1 DEF Poll, SameEndpoint, Phase, Goto, CommandInv, SessionTypeOK
  <2>2. CASE FollowDefault
    BY <2>2 DEF FollowDefault, Unbind, Phase, CommandInv, SessionTypeOK
  <2>. QED BY <2>1, <2>2 DEF PollDue
<1>2. SessionTypeOK'
  BY <1>0, <1>1 DEF CommandInv, SessionTypeOK
<1>3. LoopIsBound' /\ CommitsCounted'
  BY <1>0, <1>1 DEF CommandInv, LoopIsBound, CommitsCounted
<1>4. HandlesTold' /\ (FewSessions => RouteReachesNamedSession')
  BY <1>0 DEF CommandInv, HandlesTold, Told, RouteReachesNamedSession
<1>5. CatalogIsFresh'
  BY <1>0, <1>1 DEF CommandInv, CatalogIsFresh, Answers, Uncommitted, Lists
<1>. QED BY <1>2, <1>3, <1>4, <1>5 DEF CommandInv

\* A coordinator that is bound anew has no generation to answer under.
LEMMA RebindKeeps ==
  ASSUME CommandInv, Rebind, UNCHANGED <<windowsVars, mailbox, batch, strayed, captureVars>>
  PROVE  CommandInv'
<1>0. /\ UNCHANGED <<default, catalog, mailbox, batch, strayed, sources>>
      /\ host.phase = "unbinding"
  BY DEF Rebind, windowsVars, captureVars, Phase
<1>1. PICK e \in Places :
        /\ watcher' = Watching(e)
        /\ coordinator' = [Unbound(coordinator.rules) EXCEPT !.bound = e # NoEndpoint]
        /\ host' = [host EXCEPT !.phase = IF e = NoEndpoint THEN "idle" ELSE "bound",
                                !.bound = e # NoEndpoint, !.endpoint = e, !.target = NoEndpoint]
  <2>1. PICK fails \in BOOLEAN :
          LET e == IF fails THEN NoEndpoint ELSE host.target
          IN  /\ watcher' = Watching(e)
              /\ coordinator' = [Unbound(coordinator.rules) EXCEPT !.bound = e # NoEndpoint]
              /\ host' = [host EXCEPT !.phase = IF e = NoEndpoint THEN "idle" ELSE "bound",
                                      !.bound = e # NoEndpoint, !.endpoint = e,
                                      !.target = NoEndpoint]
    BY DEF Rebind
  <2>2. (IF fails THEN NoEndpoint ELSE host.target) \in Places
    BY DEF CommandInv, SessionTypeOK, Places
  <2>. QED BY <2>1, <2>2
<1> DEFINE bound == e # NoEndpoint
<1>b. bound \in BOOLEAN OBVIOUS
<1> HIDE DEF bound
<1>2. coordinator' = [bound |-> bound, rules |-> coordinator.rules, registry |-> <<>>, graph |-> <<>>,
                      generation |-> 0, degraded |-> FALSE]
  BY <1>1 DEF Unbound, bound
<1>3. coordinator' \in Coordinators
  <2>1. <<>> \in Registries BY DEF Registries, OneEach
  <2>2. coordinator.rules \in Stores BY DEF CommandInv, SessionTypeOK, Coordinators
  <2>. QED BY <1>2, <1>b, <2>1, <2>2 DEF Coordinators
<1>4. host' = [phase |-> IF e = NoEndpoint THEN "idle" ELSE "bound", bound |-> bound,
               endpoint |-> e, target |-> NoEndpoint]
  BY <1>1 DEF CommandInv, SessionTypeOK, bound
<1>5. host' \in Hosts
  BY <1>4, <1>b DEF Places
<1>6. watcher' \in Watchers
  <2>1. watcher' = [endpoint |-> e, open |-> bound, pending |-> <<>>, sequence |-> 0, last |-> 0]
    BY <1>1 DEF Watching, bound
  <2>. QED BY <2>1, <1>b
<1>7. SessionTypeOK'
  BY <1>0, <1>3, <1>5, <1>6 DEF CommandInv, SessionTypeOK
<1>8. LoopIsBound' /\ CommitsCounted'
  BY <1>2, <1>4, <1>b DEF LoopIsBound, CommitsCounted, bound
<1>9. HandlesTold' /\ (FewSessions => RouteReachesNamedSession')
  BY <1>0 DEF CommandInv, HandlesTold, Told, RouteReachesNamedSession
<1>10. CatalogIsFresh'
  BY <1>2 DEF CatalogIsFresh, Answers
<1>. QED BY <1>7, <1>8, <1>9, <1>10 DEF CommandInv

\* What publishing a coordinator's sessions leaves of the invariant.
LEMMA PublishKeeps ==
  ASSUME CommandInv, coordinator' \in Coordinators,
         \/ publish_session_catalog(coordinator')
         \/ UNCHANGED catalog /\ (FewSessions /\ Answers(coordinator') => Lists(catalog', coordinator'))
  PROVE  /\ catalog' \in Catalogs
         /\ catalog'.sequence # 0 => catalog'.generation # 0
         /\ \A command \in Messages : Told(command) => Told(command)'
         /\ FewSessions /\ Answers(coordinator') => Lists(catalog', coordinator')
<1>1. catalog \in Catalogs
  BY DEF CommandInv, SessionTypeOK
<1>2. catalog.sequence # 0 => catalog.generation # 0
  BY DEF CommandInv, HandlesTold
<1>3. CASE UNCHANGED catalog /\ (FewSessions /\ Answers(coordinator') => Lists(catalog', coordinator'))
  BY <1>1, <1>2, <1>3 DEF Told
<1>4. CASE publish_session_catalog(coordinator')
  <2>1. /\ catalog' \in Catalogs
        /\ \/ catalog' = catalog
           \/ /\ Answers(coordinator') /\ catalog'.sequence = catalog.sequence + 1
              /\ Lists(catalog', coordinator')
        /\ FewSessions /\ Answers(coordinator') => Lists(catalog', coordinator')
    BY <1>1, <1>4, PublishLists
  <2>2. CASE /\ Answers(coordinator') /\ catalog'.sequence = catalog.sequence + 1
             /\ Lists(catalog', coordinator')
    <3>1. coordinator'.generation # 0 BY <2>2 DEF Answers
    <3>2. \A command \in Messages : Told(command) => Told(command)'
      <4> SUFFICES ASSUME NEW command \in Messages, Told(command) PROVE Told(command)'
        OBVIOUS
      <4>1. CASE command.kind \in {"route", "volume"}
        <5>1. command.sequence <= catalog.sequence /\ command.generation # 0
          BY <4>1 DEF Told
        <5>2. command.sequence \in Nat BY <4>1 DEF Messages
        <5>. QED BY <1>1, <2>1, <2>2, <5>1, <5>2 DEF Told
      <4>2. CASE command.kind \notin {"route", "volume"} BY <4>2 DEF Told
      <4>. QED BY <4>1, <4>2
    <3>. QED BY <2>1, <2>2, <3>1, <3>2 DEF Lists
  <2>3. CASE catalog' = catalog
    BY <1>1, <1>2, <2>1, <2>3 DEF Told
  <2>. QED BY <2>1, <2>2, <2>3
<1>. QED BY <1>3, <1>4

\* The registry that an enumeration makes, its lanes kept or not.
LEMMA EnumerationMakes ==
  ASSUME CommandInv, NEW store \in Stores
  PROVE  /\ Registry(store, live, Enumeration) \in Registries
         /\ Kept(coordinator.registry, Registry(store, live, Enumeration)) \in Registries
<1>1. watcher.pending \in Seq(Sessions) /\ coordinator.registry \in Registries
  BY DEF CommandInv, SessionTypeOK, Coordinators
<1>2. Registry(store, live, Enumeration) \in Registries
  BY <1>1, EnumerationLists, RegistryLists
<1>. QED BY <1>1, <1>2, KeptLists

\* A refresh publishes what it took into the coordinator.
LEMMA RefreshKeeps ==
  ASSUME CommandInv, Refresh,
         UNCHANGED <<windowsVars, mailbox, batch, strayed, captureVars>>
  PROVE  CommandInv'
<1>0. /\ UNCHANGED <<default, mailbox, batch, strayed, sources>>
      /\ host.phase \in {"bound", "polled"}
      /\ publish_session_catalog(coordinator')
  BY DEF Refresh, windowsVars, captureVars
<1>1. coordinator \in Coordinators /\ coordinator.bound /\ host.bound
  BY <1>0 DEF CommandInv, SessionTypeOK, LoopIsBound
<1>2. PICK registry \in Registries :
        coordinator' = Degraded(coordinator) \/ coordinator' = Commit(coordinator, registry)
  <2>1. Kept(coordinator.registry, Registry(coordinator.rules, live, Enumeration)) \in Registries
    BY <1>1, EnumerationMakes DEF Coordinators
  <2>2. \E fails : coordinator' =
          Refreshed(coordinator,
                    Kept(coordinator.registry, Registry(coordinator.rules, live, Enumeration)),
                    fails)
    BY DEF Refresh
  <2>. QED BY <2>1, <2>2 DEF Refreshed
<1>3. coordinator' \in Coordinators /\ coordinator'.bound
  BY <1>1, <1>2, DegradedIsOne, CommitMakes
<1>4. /\ watcher' \in Watchers
      /\ host' \in Hosts
      /\ host'.phase \in {"idle", "unbinding"}
  <2>1. CASE /\ watcher' = [watcher EXCEPT !.open = FALSE, !.pending = <<>>]
             /\ host' = [host EXCEPT !.phase = "unbinding", !.target = NoEndpoint]
    <3>1. NoEndpoint \in Places BY DEF Places
    <3>2. watcher' \in Watchers
      BY <2>1, QueueTaken DEF CommandInv, SessionTypeOK
    <3>3. /\ host' \in Hosts
          /\ host'.phase = "unbinding"
      BY <2>1, <3>1 DEF CommandInv, SessionTypeOK
    <3>. QED BY <3>2, <3>3
  <2>2. CASE /\ watcher' = [watcher EXCEPT !.pending = <<>>]
             /\ host' = [host EXCEPT !.phase = "idle", !.bound = ~coordinator'.degraded]
    <3>1. PICK bound \in BOOLEAN : bound = ~coordinator'.degraded
      BY <1>3 DEF Coordinators
    <3>2. watcher' \in Watchers
      BY <2>2, QueueTaken DEF CommandInv, SessionTypeOK
    <3>3. /\ host' \in Hosts
          /\ host'.phase = "idle"
      BY <2>2, <3>1 DEF CommandInv, SessionTypeOK
    <3>. QED BY <3>2, <3>3
  <2>. QED BY <2>1, <2>2 DEF Refresh
<1>5. /\ catalog' \in Catalogs
      /\ catalog'.sequence # 0 => catalog'.generation # 0
      /\ \A command \in Messages : Told(command) => Told(command)'
      /\ FewSessions /\ Answers(coordinator') => Lists(catalog', coordinator')
  BY <1>0, <1>3, PublishKeeps
<1>6. SessionTypeOK'
  BY <1>0, <1>3, <1>4, <1>5 DEF CommandInv, SessionTypeOK
<1>7. LoopIsBound' /\ CommitsCounted'
  BY <1>3, <1>4 DEF LoopIsBound, CommitsCounted
<1>8. HandlesTold' /\ (FewSessions => RouteReachesNamedSession')
  BY <1>0, <1>5 DEF CommandInv, SessionTypeOK, HandlesTold, RouteReachesNamedSession
<1>9. CatalogIsFresh'
  BY <1>5 DEF CatalogIsFresh, Answers
<1>. QED BY <1>6, <1>7, <1>8, <1>9 DEF CommandInv

\* A drain takes over what has arrived, and expects the catalog that is out.
LEMMA BeginDrainKeeps ==
  ASSUME CommandInv, BeginDrain, UNCHANGED <<windowsVars, captureVars>>
  PROVE  CommandInv'
<1>0. /\ UNCHANGED <<default, watcher, coordinator, catalog, strayed, sources>>
      /\ host.phase = "idle"
      /\ host' = [host EXCEPT !.phase = IF host.bound THEN "draining" ELSE "idle"]
  BY DEF BeginDrain, windowsVars, captureVars, Phase, Goto
<1>1. PICK arrived \in SetToAllKPermutations(mailbox) :
        /\ batch' = [queue |-> IF host.bound THEN arrived ELSE <<>>,
                     expected |-> catalog.sequence, dirty |-> FALSE]
        /\ mailbox' = mailbox \ ToSet(arrived)
  BY DEF BeginDrain
<1>2. arrived \in Seq(Messages) /\ \A i \in DOMAIN arrived : arrived[i] \in mailbox
  <2>1. PICK some \in SUBSET mailbox : arrived \in SetToSeqs(some)
    BY <1>1 DEF SetToAllKPermutations
  <2>2. IsFiniteSet(some) /\ Cardinality(some) \in Nat
    BY FS_Subset, FS_CardinalityType DEF CommandInv, SessionTypeOK
  <2>3. arrived \in [1..Cardinality(some) -> some]
    BY <2>1 DEF SetToSeqs
  <2>4. arrived \in Seq(some) BY <2>2, <2>3
  <2>5. some \subseteq Messages BY DEF CommandInv, SessionTypeOK
  <2>. QED BY <2>3, <2>4, <2>5
<1>3. /\ batch' \in Batches
      /\ batch'.expected = catalog.sequence /\ ~batch'.dirty
      /\ \A i \in DOMAIN batch'.queue : batch'.queue[i] \in mailbox
  BY <1>1, <1>2 DEF CommandInv, SessionTypeOK
<1>4. mailbox' \in SUBSET Messages /\ IsFiniteSet(mailbox') /\ mailbox' \subseteq mailbox
  <2>1. mailbox' \subseteq mailbox BY <1>1
  <2>. QED BY <2>1, FS_Subset DEF CommandInv, SessionTypeOK
<1>5. /\ host' \in Hosts
      /\ host'.bound = host.bound /\ (host'.phase = "draining" => host.bound)
      /\ host'.phase \in {"idle", "draining"}
  BY <1>0 DEF CommandInv, SessionTypeOK
<1>6. SessionTypeOK'
  BY <1>0, <1>3, <1>4, <1>5 DEF CommandInv, SessionTypeOK
<1>7. LoopIsBound'
  BY <1>0, <1>5 DEF CommandInv, LoopIsBound
<1>8. CommitsCounted'
  BY <1>0, <1>3 DEF CommandInv, SessionTypeOK, CommitsCounted
<1>9. HandlesTold' /\ (FewSessions => RouteReachesNamedSession')
  BY <1>0, <1>3, <1>4 DEF CommandInv, HandlesTold, Told, RouteReachesNamedSession
<1>10. CatalogIsFresh'
  BY <1>0 DEF CommandInv, CatalogIsFresh, Answers, Uncommitted, Lists
<1>. QED BY <1>6, <1>7, <1>8, <1>9, <1>10 DEF CommandInv

\* A drain that has carried out something publishes what came of it.
LEMMA EndDrainKeeps ==
  ASSUME CommandInv, EndDrain, UNCHANGED <<windowsVars, captureVars>>
  PROVE  CommandInv'
<1>0. /\ UNCHANGED <<default, watcher, coordinator, mailbox, strayed, sources>>
      /\ host.phase = "draining" /\ host' = [host EXCEPT !.phase = "idle"]
      /\ batch' = [queue |-> <<>>, expected |-> 0, dirty |-> FALSE]
  BY DEF EndDrain, windowsVars, captureVars, Phase, Goto
<1>1. coordinator' \in Coordinators
  BY <1>0 DEF CommandInv, SessionTypeOK
<1>2. \/ publish_session_catalog(coordinator')
      \/ UNCHANGED catalog /\ (FewSessions /\ Answers(coordinator') => Lists(catalog', coordinator'))
  <2>1. CASE batch.dirty BY <1>0, <2>1 DEF EndDrain
  <2>2. CASE ~batch.dirty
    <3>1. UNCHANGED catalog BY <2>2 DEF EndDrain
    <3>2. Uncommitted BY <1>0, <2>2 DEF CommandInv, CommitsCounted, Uncommitted
    <3>. QED BY <1>0, <3>1, <3>2 DEF CommandInv, CatalogIsFresh
  <2>. QED BY <2>1, <2>2
<1>3. /\ catalog' \in Catalogs
      /\ catalog'.sequence # 0 => catalog'.generation # 0
      /\ \A command \in Messages : Told(command) => Told(command)'
      /\ FewSessions /\ Answers(coordinator') => Lists(catalog', coordinator')
  BY <1>1, <1>2, PublishKeeps
<1>4. /\ host' \in Hosts
      /\ host'.phase = "idle" /\ host'.bound = host.bound
      /\ batch' \in Batches
  <2>1. batch' \in Batches
    BY <1>0
  <2>2. host \in Hosts
    BY DEF CommandInv, SessionTypeOK
  <2>. QED BY <1>0, <2>1, <2>2
<1>5. SessionTypeOK'
  BY <1>0, <1>3, <1>4 DEF CommandInv, SessionTypeOK
<1>6. LoopIsBound' /\ CommitsCounted'
  BY <1>0, <1>4 DEF CommandInv, LoopIsBound, CommitsCounted
<1>7. HandlesTold' /\ (FewSessions => RouteReachesNamedSession')
  BY <1>0, <1>3 DEF CommandInv, SessionTypeOK, HandlesTold, RouteReachesNamedSession
<1>8. CatalogIsFresh'
  BY <1>3 DEF CatalogIsFresh, Answers
<1>. QED BY <1>5, <1>6, <1>7, <1>8 DEF CommandInv

-----------------------------------------------------------------------------
(* The commands of a drain *)

\* What a drained command may do: it counts a commit, or commits nothing.
Counts ==
    batch'.expected = batch.expected + 1 /\ batch'.dirty
CommitsNothing ==
    /\ batch'.expected = batch.expected /\ (batch.dirty => batch'.dirty)
    /\ coordinator' = coordinator \/ coordinator'.degraded

LEMMA DrainStepKeeps ==
  ASSUME CommandInv, host.phase = "draining", batch.queue # <<>>,
         UNCHANGED <<default, host, catalog, mailbox, sources>>,
         watcher' \in Watchers, coordinator' \in Coordinators, coordinator'.bound,
         batch' \in Batches, batch'.queue = Tail(batch.queue), FewSessions => strayed' = {},
         Counts \/ CommitsNothing
  PROVE  CommandInv'
<1>1. SessionTypeOK'
  BY DEF CommandInv, SessionTypeOK
<1>2. LoopIsBound'
  BY DEF CommandInv, LoopIsBound
<1>3. batch \in Batches /\ catalog.sequence \in Nat /\ batch' \in Batches
  BY DEF CommandInv, SessionTypeOK
<1>4. batch.expected >= catalog.sequence /\ (~batch.dirty => batch.expected = catalog.sequence)
  BY DEF CommandInv, CommitsCounted
<1>5. CommitsCounted'
  BY <1>3, <1>4 DEF CommitsCounted, Counts, CommitsNothing
<1>6. HandlesTold'
  <2>1. \A i \in DOMAIN Tail(batch.queue) : /\ i + 1 \in DOMAIN batch.queue
                                            /\ Tail(batch.queue)[i] = batch.queue[i + 1]
    BY <1>3
  <2>2. \A i \in DOMAIN Tail(batch.queue) : Told(Tail(batch.queue)[i])
    BY <2>1 DEF CommandInv, HandlesTold
  <2>3. \A command : Told(command)' <=> Told(command)
    BY DEF Told
  <2>. QED BY <2>2, <2>3 DEF CommandInv, HandlesTold
<1>7. CatalogIsFresh'
  <2>1. CASE Counts
    BY <1>3, <1>4, <2>1 DEF CatalogIsFresh, Uncommitted, Counts
  <2>2. CASE CommitsNothing
    BY <2>2 DEF CommandInv, CatalogIsFresh, Uncommitted, Answers, Lists, CommitsNothing
  <2>. QED BY <2>1, <2>2
<1>. QED BY <1>1, <1>2, <1>5, <1>6, <1>7 DEF CommandInv, RouteReachesNamedSession

\* What a drained command finds: it was told by the catalog that is out.
LEMMA CommandIsTold ==
  ASSUME CommandInv, batch.queue # <<>>
  PROVE  /\ Command \in Messages /\ Told(Command) /\ Tail(batch.queue) \in Seq(Messages)
         /\ batch \in Batches /\ watcher \in Watchers /\ coordinator \in Coordinators
         /\ FewSessions => strayed = {}
<1>1. /\ batch \in Batches /\ watcher \in Watchers /\ coordinator \in Coordinators
      /\ FewSessions => strayed = {}
  BY DEF CommandInv, SessionTypeOK, RouteReachesNamedSession
<1>2. 1 \in DOMAIN batch.queue /\ Command = batch.queue[1]
  BY <1>1 DEF Command
<1>3. Told(Command)
  BY <1>2 DEF CommandInv, HandlesTold
<1>4. Command \in Messages /\ Tail(batch.queue) \in Seq(Messages)
  BY <1>1, <1>2
<1>. QED BY <1>1, <1>3, <1>4

\* A handle of the number that is expected reaches the session it names: had
\* the drain committed something, the number would be ahead of every catalog.
LEMMA HandleReaches ==
  ASSUME FewSessions, CommandInv, host.phase = "draining", batch.queue # <<>>,
         Command.kind \in {"route", "volume"}, Current(Command), Reaches(Command)
  PROVE  coordinator.registry[Command.index].session = Command.session
<1>1. Command \in Messages /\ Told(Command) /\ batch \in Batches
  BY CommandIsTold
<1>2. Command.sequence \in Nat /\ catalog.sequence \in Nat
  BY <1>1 DEF CommandInv, SessionTypeOK, Messages
<1>3. batch.expected >= catalog.sequence
  BY DEF CommandInv, CommitsCounted
<1>4. Command.sequence = batch.expected /\ Command.sequence <= catalog.sequence
      /\ Command.generation # 0
  BY <1>1 DEF Current, Told
<1>5. Command.sequence = catalog.sequence /\ Uncommitted
  BY <1>1, <1>2, <1>3, <1>4 DEF Uncommitted
<1>6. /\ Command.index \in DOMAIN catalog.sessions
      /\ Command.session = catalog.sessions[Command.index]
  BY <1>1, <1>5 DEF Told
<1>7. Answers(coordinator)
  BY <1>4 DEF Reaches, Answers, CommandInv, LoopIsBound
<1>8. Lists(catalog, coordinator)
  BY <1>5, <1>7 DEF CommandInv, CatalogIsFresh
<1>. QED BY <1>6, <1>8 DEF Lists

LEMMA RouteKeeps ==
  ASSUME CommandInv, host.phase = "draining", batch.queue # <<>>, bind_session_route_handle,
         UNCHANGED <<default, host, catalog, mailbox, sources>>
  PROVE  CommandInv'
<1>1. /\ Command \in Messages /\ Tail(batch.queue) \in Seq(Messages) /\ (FewSessions => strayed = {})
      /\ batch \in Batches /\ watcher \in Watchers /\ coordinator \in Coordinators
  BY CommandIsTold
<1>2. FewSessions => coordinator.registry[Command.index].session = Command.session
  BY HandleReaches DEF bind_session_route_handle
<1>3. FewSessions => strayed' = {}
  BY <1>1, <1>2 DEF bind_session_route_handle, Stray
<1>4. coordinator.registry \in Registries /\ Command.lane \in LaneTexts
  BY <1>1 DEF Coordinators, Messages, LaneTexts, bind_session_route_handle
<1>5. Rebound \in Registries
  <2> DEFINE i == Command.index
             old == coordinator.registry
  <2>1. i \in DOMAIN old BY DEF bind_session_route_handle, Reaches
  <2>2. old \in Seq(Entries) /\ OneEach(old) /\ i \in 1..Len(old)
    BY <1>4, <2>1 DEF Registries
  <2>3. old[i] \in Entries BY <2>2
  <2>4. [old[i] EXCEPT !.lane = Command.lane] \in Entries
    BY <1>4, <2>3 DEF Entries
  <2>5. Rebound = [old EXCEPT ![i] = [old[i] EXCEPT !.lane = Command.lane]]
    BY DEF Rebound
  <2> HIDE DEF i, old
  <2>6. Rebound \in Seq(Entries) /\ DOMAIN Rebound = DOMAIN old
    BY <2>2, <2>4, <2>5
  <2>7. \A j \in DOMAIN old : Rebound[j].session = old[j].session
    BY <2>2, <2>3, <2>5 DEF Entries
  <2>. QED BY <2>2, <2>6, <2>7 DEF Registries, OneEach
<1>6. coordinator' \in Coordinators /\ coordinator'.bound
  BY <1>1, <1>5, CommitMakes DEF bind_session_route_handle, CommandInv, LoopIsBound
<1>7. batch' \in Batches /\ batch'.queue = Tail(batch.queue) /\ Counts /\ UNCHANGED watcher
  BY <1>1 DEF bind_session_route_handle, Counts
<1>. QED BY <1>1, <1>3, <1>6, <1>7, DrainStepKeeps

LEMMA VolumeKeeps ==
  ASSUME CommandInv, host.phase = "draining", batch.queue # <<>>, write_session_volume_handle,
         UNCHANGED <<default, host, catalog, mailbox, sources>>
  PROVE  CommandInv'
<1>1. /\ Command \in Messages /\ Tail(batch.queue) \in Seq(Messages) /\ (FewSessions => strayed = {})
      /\ batch \in Batches /\ watcher \in Watchers /\ coordinator \in Coordinators
  BY CommandIsTold
<1>2. FewSessions => coordinator.registry[Command.index].session = Command.session
  BY HandleReaches DEF write_session_volume_handle
<1>3. FewSessions => strayed' = {}
  BY <1>1, <1>2 DEF write_session_volume_handle, Stray
<1>4. UNCHANGED <<watcher, coordinator>> /\ coordinator.bound
  BY DEF write_session_volume_handle, CommandInv, LoopIsBound
<1>5. batch' = [queue |-> Tail(batch.queue), expected |-> batch.expected, dirty |-> TRUE]
  BY <1>1 DEF write_session_volume_handle
<1>6. batch' \in Batches /\ batch'.queue = Tail(batch.queue) /\ CommitsNothing
  BY <1>1, <1>4, <1>5 DEF CommitsNothing
<1>. QED BY <1>1, <1>3, <1>4, <1>6, DrainStepKeeps

\* The store that a rule command makes.
LEMMA CandidateMakes ==
  ASSUME NEW rules \in Stores, Command \in Messages, RuleStands
  PROVE  Candidate(rules) \in Stores
<1>1. CASE Command.kind = "upsert"
  <2>1. Command.rule \in Rules BY <1>1 DEF Messages
  <2>2. Candidate(rules) = [rules EXCEPT ![FirstOf(SlotFor(rules, Command.rule.id))] = Command.rule]
    BY <1>1 DEF Candidate, upsert
  <2>. QED BY <2>1, <2>2 DEF Stores
<1>2. CASE Command.kind = "remove"
  <2>1. Candidate(rules) = [i \in DOMAIN rules |->
                              IF rules[i].id = Command.id THEN NoRule ELSE rules[i]]
    BY <1>2 DEF Candidate, remove
  <2>. QED BY <2>1 DEF Stores
<1>3. CASE Command.kind = "clear"
  BY <1>3 DEF Candidate, EmptyStore, Stores
<1>. QED BY <1>1, <1>2, <1>3 DEF RuleStands

LEMMA RuleKeeps ==
  ASSUME CommandInv, host.phase = "draining", batch.queue # <<>>, apply_route_rule,
         UNCHANGED <<default, host, catalog, mailbox, sources>>
  PROVE  CommandInv'
<1>1. /\ Command \in Messages /\ Tail(batch.queue) \in Seq(Messages) /\ (FewSessions => strayed = {})
      /\ batch \in Batches /\ watcher \in Watchers /\ coordinator \in Coordinators
  BY CommandIsTold
<1>2. coordinator.rules \in Stores /\ coordinator.bound
  BY <1>1 DEF Coordinators, CommandInv, LoopIsBound
<1>3. PICK rules \in Stores, registry \in Registries :
        \E fails : coordinator' = set_rules_and_refresh(coordinator, rules, registry, fails)
  <2>1. Candidate(coordinator.rules) \in Stores
    BY <1>1, <1>2, CandidateMakes DEF apply_route_rule
  <2>2. Registry(Candidate(coordinator.rules), live, Enumeration) \in Registries
    BY <2>1, EnumerationMakes
  <2>3. \E fails : coordinator' =
          set_rules_and_refresh(coordinator, Candidate(coordinator.rules),
                                Registry(Candidate(coordinator.rules), live, Enumeration), fails)
    BY DEF apply_route_rule
  <2>. QED BY <2>1, <2>2, <2>3
<1>4. /\ coordinator' \in Coordinators /\ coordinator'.bound
  <2>1. [coordinator EXCEPT !.rules = rules] \in Coordinators
        /\ [coordinator EXCEPT !.rules = rules].bound = coordinator.bound
    BY <1>1, <1>3 DEF Coordinators
  <2> DEFINE c == [coordinator EXCEPT !.rules = rules]
  <2> HIDE DEF c
  <2>2. Commit(c, registry) \in Coordinators /\ Commit(c, registry).bound = coordinator.bound
    BY <2>1, CommitMakes DEF c
  <2>3. coordinator' = Degraded(coordinator) \/ coordinator' = Commit(c, registry)
    BY <1>3 DEF set_rules_and_refresh, c
  <2>. QED BY <1>1, <1>2, <2>2, <2>3, DegradedIsOne
<1>5. watcher' \in Watchers /\ (FewSessions => strayed' = {})
  BY <1>1, QueueTaken DEF apply_route_rule
<1>6. batch' \in Batches /\ batch'.queue = Tail(batch.queue) /\ (Counts \/ CommitsNothing)
  <2>1. CASE coordinator'.degraded
    <3>1. batch' = [queue |-> Tail(batch.queue), expected |-> batch.expected, dirty |-> batch.dirty]
      BY <1>1, <2>1 DEF apply_route_rule
    <3>. QED BY <1>1, <2>1, <3>1 DEF CommitsNothing
  <2>2. CASE ~coordinator'.degraded
    <3>1. batch' = [queue |-> Tail(batch.queue), expected |-> batch.expected + 1, dirty |-> TRUE]
      BY <2>2 DEF apply_route_rule
    <3>. QED BY <1>1, <3>1 DEF Counts
  <2>. QED BY <2>1, <2>2
<1>. QED BY <1>4, <1>5, <1>6, DrainStepKeeps

LEMMA SkippedKeeps ==
  ASSUME CommandInv, host.phase = "draining", batch.queue # <<>>, Skipped,
         UNCHANGED <<default, host, catalog, mailbox, sources>>
  PROVE  CommandInv'
<1>1. /\ Tail(batch.queue) \in Seq(Messages) /\ (FewSessions => strayed = {})
      /\ batch \in Batches /\ watcher \in Watchers /\ coordinator \in Coordinators
  BY CommandIsTold
<1>2. UNCHANGED <<watcher, coordinator, strayed>> /\ coordinator.bound
  BY DEF Skipped, CommandInv, LoopIsBound
<1>3. batch' = [queue |-> Tail(batch.queue), expected |-> batch.expected, dirty |-> batch.dirty]
  BY <1>1 DEF Skipped
<1>4. batch' \in Batches /\ batch'.queue = Tail(batch.queue) /\ CommitsNothing
  BY <1>1, <1>2, <1>3 DEF CommitsNothing
<1>. QED BY <1>1, <1>2, <1>4, DrainStepKeeps

-----------------------------------------------------------------------------
(* Captures *)

\* Delivering breaks captures and gives them up; it starts none.
LEMMA DeliverMakes ==
  ASSUME sources \in [1..MaxSources -> Sources], Deliver
  PROVE  /\ sources' \in [1..MaxSources -> Sources]
         /\ \A k \in 1..MaxSources :
               sources'[k].active
               => /\ sources[k].active
                  /\ sources'[k].pid = sources[k].pid /\ sources'[k].lane = sources[k].lane
<1>1. /\ sources' = [k \in 1..MaxSources |-> sources'[k]]
      /\ \A k \in 1..MaxSources :
            sources'[k] \in {[sources[k] EXCEPT !.running = FALSE], Failed(sources[k]), sources[k]}
  <2> DEFINE read == IF delivery.ready /\ host.bound
                     THEN {k \in DOMAIN sources :
                             /\ sources[k].active
                             /\ \E e \in ToSet(delivery.graph) : e.lane = sources[k].lane}
                     ELSE {}
             gone == {k \in read : ~sources[k].running}
  <2>1. PICK breaking :
          sources' = [k \in DOMAIN sources |->
                        IF k \in breaking THEN [sources[k] EXCEPT !.running = FALSE]
                        ELSE IF k \in gone THEN Failed(sources[k]) ELSE sources[k]]
    BY DEF Deliver
  <2> HIDE DEF gone
  <2>. QED BY <2>1
<1>2. ASSUME NEW s \in Sources
      PROVE  /\ [s EXCEPT !.running = FALSE] \in Sources /\ Failed(s) \in Sources
             /\ Failed(s).active => Failed(s) = [s EXCEPT !.failures = @ + 1]
  <2>1. [s EXCEPT !.running = FALSE] \in Sources
    BY DEF Sources
  <2>2. [s EXCEPT !.failures = @ + 1] \in Sources
    BY DEF Sources
  <2>3. /\ [s EXCEPT !.active = FALSE, !.pid = NoPid, !.failures = @ + 1] \in Sources
        /\ ~[s EXCEPT !.active = FALSE, !.pid = NoPid, !.failures = @ + 1].active
    <3>1. PICK p \in Pids : p = NoPid BY DEF Pids
    <3>3. [s EXCEPT !.active = FALSE] \in Sources BY DEF Sources
    <3>4. [[s EXCEPT !.active = FALSE] EXCEPT !.pid = p] \in Sources BY <3>3 DEF Sources
    <3>5. PICK x \in Sources : x = [[s EXCEPT !.active = FALSE] EXCEPT !.pid = p] BY <3>4
    <3>6. [x EXCEPT !.failures = @ + 1] \in Sources BY DEF Sources
    <3>8. [x EXCEPT !.failures = @ + 1]
          = [s EXCEPT !.active = FALSE, !.pid = NoPid, !.failures = @ + 1]
      BY <3>1, <3>5
    <3>7. ~[s EXCEPT !.active = FALSE, !.pid = NoPid, !.failures = @ + 1].active
      BY DEF Sources
    <3>. QED BY <3>6, <3>7, <3>8
  <2>. QED BY <2>1, <2>2, <2>3 DEF Failed
<1>3. ASSUME NEW k \in 1..MaxSources
      PROVE  /\ sources'[k] \in Sources
             /\ sources'[k].active
                => /\ sources[k].active
                   /\ sources'[k].pid = sources[k].pid /\ sources'[k].lane = sources[k].lane
  <2>1. sources[k] \in Sources OBVIOUS
  <2>2. sources'[k] \in {[sources[k] EXCEPT !.running = FALSE], Failed(sources[k]), sources[k]}
    BY <1>1
  <2>3. CASE sources'[k] = [sources[k] EXCEPT !.running = FALSE]
    BY <1>2, <2>1, <2>3 DEF Sources
  <2>4. CASE sources'[k] = Failed(sources[k])
    <3>1. Failed(sources[k]).active
          => Failed(sources[k]) = [sources[k] EXCEPT !.failures = @ + 1]
      BY <1>2, <2>1
    <3>2. /\ [sources[k] EXCEPT !.failures = @ + 1].active = sources[k].active
          /\ [sources[k] EXCEPT !.failures = @ + 1].pid = sources[k].pid
          /\ [sources[k] EXCEPT !.failures = @ + 1].lane = sources[k].lane
      BY <2>1 DEF Sources
    <3>. QED BY <1>2, <2>1, <2>4, <3>1, <3>2
  <2>5. CASE sources'[k] = sources[k] BY <2>1, <2>5
  <2>. QED BY <2>2, <2>3, <2>4, <2>5
<1>. QED BY <1>1, <1>3

\* Syncing keeps the captures that are still wanted and starts what is missing:
\* a capture that stays serves a request that is not missing.
LEMMA SyncMakes ==
  ASSUME sources \in [1..MaxSources -> Sources], coordinator \in Coordinators, SyncDue,
         OneCapturePerLane
  PROVE  sources' \in [1..MaxSources -> Sources] /\ OneCapturePerLane'
<1> DEFINE plan == Plan(coordinator)
           entries == plan.entries
<1>1. entries \in Seq(Requests) /\ Separate(entries)
  <2>1. coordinator.graph \in Seq(Entries) BY DEF Coordinators
  <2>2. plan = build_process_loopback_plan(coordinator.graph) \/ entries = <<>>
    BY DEF Plan
  <2>3. <<>> \in Seq(Requests) /\ Separate(<<>>) BY DEF Separate
  <2>. QED BY <2>1, <2>2, <2>3, PlanSeparates
<1>2. CASE UNCHANGED sources
  BY <1>2 DEF OneCapturePerLane
<1>3. CASE sync_delivery_sources(plan)
  <2> DEFINE lacking == {i \in DOMAIN entries : ~\E k \in DOMAIN sources : Serves(sources[k], entries[i])}
  <2>s. PICK staying \in {StillWanted(plan)}, missing \in {Missing(plan)} :
          \E free \in {FreeSlots(staying)} :
          \E failing \in SUBSET (DOMAIN free \cap DOMAIN missing) :
          /\ Spend(Cardinality(failing))
          /\ sources' = [k \in DOMAIN sources |->
               IF k \in staying THEN sources[k]
               ELSE IF \E i \in DOMAIN missing \ failing : i \in DOMAIN free /\ free[i] = k
               THEN LET r == missing[CHOOSE i \in DOMAIN free : free[i] = k]
                    IN  [active |-> TRUE, pid |-> r.pid, lane |-> r.lane,
                         running |-> TRUE, failures |-> 0]
               ELSE NoSource]
    BY <1>3, Zenon DEF sync_delivery_sources
  <2>0. PICK free \in {FreeSlots(staying)} :
          \E failing \in SUBSET (DOMAIN free \cap DOMAIN missing) :
          /\ Spend(Cardinality(failing))
          /\ sources' = [k \in DOMAIN sources |->
               IF k \in staying THEN sources[k]
               ELSE IF \E i \in DOMAIN missing \ failing : i \in DOMAIN free /\ free[i] = k
               THEN LET r == missing[CHOOSE i \in DOMAIN free : free[i] = k]
                    IN  [active |-> TRUE, pid |-> r.pid, lane |-> r.lane,
                         running |-> TRUE, failures |-> 0]
               ELSE NoSource]
    BY <2>s, Zenon
  <2>f. PICK failing \in SUBSET (DOMAIN free \cap DOMAIN missing) :
          /\ Spend(Cardinality(failing))
          /\ sources' = [k \in DOMAIN sources |->
               IF k \in staying THEN sources[k]
               ELSE IF \E i \in DOMAIN missing \ failing : i \in DOMAIN free /\ free[i] = k
               THEN LET r == missing[CHOOSE i \in DOMAIN free : free[i] = k]
                    IN  [active |-> TRUE, pid |-> r.pid, lane |-> r.lane,
                         running |-> TRUE, failures |-> 0]
               ELSE NoSource]
    BY <2>0, Zenon
  <2>e. staying = StillWanted(plan) /\ missing = Missing(plan) /\ free = FreeSlots(staying)
    OBVIOUS
  <2> DEFINE Starts(i, k) == i \in DOMAIN missing /\ i \in DOMAIN free /\ free[i] = k
             started(k) == missing[CHOOSE i \in DOMAIN free : free[i] = k]
  <2>1. sources' = [k \in DOMAIN sources |->
               IF k \in staying THEN sources[k]
               ELSE IF \E i \in DOMAIN missing \ failing : i \in DOMAIN free /\ free[i] = k
               THEN [active |-> TRUE, pid |-> started(k).pid, lane |-> started(k).lane,
                     running |-> TRUE, failures |-> 0]
               ELSE NoSource]
    BY <2>f
  <2>2. /\ missing \in Seq(Requests)
        /\ DOMAIN missing = DOMAIN InOrder(lacking)
        /\ \A k \in DOMAIN missing : InOrder(lacking)[k] \in lacking /\ missing[k] = entries[InOrder(lacking)[k]]
        /\ \A j, k \in DOMAIN missing : InOrder(lacking)[j] = InOrder(lacking)[k] => j = k
    <3>1. lacking \in SUBSET DOMAIN entries OBVIOUS
    <3>2. missing = Picked(entries, lacking) BY <2>e DEF Missing
    <3> HIDE DEF lacking, entries
    <3>. QED BY <1>1, <3>1, <3>2, PickedTakes
  <2>3. \A i, j \in DOMAIN free : free[i] = free[j] => i = j
    <3>1. 1..MaxSources \ staying \in SUBSET Nat /\ IsFiniteSet(1..MaxSources \ staying)
      <4>0. MaxSources \in Nat BY SessionAssumption
      <4>1. IsFiniteSet(1..MaxSources) /\ 1..MaxSources \subseteq Nat
        BY <4>0, FS_Interval
      <4>2. 1..MaxSources \ staying \in SUBSET (1..MaxSources) OBVIOUS
      <4>. QED BY <4>1, <4>2, FS_Subset
    <3>2. DOMAIN sources = 1..MaxSources OBVIOUS
    <3>3. free = InOrder(1..MaxSources \ staying) BY <2>e, <3>2 DEF FreeSlots
    <3>. QED BY <3>1, <3>3, InOrderCounts
  <2>4. \A k \in staying : \E i \in DOMAIN entries : Serves(sources[k], entries[i])
    BY <2>e DEF StillWanted, ToSet
  <2> HIDE DEF plan, entries
  <2>5. ASSUME NEW k \in 1..MaxSources, k \notin staying, NEW i, Starts(i, k)
        PROVE  started(k) = missing[i] /\ missing[i] \in Requests
    <3>1. (CHOOSE j \in DOMAIN free : free[j] = k) = i
      BY <2>3, <2>5
    <3>2. missing[i] \in Requests BY <2>2, <2>5
    <3>. QED BY <3>1, <3>2
  <2>6. ASSUME NEW k \in 1..MaxSources
        PROVE  /\ sources'[k] \in Sources
               /\ \/ k \in staying /\ sources'[k] = sources[k]
                  \/ ~sources'[k].active
                  \/ \E i : /\ Starts(i, k) /\ sources'[k].pid = missing[i].pid
                            /\ sources'[k].lane = missing[i].lane
    <3>1. CASE k \in staying BY <2>1, <3>1
    <3>2. CASE k \notin staying /\ \E i \in DOMAIN missing \ failing : i \in DOMAIN free /\ free[i] = k
      <4>1. PICK i : Starts(i, k) BY <3>2
      <4>2. started(k) = missing[i] /\ missing[i] \in Requests BY <2>5, <3>2, <4>1
      <4>3. sources'[k] = [active |-> TRUE, pid |-> missing[i].pid, lane |-> missing[i].lane,
                           running |-> TRUE, failures |-> 0]
        BY <2>1, <3>2, <4>2
      <4>. QED BY <4>1, <4>2, <4>3 DEF Requests, Sources
    <3>3. CASE k \notin staying /\ ~\E i \in DOMAIN missing \ failing : i \in DOMAIN free /\ free[i] = k
      <4>1. sources'[k] = NoSource BY <2>1, <3>3
      <4>. QED BY <4>1 DEF NoSource, Sources, Pids, LaneTexts
    <3>. QED BY <3>1, <3>2, <3>3
  <2>7. sources' \in [1..MaxSources -> Sources]
    <3>1. sources' = [k \in 1..MaxSources |-> sources'[k]] BY <2>1
    <3>. QED BY <2>6, <3>1
  <2>8. ASSUME NEW j \in 1..MaxSources, NEW k \in 1..MaxSources, j # k,
               NEW a \in DOMAIN missing, NEW b \in DOMAIN missing, Starts(a, j), Starts(b, k)
        PROVE  missing[a].pid # missing[b].pid /\ missing[a].lane # missing[b].lane
    <3>1. a # b BY <2>8
    <3>2. InOrder(lacking)[a] # InOrder(lacking)[b] BY <2>2, <3>1
    <3>. QED BY <1>1, <2>2, <3>2 DEF Separate
  <2>9. ASSUME NEW j \in staying, NEW b \in DOMAIN missing
        PROVE  sources[j].pid # missing[b].pid /\ sources[j].lane # missing[b].lane
    <3>1. PICK i \in DOMAIN entries : Serves(sources[j], entries[i]) BY <2>4
    <3>2. j \in DOMAIN sources BY <2>e DEF StillWanted
    <3>3. i # InOrder(lacking)[b] BY <2>2, <3>1, <3>2
    <3>4. sources[j].pid = entries[i].pid /\ sources[j].lane = entries[i].lane
      BY <3>1 DEF Serves
    <3>5. PICK l \in DOMAIN entries : l # i /\ missing[b] = entries[l]
      BY <2>2, <3>3
    <3>6. entries[i].pid # entries[l].pid /\ entries[i].lane # entries[l].lane
      BY <1>1, <3>1, <3>5 DEF Separate
    <3>. QED BY <3>4, <3>5, <3>6
  <2>10. ASSUME NEW j \in 1..MaxSources, NEW k \in 1..MaxSources, j # k,
                sources'[j].active, sources'[k].active
         PROVE  sources'[j].pid # sources'[k].pid /\ sources'[j].lane # sources'[k].lane
    <3>1. CASE j \in staying /\ sources'[j] = sources[j] /\ k \in staying /\ sources'[k] = sources[k]
      BY <2>10, <3>1 DEF OneCapturePerLane
    <3>2. CASE /\ j \in staying /\ sources'[j] = sources[j]
               /\ \E i : /\ Starts(i, k) /\ sources'[k].pid = missing[i].pid
                         /\ sources'[k].lane = missing[i].lane
      BY <2>9, <3>2
    <3>3. CASE /\ k \in staying /\ sources'[k] = sources[k]
               /\ \E i : /\ Starts(i, j) /\ sources'[j].pid = missing[i].pid
                         /\ sources'[j].lane = missing[i].lane
      BY <2>9, <3>3
    <3>4. CASE /\ \E i : /\ Starts(i, j) /\ sources'[j].pid = missing[i].pid
                         /\ sources'[j].lane = missing[i].lane
               /\ \E i : /\ Starts(i, k) /\ sources'[k].pid = missing[i].pid
                         /\ sources'[k].lane = missing[i].lane
      BY <2>8, <2>10, <3>4
    <3>. QED BY <2>6, <2>10, <3>1, <3>2, <3>3, <3>4
  <2>. QED BY <2>7, <2>10 DEF OneCapturePerLane
<1>. QED BY <1>2, <1>3 DEF SyncDue

-----------------------------------------------------------------------------
(* The theorems *)

\* Every step keeps the invariant, and the captures apart.
LEMMA SessionStep ==
  ASSUME CommandInv, OneCapturePerLane, [SessionNext]_sessionVars
  PROVE  CommandInv' /\ OneCapturePerLane'
<1>1. CASE PollDue
  BY <1>1, PollDueKeeps DEF PollDue, captureVars, OneCapturePerLane
<1>2. CASE SyncDue
  <2>1. /\ UNCHANGED <<default, watcher, coordinator, host, catalog, mailbox, batch, strayed>>
        /\ sources \in [1..MaxSources -> Sources] /\ coordinator \in Coordinators
    BY <1>2 DEF SyncDue, windowsVars, CommandInv, SessionTypeOK
  <2>. QED BY <1>2, <2>1, SyncMakes, CapturesKeep
<1>3. CASE DrainDue
  BY <1>3, BeginDrainKeeps DEF DrainDue, captureVars, OneCapturePerLane
<1>4. CASE Deliver
  <2>1. /\ UNCHANGED <<default, watcher, coordinator, host, catalog, mailbox, batch, strayed>>
        /\ sources \in [1..MaxSources -> Sources]
    BY <1>4 DEF Deliver, windowsVars, CommandInv, SessionTypeOK
  <2>2. /\ sources' \in [1..MaxSources -> Sources]
        /\ \A k \in 1..MaxSources :
              sources'[k].active
              => /\ sources[k].active
                 /\ sources'[k].pid = sources[k].pid /\ sources'[k].lane = sources[k].lane
    BY <1>4, <2>1, DeliverMakes
  <2>3. OneCapturePerLane'
    BY <2>1, <2>2 DEF OneCapturePerLane
  <2>. QED BY <2>1, <2>2, <2>3, CapturesKeep
<1>5. CASE PollGoesOn
  BY <1>5, RebindKeeps, RefreshKeeps DEF PollGoesOn, captureVars, OneCapturePerLane
<1>6. CASE DrainGoesOn
  <2>1. UNCHANGED <<windowsVars, captureVars>> /\ UNCHANGED <<default, sources>>
    BY <1>6 DEF DrainGoesOn, windowsVars, captureVars
  <2>2. CASE DrainOne
    <3>1. host.phase = "draining" /\ batch.queue # <<>> /\ UNCHANGED <<host, catalog, mailbox>>
      BY <2>2 DEF DrainOne, Phase
    <3>. QED BY <2>1, <2>2, <3>1, RouteKeeps, VolumeKeeps, RuleKeeps, SkippedKeeps
           DEF DrainOne, OneCapturePerLane
  <2>3. CASE EndDrain
    BY <2>1, <2>3, EndDrainKeeps DEF OneCapturePerLane
  <2>. QED BY <1>6, <2>2, <2>3 DEF DrainGoesOn
<1>7. CASE DefaultMoves \/ \E s \in Sessions : Create(s) \/ Change(s) \/ OnSessionCreated(s)
  <2>1. UNCHANGED sources
    BY <1>7 DEF DefaultMoves, Create, Change, OnSessionCreated, captureVars
  <2>. QED BY <1>7, <2>1, WindowsKeeps DEF OneCapturePerLane
<1>8. CASE Send
  BY <1>8, SendKeeps DEF Send, captureVars, OneCapturePerLane
<1>9. CASE UNCHANGED sessionVars
  <2>1. /\ UNCHANGED <<default, watcher, coordinator, host, catalog, mailbox, batch, strayed>>
        /\ UNCHANGED sources /\ sources \in [1..MaxSources -> Sources]
    BY <1>9 DEF sessionVars, windowsVars, captureVars, CommandInv, SessionTypeOK
  <2>. QED BY <2>1, CapturesKeep DEF OneCapturePerLane
<1>. QED BY <1>1, <1>2, <1>3, <1>4, <1>5, <1>6, <1>7, <1>8, <1>9 DEF SessionNext, GoesOn

LEMMA SessionInvariant == SessionSpec => [](CommandInv /\ OneCapturePerLane)
<1>1. SessionInit => CommandInv /\ OneCapturePerLane
  BY InitCommandInv DEF SessionInit, NoSource, OneCapturePerLane
<1>2. CommandInv /\ OneCapturePerLane /\ [SessionNext]_sessionVars
      => (CommandInv /\ OneCapturePerLane)'
  BY SessionStep
<1>. QED BY <1>1, <1>2, PTL DEF SessionSpec

\* The state of the engine's session routing stays in its types.
THEOREM SessionsAreTyped == SessionSpec => []SessionTypeOK
BY SessionInvariant, PTL DEF CommandInv

\* A route or volume command reaches the session its client picked, whatever
\* happened between the catalog it was built from and the drain that carries it
\* out, provided the catalog has room for every session there can be
\* (engine_preview.cpp:1151-1231).
THEOREM CommandsReachNamedSession ==
  ASSUME FewSessions
  PROVE  SessionSpec => []RouteReachesNamedSession
<1>1. CommandInv => RouteReachesNamedSession
  BY DEF CommandInv
<1>. QED BY <1>1, SessionInvariant, PTL

\* No process is captured twice and no lane is fed by two captures
\* (engine_preview.cpp:833-931).
THEOREM CapturesAreApart == SessionSpec => []OneCapturePerLane
BY SessionInvariant, PTL

\* A refresh that a new session causes leaves the lanes of the sessions that
\* stay active as they were (windows_audio_session_route.cpp:248-262).
THEOREM LanesSurvive == SessionSpec => AssignedLaneSurvives
<1> DEFINE Survives ==
      (host.phase # "draining" /\ coordinator'.generation > coordinator.generation
        /\ coordinator.generation # 0)
       => \A i \in DOMAIN coordinator.registry, j \in DOMAIN coordinator'.registry :
              LET e == coordinator.registry[i] f == coordinator'.registry[j]
              IN  (e.session = f.session /\ f.active /\ e.lane # NoLane)
                  => f.lane = e.lane
<1>1. CommandInv /\ [SessionNext]_sessionVars => [Survives]_sessionVars
  <2> SUFFICES ASSUME CommandInv, SessionNext PROVE Survives
    BY DEF sessionVars
  <2>0. coordinator \in Coordinators /\ coordinator.generation \in Nat
    BY DEF CommandInv, SessionTypeOK, Coordinators
  <2>1. CASE UNCHANGED coordinator
    BY <2>0, <2>1
  <2>2. CASE host.phase = "draining"
    BY <2>2
  <2>3. CASE Rebind
    <3>1. PICK fails \in BOOLEAN :
            LET e == IF fails THEN NoEndpoint ELSE host.target
            IN coordinator' = [Unbound(coordinator.rules) EXCEPT !.bound = e # NoEndpoint]
      BY <2>3 DEF Rebind
    <3>2. coordinator'.generation = 0
      BY <3>1 DEF Unbound
    <3>. QED BY <2>0, <3>2
  <2>4. CASE Refresh
    <3> DEFINE old == coordinator.registry
               new == Registry(coordinator.rules, live, Enumeration)
    <3>1. old \in Registries /\ new \in Registries /\ Kept(old, new) \in Registries
      BY <2>0, EnumerationMakes DEF Coordinators
    <3>2. coordinator' = Degraded(coordinator) \/ coordinator' = Commit(coordinator, Kept(old, new))
      BY <2>4 DEF Refresh, Refreshed
    <3> HIDE DEF old, new
    <3>3. \/ coordinator'.generation = coordinator.generation
          \/ coordinator'.registry = Kept(old, new)
      <4>1. Degraded(coordinator).generation = coordinator.generation
        BY <2>0, DegradedIsOne
      <4>2. \/ Commit(coordinator, Kept(old, new)).generation = coordinator.generation
            \/ Commit(coordinator, Kept(old, new)).registry = Kept(old, new)
        BY <2>0, <3>1, CommitMakes
      <4>. QED BY <3>2, <4>1, <4>2
    <3>4. CASE coordinator'.registry = Kept(old, new)
      <4>1. ASSUME NEW i \in DOMAIN old, NEW j \in DOMAIN Kept(old, new),
                   old[i].session = Kept(old, new)[j].session, Kept(old, new)[j].active,
                   old[i].lane # NoLane
            PROVE  Kept(old, new)[j].lane = old[i].lane
        BY <3>1, <4>1, KeptLists
      <4>. QED BY <3>4, <4>1 DEF old
    <3>. QED BY <2>0, <3>3, <3>4
  <2>5. UNCHANGED coordinator \/ host.phase = "draining" \/ Rebind \/ Refresh
    BY DEF SessionNext, PollDue, Poll, FollowDefault, SyncDue, DrainDue, BeginDrain, Deliver, GoesOn,
           PollGoesOn, DrainGoesOn, DrainOne, EndDrain, Phase, Create, Change, OnSessionCreated,
           DefaultMoves, Send
  <2>. QED BY <2>1, <2>2, <2>3, <2>4, <2>5
<1>2. SessionSpec => []CommandInv
  BY SessionInvariant, PTL
<1>. QED BY <1>1, <1>2, PTL DEF SessionSpec, AssignedLaneSurvives
=============================================================================

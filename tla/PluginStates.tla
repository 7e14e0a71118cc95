---------------------------- MODULE PluginStates ----------------------------
(***************************************************************************)
(* The private states of VST3 plug-ins and the Scenes that need them: the  *)
(* state store and the migration rules (vst3_plugin_state.cpp), the Scene  *)
(* coordinator that binds a Scene to states (vst3_scene_state.cpp) and the *)
(* preflight the engine runs before it prepares a Scene.                   *)
(*                                                                         *)
(* A state is the identity of the plug-in that wrote it, the version of    *)
(* its format and a size; its bytes are left out.  The three tables are    *)
(* arrays searched by key, so they are sets and partial functions of a     *)
(* bounded size here.  A migration handler belongs to the plug-in adapter: *)
(* it may succeed or fail, and write any number of bytes.                  *)
(***************************************************************************)
EXTENDS Integers, FiniteSets

CONSTANTS StateIds, SceneIds,
          Identities,       \* what a caller may present
          ValidIdentities,  \* those validate_vst3_plugin_state_identity_v1 accepts
          Versions,         \* format versions, 0 is the invalid one
          StateSizes,       \* how many bytes a plug-in hands over
          MaxBytes,         \* kVst3PluginStateMaxBytesV1
          StateSlots, RuleSlots, BindingSlots

ASSUME PluginStatesAssumption ==
  /\ ValidIdentities \subseteq Identities
  /\ Versions \subseteq Nat
  /\ StateSizes \subseteq Nat
  /\ {MaxBytes, StateSlots, RuleSlots, BindingSlots} \subseteq Nat \ {0}

VARIABLES
  stored,    \* state id -> state, for the occupied slots of the store
  rules,     \* the occupied slots of the migration registry
  bound,     \* <<scene, state id>> -> [identity, target]
  known      \* the coordinator knows a store and a registry

pluginVars == <<stored, rules, bound, known>>

States == [identity : Identities, version : Versions \ {0}, size : 0..MaxBytes]
Rules == [identity : Identities, source : Versions \ {0}, target : Versions \ {0}]
Bindings == [identity : Identities, target : Versions \ {0}]

\* slots[key] is overwritten, or a free one taken.
Put(table, key, value) ==
  [k \in DOMAIN table \cup {key} |-> IF k = key THEN value ELSE table[k]]

Without(table, keys) == [k \in DOMAIN table \ keys |-> table[k]]

HasRoom(table, key, slots) ==
  key \in DOMAIN table \/ Cardinality(DOMAIN table) < slots

---------------------------------------------------------------------------
(* Reading a state.                                                        *)

\* What both restores and inspect check before they look at the version.
Refused(id, identity) ==
  IF identity \notin ValidIdentities THEN "invalid_argument"
  ELSE IF id \notin DOMAIN stored THEN "missing"
  ELSE IF stored[id].identity # identity THEN "identity_mismatch"
  ELSE "ok"

Inspect(id, identity) == Refused(id, identity)

CopyOut(id, room) == IF room < stored[id].size THEN "output_too_small" ELSE "ok"

Restore(id, identity, version, room) ==
  IF Refused(id, identity) # "ok" THEN Refused(id, identity)
  ELSE IF stored[id].version # version THEN "version_mismatch"
  ELSE CopyOut(id, room)

\* What a handler may answer: a result and a count of bytes.
Handlers ==
  [result : {"ok", "migration_output_too_large", "failed"}, written : 0..MaxBytes + 1]

Bounded(room) == IF room < MaxBytes THEN room ELSE MaxBytes

\* The caller may have no handler at all (NoHandler is not a handler).
NoHandler == [result |-> "none", written |-> 0]

RestoreWithMigration(id, identity, version, room, handler) ==
  IF Refused(id, identity) # "ok" THEN Refused(id, identity)
  ELSE IF stored[id].version = version THEN CopyOut(id, room)
  ELSE IF handler = NoHandler THEN "migration_unavailable"
  ELSE IF handler.result = "failed" THEN "migration_failed"
  ELSE IF handler.result = "migration_output_too_large" THEN "migration_output_too_large"
  ELSE IF handler.written > Bounded(room) THEN "migration_output_too_large"
  ELSE "ok"

RulesTo(identity, target) ==
  {r \in rules : r.identity = identity /\ r.target = target}

HasRule(identity, source, target) ==
  [identity |-> identity, source |-> source, target |-> target] \in rules

RegistryRestore(id, identity, version, room, handler) ==
  LET exact == Restore(id, identity, version, room)
  IN  IF exact # "version_mismatch" THEN exact
      ELSE IF Cardinality(RulesTo(identity, version)) # 1 THEN "migration_unavailable"
      ELSE RestoreWithMigration(id, identity, version, room, handler)

---------------------------------------------------------------------------
(* A Scene's states.                                                       *)

SceneResult(result) ==
  CASE result = "missing" -> "missing_state"
    [] result = "migration_output_too_large" -> "output_too_large"
    [] result \in {"capacity_exhausted", "version_mismatch"} -> "invalid_argument"
    [] OTHER -> result

StatesOf(scene) == {id \in StateIds : <<scene, id>> \in DOMAIN bound}

\* The verdict of validate_scene on one binding.
BindingVerdict(scene, id) ==
  LET b == bound[<<scene, id>>]
      inspected == Inspect(id, b.identity)
  IN  IF inspected # "ok" THEN SceneResult(inspected)
      ELSE IF stored[id].size > MaxBytes THEN "output_too_large"
      ELSE IF stored[id].version # b.target /\ ~HasRule(b.identity, stored[id].version, b.target)
        THEN "migration_unavailable"
      ELSE "ok"

\* The first slot that fails decides; slots are in no order that matters here.
ValidateScene(scene) ==
  IF ~known THEN {"not_prepared"}
  ELSE IF StatesOf(scene) = {} THEN {"missing_binding"}
  ELSE LET failing == {id \in StatesOf(scene) : BindingVerdict(scene, id) # "ok"}
       IN  IF failing = {} THEN {"ok"} ELSE {BindingVerdict(scene, id) : id \in failing}

\* preflight_scene_vst3_state_v1: without any binding it lets every Scene pass.
Preflight(scene) == DOMAIN bound = {} \/ ValidateScene(scene) = {"ok"}

SceneRestore(scene, id, room, handler) ==
  IF ~known THEN "not_prepared"
  ELSE IF <<scene, id>> \notin DOMAIN bound THEN "missing_binding"
  ELSE SceneResult(RegistryRestore(id, bound[<<scene, id>>].identity,
                                   bound[<<scene, id>>].target, room, handler))

---------------------------------------------------------------------------
(* The operations.                                                         *)

Capture ==
  \E id \in StateIds, identity \in Identities, version \in Versions, size \in StateSizes :
    /\ identity \in ValidIdentities
    /\ version # 0
    /\ size <= MaxBytes
    /\ HasRoom(stored, id, StateSlots)
    /\ stored' = Put(stored, id, [identity |-> identity, version |-> version, size |-> size])
    /\ UNCHANGED <<rules, bound, known>>

RemoveState ==
  \E id \in DOMAIN stored :
    /\ stored' = Without(stored, {id})
    /\ UNCHANGED <<rules, bound, known>>

ClearStates ==
  /\ stored # <<>>
  /\ stored' = <<>>
  /\ UNCHANGED <<rules, bound, known>>

\* Mutant: any rule is taken.
AmbiguousNever(rule) == FALSE

\* A second source for a target the registry already reaches is refused.
Ambiguous(rule) ==
  \E r \in RulesTo(rule.identity, rule.target) : r.source # rule.source

RegisterRule ==
  \E identity \in Identities, source, target \in Versions :
    LET rule == [identity |-> identity, source |-> source, target |-> target]
    IN  /\ identity \in ValidIdentities
        /\ 0 \notin {source, target}
        /\ source # target
        /\ ~Ambiguous(rule)
        /\ rule \in rules \/ Cardinality(rules) < RuleSlots
        /\ rules' = rules \cup {rule}
        /\ UNCHANGED <<stored, bound, known>>

RemoveRule ==
  \E rule \in rules :
    /\ rules' = rules \ {rule}
    /\ UNCHANGED <<stored, bound, known>>

ClearRules ==
  /\ rules # {}
  /\ rules' = {}
  /\ UNCHANGED <<stored, bound, known>>

PrepareScenes ==
  /\ known' = TRUE
  /\ UNCHANGED <<stored, rules, bound>>

ClearScenes ==
  /\ known' = FALSE
  /\ bound' = <<>>
  /\ UNCHANGED <<stored, rules>>

Bind ==
  \E scene \in SceneIds, id \in StateIds, identity \in Identities, target \in Versions :
    /\ known
    /\ identity \in ValidIdentities
    /\ target # 0
    /\ HasRoom(bound, <<scene, id>>, BindingSlots)
    /\ bound' = Put(bound, <<scene, id>>, [identity |-> identity, target |-> target])
    /\ UNCHANGED <<stored, rules, known>>

Unbind ==
  \E key \in DOMAIN bound :
    /\ bound' = Without(bound, {key})
    /\ UNCHANGED <<stored, rules, known>>

PluginInit ==
  /\ stored = <<>>
  /\ rules = {}
  /\ bound = <<>>
  /\ known = FALSE

PluginNext ==
  \/ Capture \/ RemoveState \/ ClearStates
  \/ RegisterRule \/ RemoveRule \/ ClearRules
  \/ PrepareScenes \/ ClearScenes \/ Bind \/ Unbind

PluginSpec == PluginInit /\ [][PluginNext]_pluginVars

---------------------------------------------------------------------------
(* What the store, the registry and the coordinator promise.               *)

Rooms == 0..MaxBytes
Obliging(room) == [result |-> "ok", written |-> Bounded(room)]

\* The preflight is enough: when it lets a Scene with bindings pass, each of
\* the Scene's states can be restored into a buffer of the full size by a
\* handler that does its work (vst3_scene_state.cpp:116 and :142 read the rules
\* in two different ways, and only the refusal of a second source keeps both
\* answers the same).
PreflightIsEnough ==
  \A scene \in SceneIds :
    Preflight(scene) =>
      \A id \in StatesOf(scene) :
        SceneRestore(scene, id, MaxBytes, Obliging(MaxBytes)) = "ok"

\* vst3_plugin_state.hpp:113: "A missing or ambiguous rule is a hard migration
\* failure": a restore through the registry converts a state only by a rule from
\* the version that is stored.  TLC refutes it: the only rule to the target is
\* used whatever its source.
MissingRuleIsHardFailure ==
  \A id \in DOMAIN stored, version \in Versions \ {0}, room \in Rooms, handler \in Handlers :
    LET s == stored[id]
    IN  /\ RegistryRestore(id, s.identity, version, room, handler) = "ok"
        /\ s.version # version
        => HasRule(s.identity, s.version, version)
=============================================================================

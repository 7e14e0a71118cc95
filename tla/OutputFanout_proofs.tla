------------------------- MODULE OutputFanout_proofs -------------------------
(***************************************************************************)
(* Theorems about OutputFanout, for any number of sinks, blocks and clock  *)
(* observations.                                                           *)
(*                                                                         *)
(* Clocks are whole because a generation number is given out once between  *)
(* two resets: a reader that finds its token again knows that no writer    *)
(* has claimed a slot in between, and a writer stores only under a token   *)
(* that says so.  A refused block is undone because what it saved is what  *)
(* it began with, until it is rendered.  A sink keeps pace because what a  *)
(* block leaves over is within its history, whatever step the observations *)
(* have led it to.                                                         *)
(***************************************************************************)
EXTENDS OutputFanout, TLAPS

-----------------------------------------------------------------------------
(* The inductive invariant *)

Tokens == [gen : Nat, slot : 0..2, writing : BOOLEAN]
Own(t) == IF t = "audio" THEN {Clock(s) : s \in Sinks} ELSE {Request(s) : s \in Sinks}

Storing(t) == me[t].at \in {"first", "second", "publish"}
Writing(t) == me[t].at \in {"load", "look", "claim"} \/ Storing(t)
Copying(t) == me[t].at \in {"announce", "recheck", "readfirst", "readsecond", "after"}
Reading(t) == me[t].at = "before" \/ Copying(t)

SlotTypeOK ==
  /\ DOMAIN reg = Registers /\ DOMAIN me = Threads
  /\ \A r \in Registers :
       /\ DOMAIN reg[r] = {"token", "announced", "slots"} /\ reg[r].token \in Tokens
       /\ DOMAIN reg[r].slots = 0..2
       /\ \A k \in 0..2 : DOMAIN reg[r].slots[k] = {"first", "second"}
  /\ \A t \in Threads :
       /\ DOMAIN me[t] = {"at", "on", "seen", "slot", "first", "second", "tries"}
       /\ me[t].seen \in Tokens
       /\ Writing(t) => me[t].on \in Own(t)
       /\ Reading(t) => me[t].on \in Registers

\* A writer is alone on its register, and its slot holds what it has stored.
WriterAlone(t) ==
  /\ Writing(t) => me[t].first = me[t].second
  /\ me[t].at \in {"look", "claim"} => Mine(t).token = me[t].seen
  /\ me[t].at = "claim" \/ Storing(t) => me[t].slot \in 0..2
  /\ Storing(t) => Mine(t).token = [gen |-> me[t].seen.gen + 1, slot |-> me[t].slot, writing |-> TRUE]
  /\ me[t].at \in {"second", "publish"} => Mine(t).slots[me[t].slot].first = me[t].first
  /\ me[t].at = "publish" => Mine(t).slots[me[t].slot].second = me[t].second

\* What a reader has copied is the slot's as long as its token stands.
CopySound(t) ==
  /\ Copying(t) => /\ me[t].seen.gen # 0 /\ ~me[t].seen.writing /\ me[t].slot = me[t].seen.slot
                   /\ me[t].seen.gen <= Mine(t).token.gen
                   /\ me[t].seen.gen = Mine(t).token.gen => me[t].seen = Mine(t).token
  /\ me[t].at \in {"readsecond", "after"} /\ Mine(t).token = me[t].seen
       => me[t].first = Mine(t).slots[me[t].slot].first
  /\ me[t].at = "after" /\ Mine(t).token = me[t].seen
       => me[t].second = Mine(t).slots[me[t].slot].second

StableWhole ==
  \A r \in Registers :
    LET token == reg[r].token
    IN  token.gen # 0 /\ ~token.writing => reg[r].slots[token.slot].first = reg[r].slots[token.slot].second

SlotInv ==
  /\ SlotTypeOK /\ StableWhole /\ WholeClocks
  /\ \A t \in Threads : WriterAlone(t) /\ CopySound(t)

\* The audio thread: no register is in use between its calls, and what a block
\* may have to restore is what it began with.
BlockInv ==
  /\ DOMAIN audio = {"at", "sink", "n", "changed", "ok", "sinks", "applied"} /\ audio.sink \in Sinks
  /\ audio.at \in {"idle", "graph", "render"} => ThreadAt("audio", "free")
  /\ audio.at \in {"snapshot", "graph"} => start = <<sinks, applied>>
  /\ audio.at \in {"apply", "render"} => start = <<audio.sinks, audio.applied>>
  /\ audio.at = "idle" /\ ~audio.ok => start = <<sinks, applied>>

IInv == SlotInv /\ BlockInv

-----------------------------------------------------------------------------
(* Registers *)

LEMMA TargetFree ==
  ASSUME NEW token \in Tokens, NEW announced
  PROVE  TargetSlot(token, announced) \in 0..2
<1> DEFINE free(k) == k # announced /\ (token.gen = 0 \/ k # token.slot)
           least(k) == free(k) /\ \A j \in 0..2 : free(j) => k <= j
<1>1. free(0) \/ free(1) \/ free(2)
  BY DEF Tokens
<1>2. \E k \in 0..2 : least(k)
  <2>1. CASE free(0)
    <3>1. least(0)
      BY <2>1
    <3> QED
      BY <3>1
  <2>2. CASE ~free(0) /\ free(1)
    <3>1. least(1)
      BY <2>2
    <3> QED
      BY <3>1
  <2>3. CASE ~free(0) /\ ~free(1)
    <3>1. least(2)
      BY <1>1, <2>3
    <3> QED
      BY <3>1
  <2> QED
    BY <2>1, <2>2, <2>3
<1>3. TargetSlot(token, announced) = CHOOSE k \in 0..2 : least(k)
  BY DEF TargetSlot
<1> HIDE DEF least
<1> QED
  BY <1>2, <1>3

\* A register has one writer.
LEMMA OwnApart ==
  ASSUME NEW t \in Threads, NEW u \in Threads, t # u
  PROVE  /\ Own(t) \subseteq Registers
         /\ \A r \in Own(t) : r \notin Own(u)
BY OutputFanoutAssumption DEF Own, Clock, Request

LEMMA OwnRegisters == ASSUME NEW t \in Threads PROVE Own(t) \subseteq Registers
BY OutputFanoutAssumption DEF Own, Clock, Request

\* A thread that stays where it is keeps what it knows of a register that stands.
LEMMA StandingKeeps ==
  ASSUME SlotInv, NEW u \in Threads, me'[u] = me[u],
         Writing(u) \/ Copying(u) => /\ reg'[me[u].on].token = reg[me[u].on].token
                                     /\ reg'[me[u].on].slots = reg[me[u].on].slots
  PROVE  (WriterAlone(u) /\ CopySound(u))'
<1>1. WriterAlone(u) /\ CopySound(u)
  BY DEF SlotInv
<1>2. CASE Writing(u) \/ Copying(u)
  <2>1. Mine(u).token' = Mine(u).token /\ Mine(u).slots' = Mine(u).slots
    BY <1>2 DEF Mine
  <2> QED
    BY <1>1, <2>1 DEF WriterAlone, CopySound, Writing, Storing, Copying
<1>3. CASE ~(Writing(u) \/ Copying(u))
  BY <1>3 DEF WriterAlone, CopySound, Writing, Storing, Copying, Mine
<1> QED
  BY <1>2, <1>3

LEMMA SlotsSame == SlotInv /\ UNCHANGED slotVars => SlotInv'
<1> SUFFICES ASSUME SlotInv, UNCHANGED slotVars PROVE SlotInv'
  OBVIOUS
<1>1. reg' = reg /\ me' = me
  BY DEF slotVars
<1>2. SlotTypeOK'
  BY <1>1 DEF SlotInv, SlotTypeOK, Writing, Storing, Reading, Copying
<1>3. StableWhole'
  BY <1>1 DEF SlotInv, StableWhole
<1>4. WholeClocks'
  BY <1>1 DEF SlotInv, WholeClocks, ThreadAt
<1>5. \A t \in Threads : (WriterAlone(t) /\ CopySound(t))'
  BY <1>1, StandingKeeps
<1> QED
  BY <1>2, <1>3, <1>4, <1>5 DEF SlotInv

-----------------------------------------------------------------------------
(* Steps of a writer *)

\* Steps that change nothing but the thread's own place.
LEMMA LookKeeps ==
  ASSUME SlotInv, NEW t \in Threads, LoadToken(t) \/ LookAtReader(t)
  PROVE  SlotInv'
<1>1. /\ reg' = reg /\ DOMAIN me' = Threads
      /\ \A u \in Threads : u # t => me'[u] = me[u]
  BY DEF LoadToken, LookAtReader, SlotInv, SlotTypeOK
<1>2. me[t].on \in Registers /\ Writing(t)
  BY OwnRegisters DEF LoadToken, LookAtReader, ThreadAt, Writing, SlotInv, SlotTypeOK
<1>3. Mine(t).token \in Tokens
  BY <1>2 DEF Mine, SlotInv, SlotTypeOK
<1>6. ASSUME NEW u \in Threads, u # t PROVE (WriterAlone(u) /\ CopySound(u))'
  BY <1>1, <1>6, StandingKeeps
<1>4. CASE LoadToken(t)
  <2>1. me'[t] = [me[t] EXCEPT !.at = "look", !.seen = Mine(t).token]
    BY <1>4 DEF LoadToken, SlotInv, SlotTypeOK
  <2>2. /\ DOMAIN me'[t] = DOMAIN me[t] /\ me'[t].at = "look" /\ me'[t].seen = Mine(t).token
        /\ me'[t].on = me[t].on /\ me'[t].first = me[t].first /\ me'[t].second = me[t].second
    BY <2>1 DEF SlotInv, SlotTypeOK
  <2>3. SlotTypeOK'
    BY <1>1, <1>2, <1>3, <2>2 DEF SlotInv, SlotTypeOK, Writing, Storing, Reading, Copying
  <2>4. (WriterAlone(t) /\ CopySound(t))'
    BY <1>1, <1>2, <2>2 DEF SlotInv, WriterAlone, CopySound, Writing, Storing, Copying, Mine
  <2> QED
    BY <1>1, <1>6, <2>2, <2>3, <2>4 DEF SlotInv, StableWhole, WholeClocks, ThreadAt
<1>5. CASE LookAtReader(t)
  <2>1. me'[t] = [me[t] EXCEPT !.at = "claim", !.slot = TargetSlot(me[t].seen, Mine(t).announced)]
    BY <1>5 DEF LookAtReader, SlotInv, SlotTypeOK
  <2>2. /\ DOMAIN me'[t] = DOMAIN me[t] /\ me'[t].at = "claim" /\ me'[t].seen = me[t].seen
        /\ me'[t].on = me[t].on /\ me'[t].first = me[t].first /\ me'[t].second = me[t].second
        /\ me'[t].slot \in 0..2
    BY <2>1, TargetFree DEF SlotInv, SlotTypeOK
  <2>3. SlotTypeOK'
    BY <1>1, <1>2, <2>2 DEF SlotInv, SlotTypeOK, Writing, Storing, Reading, Copying
  <2>4. (WriterAlone(t) /\ CopySound(t))'
    <3>1. /\ me[t].at = "look" /\ Mine(t).token = me[t].seen /\ me[t].first = me[t].second
          /\ Mine(t)' = Mine(t)
      BY <1>1, <1>2, <1>5, <2>2 DEF LookAtReader, ThreadAt, SlotInv, WriterAlone, Mine
    <3> QED
      BY <2>2, <3>1 DEF WriterAlone, CopySound, Writing, Storing, Copying
  <2> QED
    BY <1>1, <1>6, <2>2, <2>3, <2>4 DEF SlotInv, StableWhole, WholeClocks, ThreadAt
<1> QED
  BY <1>4, <1>5

\* A step of thread t that changes register r, which it owns, and its own place, in
\* terms of what the others may rely on: the token either stands and is a writer's,
\* or moves on to a higher generation, or from writing to stable in the same one.
LEMMA OthersKeep ==
  ASSUME SlotInv, NEW t \in Threads, NEW u \in Threads, u # t, me'[u] = me[u],
         me[t].on \in Own(t),
         \A r \in Registers : r # me[t].on => reg'[r] = reg[r],
         LET old == reg[me[t].on].token
             new == reg'[me[t].on].token
         IN  \/ new.gen > old.gen
             \/ new.gen = old.gen /\ old.writing,
         reg'[me[t].on].token \in Tokens
  PROVE  (WriterAlone(u) /\ CopySound(u))'
<1> DEFINE r == me[t].on
<1>1. r \in Registers /\ r \notin Own(u) /\ reg[r].token \in Tokens
  BY OwnApart, OwnRegisters DEF SlotInv, SlotTypeOK
<1>2. Writing(u) => me[u].on # r /\ me[u].on \in Registers
  BY <1>1, OwnRegisters DEF SlotInv, SlotTypeOK
<1>3. WriterAlone(u)'
  <2>1. WriterAlone(u) /\ me'[u] = me[u]
    BY DEF SlotInv
  <2>2. Writing(u) => Mine(u)' = Mine(u)
    BY <1>2 DEF Mine
  <2> QED
    BY <2>1, <2>2 DEF WriterAlone, Writing, Storing
<1>4. CASE me[u].on # r
  <2>1. Writing(u) \/ Copying(u) => me[u].on \in Registers
    BY <1>2 DEF SlotInv, SlotTypeOK, Reading
  <2> QED
    BY <1>4, <2>1, StandingKeeps
<1>5. CASE me[u].on = r /\ Copying(u)
  <2>1. /\ me[u].seen.gen # 0 /\ ~me[u].seen.writing /\ me[u].slot = me[u].seen.slot
        /\ me[u].seen.gen <= reg[r].token.gen
        /\ me[u].seen.gen = reg[r].token.gen => me[u].seen = reg[r].token
    <3>1. CopySound(u) /\ Mine(u) = reg[r]
      BY <1>5 DEF SlotInv, Mine
    <3> QED
      BY <1>5, <3>1 DEF CopySound
  <2>2. me[u].seen \in Tokens
    BY DEF SlotInv, SlotTypeOK
  <2>3. me[u].seen.gen < reg'[r].token.gen
    BY <1>1, <2>1, <2>2 DEF Tokens
  <2> QED
    <3>1. /\ me'[u] = me[u] /\ me[u].on = r /\ reg[r].token.gen \in Nat /\ reg'[r].token.gen \in Nat
          /\ me[u].seen.gen \in Nat
      BY <1>1, <1>5, <2>2 DEF Tokens
    <3>2. Mine(u)'.token = reg'[r].token /\ reg'[r].token # me[u].seen
      BY <2>3, <3>1 DEF Mine
    <3>3. CopySound(u)'
      BY <2>1, <2>3, <3>1, <3>2 DEF CopySound, Copying
    <3> QED
      BY <1>3, <3>3
<1>6. CASE ~Copying(u)
  BY <1>3, <1>6 DEF CopySound, Copying, Mine
<1> QED
  BY <1>3, <1>4, <1>5, <1>6

LEMMA ClaimKeeps == ASSUME SlotInv, NEW t \in Threads, Claim(t) PROVE SlotInv'
<1> DEFINE r == me[t].on
<1>1. /\ me[t].at = "claim" /\ reg[r].token = me[t].seen /\ me[t].slot \in 0..2
      /\ r \in Own(t) /\ r \in Registers /\ me[t].seen \in Tokens
      /\ me[t].first = me[t].second
  BY OwnRegisters DEF Claim, ThreadAt, Mine, SlotInv, SlotTypeOK, Writing, Storing, WriterAlone
<1>2. /\ DOMAIN me' = Threads /\ \A u \in Threads : u # t => me'[u] = me[u]
      /\ me'[t] = [me[t] EXCEPT !.at = "first"]
  BY DEF Claim, Goes, SlotInv, SlotTypeOK
<1>3. /\ DOMAIN me'[t] = DOMAIN me[t] /\ me'[t].at = "first" /\ me'[t].seen = me[t].seen
      /\ me'[t].on = r /\ me'[t].first = me[t].first /\ me'[t].second = me[t].second
      /\ me'[t].slot = me[t].slot
  BY <1>2 DEF SlotInv, SlotTypeOK
<1>4. /\ DOMAIN reg' = Registers /\ \A q \in Registers : q # r => reg'[q] = reg[q]
      /\ reg'[r] = [reg[r] EXCEPT !.token = [gen |-> me[t].seen.gen + 1, slot |-> me[t].slot, writing |-> TRUE]]
  BY <1>1 DEF Claim, SlotInv, SlotTypeOK
<1>5. /\ DOMAIN reg'[r] = DOMAIN reg[r] /\ reg'[r].slots = reg[r].slots
      /\ reg'[r].token = [gen |-> me[t].seen.gen + 1, slot |-> me[t].slot, writing |-> TRUE]
      /\ reg'[r].token \in Tokens
  BY <1>1, <1>4 DEF SlotInv, SlotTypeOK, Tokens
<1>6. SlotTypeOK'
  <2>1. ASSUME NEW q \in Registers
        PROVE  /\ DOMAIN reg'[q] = {"token", "announced", "slots"} /\ reg'[q].token \in Tokens
               /\ DOMAIN reg'[q].slots = 0..2
               /\ \A j \in 0..2 : DOMAIN reg'[q].slots[j] = {"first", "second"}
    <3>1. CASE q = r
      BY <1>1, <1>5, <3>1 DEF SlotInv, SlotTypeOK
    <3>2. CASE q # r
      BY <1>4, <3>2 DEF SlotInv, SlotTypeOK
    <3> QED
      BY <3>1, <3>2
  <2>2. ASSUME NEW u \in Threads
        PROVE  /\ DOMAIN me'[u] = {"at", "on", "seen", "slot", "first", "second", "tries"}
               /\ me'[u].seen \in Tokens
               /\ Writing(u)' => me'[u].on \in Own(u)
               /\ Reading(u)' => me'[u].on \in Registers
    BY <1>1, <1>2, <1>3 DEF SlotInv, SlotTypeOK, Writing, Storing, Reading, Copying
  <2> QED
    BY <1>2, <1>4, <2>1, <2>2 DEF SlotTypeOK
<1>7. (WriterAlone(t) /\ CopySound(t))'
  BY <1>1, <1>3, <1>5 DEF WriterAlone, CopySound, Writing, Storing, Copying, Mine
<1>8. ASSUME NEW u \in Threads, u # t PROVE (WriterAlone(u) /\ CopySound(u))'
  <2>1. reg'[r].token.gen > reg[r].token.gen
    BY <1>1, <1>5 DEF Tokens
  <2> QED
    BY <1>1, <1>2, <1>4, <1>5, <1>8, <2>1, OthersKeep
<1>9. StableWhole'
  <2>1. reg'[r].token.writing
    BY <1>5
  <2>2. \A q \in Registers : q # r => reg'[q] = reg[q]
    BY <1>4
  <2> HIDE DEF r
  <2> QED
    BY <2>1, <2>2 DEF SlotInv, StableWhole
<1>10. WholeClocks'
  <2>1. \A u \in Threads : me'[u].at = "read" => me'[u] = me[u]
    BY <1>2, <1>3
  <2> QED
    BY <2>1 DEF SlotInv, WholeClocks, ThreadAt
<1> QED
  BY <1>6, <1>7, <1>8, <1>9, <1>10 DEF SlotInv

\* The stores of a payload leave the token, which says that it is written.
LEMMA StoreKeeps == ASSUME SlotInv, NEW t \in Threads, StoreFirst(t) \/ StoreSecond(t) PROVE SlotInv'
<1> DEFINE r == me[t].on
           k == me[t].slot
<1>1. /\ Storing(t) /\ Writing(t) /\ k \in 0..2 /\ r \in Own(t) /\ r \in Registers
      /\ me[t].seen \in Tokens /\ me[t].first = me[t].second
      /\ reg[r].token = [gen |-> me[t].seen.gen + 1, slot |-> k, writing |-> TRUE]
  BY OwnRegisters DEF StoreFirst, StoreSecond, ThreadAt, Mine, SlotInv, SlotTypeOK, Writing, Storing, WriterAlone
<1>2. /\ DOMAIN me' = Threads /\ \A u \in Threads : u # t => me'[u] = me[u]
      /\ DOMAIN me'[t] = DOMAIN me[t] /\ me'[t].seen = me[t].seen /\ me'[t].on = r
      /\ me'[t].first = me[t].first /\ me'[t].second = me[t].second /\ me'[t].slot = k
      /\ StoreFirst(t) => me'[t].at = "second"
      /\ StoreSecond(t) => me'[t].at = "publish"
  <2>1. DOMAIN me = Threads /\ DOMAIN me[t] = {"at", "on", "seen", "slot", "first", "second", "tries"}
    BY DEF SlotInv, SlotTypeOK
  <2>2. CASE StoreFirst(t)
    <3>1. me' = [me EXCEPT ![t].at = "second"] /\ ~StoreSecond(t)
      BY <2>2 DEF StoreFirst, StoreSecond, Goes, ThreadAt
    <3> QED
      BY <2>1, <3>1
  <2>3. CASE StoreSecond(t)
    <3>1. me' = [me EXCEPT ![t].at = "publish"] /\ ~StoreFirst(t)
      BY <2>3 DEF StoreFirst, StoreSecond, Goes, ThreadAt
    <3> QED
      BY <2>1, <3>1
  <2> QED
    BY <2>2, <2>3
<1>3. /\ DOMAIN reg' = Registers /\ \A q \in Registers : q # r => reg'[q] = reg[q]
      /\ DOMAIN reg'[r] = DOMAIN reg[r] /\ reg'[r].token = reg[r].token
      /\ DOMAIN reg'[r].slots = 0..2
      /\ \A j \in 0..2 : DOMAIN reg'[r].slots[j] = {"first", "second"}
      /\ StoreFirst(t) => reg'[r].slots[k].first = me[t].first
      /\ StoreSecond(t) => /\ reg'[r].slots[k].first = reg[r].slots[k].first
                           /\ reg'[r].slots[k].second = me[t].second
  <2>1. /\ DOMAIN reg = Registers /\ DOMAIN reg[r] = {"token", "announced", "slots"}
        /\ DOMAIN reg[r].slots = 0..2 /\ \A j \in 0..2 : DOMAIN reg[r].slots[j] = {"first", "second"}
    BY <1>1 DEF SlotInv, SlotTypeOK
  <2>2. CASE StoreFirst(t)
    <3>1. reg' = [reg EXCEPT ![r].slots[k].first = me[t].first]
      BY <2>2 DEF StoreFirst
    <3>2. ~StoreSecond(t)
      BY <2>2 DEF StoreFirst, StoreSecond, ThreadAt
    <3> QED
      BY <1>1, <2>1, <3>1, <3>2
  <2>3. CASE StoreSecond(t)
    <3>1. reg' = [reg EXCEPT ![r].slots[k].second = me[t].second]
      BY <2>3 DEF StoreSecond
    <3>2. ~StoreFirst(t)
      BY <2>3 DEF StoreFirst, StoreSecond, ThreadAt
    <3> QED
      BY <1>1, <2>1, <3>1, <3>2
  <2> QED
    BY <2>2, <2>3
<1>s. \/ StoreFirst(t) /\ me[t].at = "first"
      \/ StoreSecond(t) /\ me[t].at = "second"
  BY DEF StoreFirst, StoreSecond, ThreadAt
<1>w. (Writing(t) /\ Storing(t))' /\ ~Reading(t)' /\ ~Copying(t)'
  BY <1>2, <1>s DEF Writing, Storing, Reading, Copying
<1>m. Mine(t)' = reg'[r]
  BY <1>2 DEF Mine
<1> HIDE DEF r, k
<1>4. SlotTypeOK'
  <2>1. \A q \in Registers :
          /\ DOMAIN reg'[q] = {"token", "announced", "slots"} /\ reg'[q].token \in Tokens
          /\ DOMAIN reg'[q].slots = 0..2
          /\ \A j \in 0..2 : DOMAIN reg'[q].slots[j] = {"first", "second"}
    BY <1>1, <1>3 DEF SlotInv, SlotTypeOK
  <2>2. \A u \in Threads \ {t} :
          /\ DOMAIN me'[u] = {"at", "on", "seen", "slot", "first", "second", "tries"}
          /\ me'[u].seen \in Tokens
          /\ Writing(u)' => me'[u].on \in Own(u)
          /\ Reading(u)' => me'[u].on \in Registers
    BY <1>2 DEF SlotInv, SlotTypeOK, Writing, Storing, Reading, Copying
  <2>3. /\ DOMAIN me'[t] = {"at", "on", "seen", "slot", "first", "second", "tries"}
        /\ me'[t].seen \in Tokens /\ me'[t].on \in Own(t)
    BY <1>1, <1>2 DEF SlotInv, SlotTypeOK
  <2> QED
    BY <1>2, <1>3, <1>w, <2>1, <2>2, <2>3 DEF SlotTypeOK
<1>5. (WriterAlone(t) /\ CopySound(t))'
  <2>1. me'[t].at \in {"second", "publish"} => reg'[r].slots[k].first = me'[t].first
    <3>1. StoreSecond(t) => reg[r].slots[k].first = me[t].first
      BY <1>s DEF SlotInv, WriterAlone, Mine, StoreSecond, ThreadAt, r, k
    <3> QED
      BY <1>2, <1>3, <1>s, <3>1
  <2>2. me'[t].at = "publish" => reg'[r].slots[k].second = me'[t].second
    BY <1>2, <1>3, <1>s
  <2>3. me'[t].at \in {"second", "publish"}
    BY <1>2, <1>s
  <2>4. WriterAlone(t)'
    BY <1>1, <1>2, <1>3, <1>m, <2>1, <2>2, <2>3 DEF WriterAlone
  <2> QED
    BY <1>w, <2>3, <2>4 DEF CopySound
<1>6. ASSUME NEW u \in Threads, u # t PROVE (WriterAlone(u) /\ CopySound(u))'
  <2>1. reg[r].token \in Tokens /\ reg[r].token.writing
    BY <1>1 DEF SlotInv, SlotTypeOK
  <2> QED
    BY <1>1, <1>2, <1>3, <1>6, <2>1, OthersKeep DEF r
<1>7. StableWhole'
  <2>1. reg'[r].token.writing
    BY <1>1, <1>3
  <2>2. \A q \in Registers : q # r => reg'[q] = reg[q]
    BY <1>3
  <2> HIDE DEF r
  <2> QED
    BY <2>1, <2>2 DEF SlotInv, StableWhole
<1>8. WholeClocks'
  BY <1>2 DEF SlotInv, WholeClocks, ThreadAt
<1> QED
  BY <1>4, <1>5, <1>6, <1>7, <1>8 DEF SlotInv

\* The stable token is stored over a whole payload.
LEMMA PublishKeeps == ASSUME SlotInv, NEW t \in Threads, PublishClock(t) PROVE SlotInv'
<1> DEFINE r == me[t].on
           k == me[t].slot
<1>1. /\ Storing(t) /\ Writing(t) /\ k \in 0..2 /\ r \in Own(t) /\ r \in Registers
      /\ me[t].seen \in Tokens /\ me[t].first = me[t].second
      /\ reg[r].token = [gen |-> me[t].seen.gen + 1, slot |-> k, writing |-> TRUE]
      /\ reg[r].slots[k].first = me[t].first /\ reg[r].slots[k].second = me[t].second
  BY OwnRegisters DEF PublishClock, ThreadAt, Mine, SlotInv, SlotTypeOK, Writing, Storing, WriterAlone
<1>2. /\ DOMAIN me' = Threads /\ \A u \in Threads : u # t => me'[u] = me[u]
      /\ DOMAIN me'[t] = DOMAIN me[t] /\ me'[t].at = "written" /\ me'[t].seen = me[t].seen
  BY DEF PublishClock, Goes, SlotInv, SlotTypeOK
<1>3. /\ DOMAIN reg' = Registers /\ \A q \in Registers : q # r => reg'[q] = reg[q]
      /\ DOMAIN reg'[r] = DOMAIN reg[r] /\ reg'[r].slots = reg[r].slots
      /\ reg'[r].token = [gen |-> me[t].seen.gen + 1, slot |-> k, writing |-> FALSE]
  BY <1>1 DEF PublishClock, SlotInv, SlotTypeOK
<1>4. reg'[r].token \in Tokens
  BY <1>1, <1>3 DEF Tokens
<1>5. SlotTypeOK'
  <2>1. ASSUME NEW q \in Registers
        PROVE  /\ DOMAIN reg'[q] = {"token", "announced", "slots"} /\ reg'[q].token \in Tokens
               /\ DOMAIN reg'[q].slots = 0..2
               /\ \A j \in 0..2 : DOMAIN reg'[q].slots[j] = {"first", "second"}
    <3>1. CASE q = r
      <4>1. /\ DOMAIN reg[r] = {"token", "announced", "slots"} /\ DOMAIN reg[r].slots = 0..2
            /\ \A j \in 0..2 : DOMAIN reg[r].slots[j] = {"first", "second"}
        BY <1>1 DEF SlotInv, SlotTypeOK
      <4> HIDE DEF r
      <4> QED
        BY <1>3, <1>4, <3>1, <4>1
    <3>2. CASE q # r
      BY <1>3, <3>2 DEF SlotInv, SlotTypeOK
    <3> QED
      BY <3>1, <3>2
  <2>2. ASSUME NEW u \in Threads
        PROVE  /\ DOMAIN me'[u] = {"at", "on", "seen", "slot", "first", "second", "tries"}
               /\ me'[u].seen \in Tokens
               /\ Writing(u)' => me'[u].on \in Own(u)
               /\ Reading(u)' => me'[u].on \in Registers
    BY <1>1, <1>2 DEF SlotInv, SlotTypeOK, Writing, Storing, Reading, Copying
  <2> QED
    BY <1>2, <1>3, <2>1, <2>2 DEF SlotTypeOK
<1>6. (WriterAlone(t) /\ CopySound(t))'
  BY <1>2 DEF WriterAlone, CopySound, Writing, Storing, Copying
<1>7. ASSUME NEW u \in Threads, u # t PROVE (WriterAlone(u) /\ CopySound(u))'
  <2>1. reg'[r].token.gen = reg[r].token.gen /\ reg[r].token.writing
    BY <1>1, <1>3
  <2> QED
    BY <1>1, <1>2, <1>3, <1>4, <1>7, <2>1, OthersKeep
<1>8. StableWhole'
  <2>1. reg'[r].slots[reg'[r].token.slot].first = reg'[r].slots[reg'[r].token.slot].second
    BY <1>1, <1>3
  <2>2. \A q \in Registers : q # r => reg'[q] = reg[q]
    BY <1>3
  <2> HIDE DEF r, k
  <2> QED
    BY <2>1, <2>2 DEF SlotInv, StableWhole
<1>9. WholeClocks'
  BY <1>2 DEF SlotInv, WholeClocks, ThreadAt
<1> QED
  BY <1>5, <1>6, <1>7, <1>8, <1>9 DEF SlotInv

LEMMA WriteStepKeeps == ASSUME SlotInv, NEW t \in Threads, WriteStep(t) PROVE SlotInv'
BY LookKeeps, ClaimKeeps, StoreKeeps, PublishKeeps DEF WriteStep

-----------------------------------------------------------------------------
(* Steps of a reader *)

\* A reader changes no more of a register than the slot it announces.
TokensStand ==
  /\ DOMAIN reg' = Registers
  /\ \A r \in Registers :
       /\ DOMAIN reg'[r] = DOMAIN reg[r]
       /\ reg'[r].token = reg[r].token /\ reg'[r].slots = reg[r].slots

LEMMA ReaderKeeps ==
  ASSUME SlotInv, NEW t \in Threads, Reading(t), TokensStand, DOMAIN me' = Threads,
         \A u \in Threads : u # t => me'[u] = me[u],
         DOMAIN me'[t] = DOMAIN me[t], me'[t].on = me[t].on, me'[t].seen \in Tokens,
         ~Writing(t)', CopySound(t)', me'[t].at = "read" => me'[t].first = me'[t].second
  PROVE  SlotInv'
<1>1. SlotTypeOK'
  BY DEF SlotInv, SlotTypeOK, TokensStand, Writing, Storing, Reading, Copying
<1>2. ASSUME NEW u \in Threads, u # t PROVE (WriterAlone(u) /\ CopySound(u))'
  <2>1. Writing(u) \/ Copying(u) => me[u].on \in Registers
    BY OwnRegisters DEF SlotInv, SlotTypeOK, Reading
  <2> QED
    BY <1>2, <2>1, StandingKeeps DEF TokensStand
<1>3. WriterAlone(t)'
  BY DEF WriterAlone, Writing, Storing
<1>4. StableWhole' /\ WholeClocks'
  BY DEF SlotInv, StableWhole, WholeClocks, ThreadAt, TokensStand
<1> QED
  BY <1>1, <1>2, <1>3, <1>4 DEF SlotInv

\* The frame of a step that leaves the registers alone.
LEMMA PlaceFrame ==
  ASSUME SlotInv, reg' = reg
  PROVE  TokensStand
BY DEF SlotInv, SlotTypeOK, TokensStand

LEMMA AttemptFailsKeeps ==
  ASSUME SlotInv, NEW t \in Threads, NEW attempts, Reading(t), TokensStand,
         AttemptFails(t, attempts)
  PROVE  SlotInv'
<1>1. /\ DOMAIN me' = Threads /\ \A u \in Threads : u # t => me'[u] = me[u]
      /\ DOMAIN me'[t] = DOMAIN me[t] /\ me'[t].on = me[t].on /\ me'[t].seen = me[t].seen
      /\ me'[t].at \in {"before", "missed"}
  <2>1. \/ me' = [me EXCEPT ![t].at = "before", ![t].tries = @ + 1]
        \/ me' = [me EXCEPT ![t].at = "missed"]
    BY DEF AttemptFails, Goes
  <2> QED
    BY <2>1 DEF SlotInv, SlotTypeOK
<1>2. ~Writing(t)' /\ CopySound(t)' /\ me'[t].seen \in Tokens
  BY <1>1 DEF Writing, Storing, CopySound, Copying, SlotInv, SlotTypeOK
<1> QED
  BY <1>1, <1>2, ReaderKeeps

LEMMA BeforeKeeps == ASSUME SlotInv, NEW t \in Threads, NEW unwanted, Before(t, unwanted) PROVE SlotInv'
<1> DEFINE token == Mine(t).token
<1>1. /\ Reading(t) /\ token \in Tokens /\ token.gen # 0 /\ ~token.writing /\ reg' = reg
  BY DEF Before, ThreadAt, Reading, Mine, SlotInv, SlotTypeOK
<1>2. /\ DOMAIN me' = Threads /\ \A u \in Threads : u # t => me'[u] = me[u]
      /\ DOMAIN me'[t] = DOMAIN me[t] /\ me'[t].on = me[t].on
      /\ me'[t].seen = token /\ me'[t].slot = token.slot /\ me'[t].at = "announce"
  BY DEF Before, SlotInv, SlotTypeOK
<1>3. Mine(t)' = Mine(t)
  BY <1>1, <1>2 DEF Mine
<1>4. CopySound(t)' /\ ~Writing(t)'
  BY <1>1, <1>2, <1>3 DEF CopySound, Copying, Writing, Storing, Tokens
<1> QED
  BY <1>1, <1>2, <1>4, PlaceFrame, ReaderKeeps

\* Going on with a copy: what was known of it still is.
LEMMA CopyKeeps ==
  ASSUME SlotInv, NEW t \in Threads,
         Announce(t) \/ Recheck(t) \/ ReadFirst(t) \/ ReadSecond(t)
  PROVE  SlotInv'
<1>1. Copying(t) /\ Reading(t) /\ CopySound(t) /\ me[t].on \in Registers
  BY DEF Announce, Recheck, ReadFirst, ReadSecond, ThreadAt, Copying, Reading, SlotInv, SlotTypeOK
<1>2. TokensStand
  BY <1>1, PlaceFrame DEF Announce, Recheck, ReadFirst, ReadSecond, TokensStand, SlotInv, SlotTypeOK
<1>3. /\ DOMAIN me' = Threads /\ \A u \in Threads : u # t => me'[u] = me[u]
      /\ DOMAIN me'[t] = DOMAIN me[t] /\ me'[t].on = me[t].on
      /\ me'[t].seen = me[t].seen /\ me'[t].slot = me[t].slot
  BY DEF Announce, Recheck, ReadFirst, ReadSecond, Goes, SlotInv, SlotTypeOK
<1>4. Mine(t).token' = Mine(t).token /\ Mine(t).slots' = Mine(t).slots
  BY <1>1, <1>2, <1>3 DEF Mine, TokensStand
<1>5. \/ me'[t].at \in {"recheck", "readfirst"}
      \/ me'[t].at = "readsecond" /\ me'[t].first = Mine(t).slots[me[t].slot].first
      \/ /\ me[t].at = "readsecond" /\ me'[t].at = "after" /\ me'[t].first = me[t].first
         /\ me'[t].second = Mine(t).slots[me[t].slot].second
  BY DEF Announce, Recheck, ReadFirst, ReadSecond, ThreadAt, Goes, SlotInv, SlotTypeOK
<1>6. CopySound(t)' /\ ~Writing(t)'
  BY <1>1, <1>3, <1>4, <1>5 DEF CopySound, Copying, Writing, Storing
<1>7. me'[t].seen \in Tokens /\ me'[t].at # "read"
  BY <1>3, <1>5 DEF SlotInv, SlotTypeOK
<1> QED
  BY <1>1, <1>2, <1>3, <1>6, <1>7, ReaderKeeps

\* The copy is accepted while its token stands: it is a stable slot's.
LEMMA AcceptKeeps == ASSUME SlotInv, NEW t \in Threads, AcceptCopy(t) PROVE SlotInv'
<1>1. /\ me[t].at = "after" /\ Copying(t) /\ Reading(t) /\ CopySound(t) /\ me[t].on \in Registers
      /\ Mine(t).token = me[t].seen
  BY DEF AcceptCopy, ThreadAt, Copying, Reading, SlotInv, SlotTypeOK
<1>2. me[t].first = me[t].second
  <2>1. /\ Mine(t).token.gen # 0 /\ ~Mine(t).token.writing /\ me[t].slot = Mine(t).token.slot
        /\ me[t].first = Mine(t).slots[me[t].slot].first
        /\ me[t].second = Mine(t).slots[me[t].slot].second
    BY <1>1 DEF CopySound
  <2>2. Mine(t).slots[Mine(t).token.slot].first = Mine(t).slots[Mine(t).token.slot].second
    BY <1>1, <2>1 DEF SlotInv, StableWhole, Mine
  <2> QED
    BY <2>1, <2>2
<1>3. TokensStand
  BY <1>1 DEF AcceptCopy, TokensStand, SlotInv, SlotTypeOK
<1>4. /\ DOMAIN me' = Threads /\ \A u \in Threads : u # t => me'[u] = me[u]
      /\ DOMAIN me'[t] = DOMAIN me[t] /\ me'[t].on = me[t].on /\ me'[t].seen = me[t].seen
      /\ me'[t].first = me[t].first /\ me'[t].second = me[t].second /\ me'[t].at = "read"
  BY DEF AcceptCopy, Goes, SlotInv, SlotTypeOK
<1>5. CopySound(t)' /\ ~Writing(t)' /\ me'[t].seen \in Tokens
  BY <1>4 DEF CopySound, Copying, Writing, Storing, SlotInv, SlotTypeOK
<1> QED
  BY <1>1, <1>2, <1>3, <1>4, <1>5, ReaderKeeps

LEMMA ReadStepKeeps ==
  ASSUME SlotInv, NEW t \in Threads, NEW unwanted, NEW attempts, ReadStep(t, unwanted, attempts)
  PROVE  SlotInv'
<1>1. CASE BeforeFails(t, unwanted, attempts)
  BY <1>1, PlaceFrame, AttemptFailsKeeps DEF BeforeFails, ThreadAt, Reading
<1>2. CASE (ThreadAt(t, "recheck") \/ ThreadAt(t, "after")) /\ Lost(t, attempts)
  <2>1. Reading(t) /\ me[t].on \in Registers
    BY <1>2 DEF ThreadAt, Reading, Copying, SlotInv, SlotTypeOK
  <2>2. TokensStand
    BY <1>2, <2>1 DEF Lost, TokensStand, SlotInv, SlotTypeOK
  <2> QED
    BY <1>2, <2>1, <2>2, AttemptFailsKeeps DEF Lost
<1> QED
  BY <1>1, <1>2, BeforeKeeps, CopyKeeps, AcceptKeeps DEF ReadStep

-----------------------------------------------------------------------------
(* The two threads *)

LEMMA FreeFields ==
  /\ DOMAIN Free = {"at", "on", "seen", "slot", "first", "second", "tries"}
  /\ Free.at = "free" /\ Free.seen \in Tokens
BY DEF Free, NoToken, Tokens

\* A thread leaves a register, or begins to write or to read one.
LEMMA EnterKeeps ==
  ASSUME SlotInv, NEW t \in Threads, NEW entry, reg' = reg, me' = [me EXCEPT ![t] = entry],
         \/ entry = Free
         \/ \E value : \E r \in Own(t) : entry = WriteBegins(t, r, value, value)
         \/ \E r \in Registers : entry = ReadBegins(t, r)
  PROVE  SlotInv'
<1>1. /\ DOMAIN me' = Threads /\ me'[t] = entry
      /\ \A u \in Threads : u # t => me'[u] = me[u]
  BY DEF SlotInv, SlotTypeOK
<1>2. /\ DOMAIN me[t] = {"at", "on", "seen", "slot", "first", "second", "tries"}
      /\ me[t].seen \in Tokens
  BY DEF SlotInv, SlotTypeOK
<1>3. /\ DOMAIN entry = DOMAIN me[t] /\ entry.seen \in Tokens
      /\ \/ entry.at = "free"
         \/ entry.at = "load" /\ entry.on \in Own(t) /\ entry.first = entry.second
         \/ entry.at = "before" /\ entry.on \in Registers
  BY <1>2, FreeFields DEF WriteBegins, ReadBegins
<1>4. SlotTypeOK'
  BY <1>1, <1>2, <1>3 DEF SlotInv, SlotTypeOK, Writing, Storing, Reading, Copying
<1>5. (WriterAlone(t) /\ CopySound(t))'
  BY <1>1, <1>3 DEF WriterAlone, CopySound, Writing, Storing, Copying, Mine
<1>6. ASSUME NEW u \in Threads, u # t PROVE (WriterAlone(u) /\ CopySound(u))'
  BY <1>1, <1>6, StandingKeeps
<1>7. StableWhole' /\ WholeClocks'
  BY <1>1, <1>3 DEF SlotInv, StableWhole, WholeClocks, ThreadAt
<1> QED
  BY <1>4, <1>5, <1>6, <1>7 DEF SlotInv

\* A step of one thread on a register leaves the other where it is.
LEMMA StepsApart ==
  ASSUME SlotInv, NEW t \in Threads, NEW u \in Threads, u # t, NEW unwanted, NEW attempts,
         WriteStep(t) \/ ReadStep(t, unwanted, attempts)
  PROVE  me'[u] = me[u]
<1>1. CASE WriteStep(t)
  BY <1>1 DEF WriteStep, LoadToken, LookAtReader, Claim, StoreFirst, StoreSecond, PublishClock, Goes,
              SlotInv, SlotTypeOK
<1>2. CASE ReadStep(t, unwanted, attempts)
  BY <1>2 DEF ReadStep, BeforeFails, Before, Announce, Lost, Recheck, ReadFirst, ReadSecond, AcceptCopy,
              AttemptFails, Goes, SlotInv, SlotTypeOK
<1> QED
  BY <1>1, <1>2

LEMMA TwoThreads == "audio" \in Threads /\ "control" \in Threads /\ "audio" # "control"
BY OutputFanoutAssumption

LEMMA SinkRegisters ==
  ASSUME NEW s \in Sinks
  PROVE  /\ Request(s) \in Registers /\ Clock(s) \in Registers
         /\ Request(s) \in Own("control") /\ Clock(s) \in Own("audio")
BY OutputFanoutAssumption DEF Request, Clock, Own

\* Steps of the control thread that do not touch the sinks.
LEMMA ControlCallsKeep ==
  ASSUME IInv,
         \/ \E s \in Sinks, target \in Targets : observe_clock(s, target)
         \/ \E s \in Sinks : SnapshotBegins(s)
         \/ ControlWrites \/ ControlReads \/ ControlReturns
  PROVE  IInv'
<1>1. SlotInv /\ BlockInv
  BY DEF IInv
<1>2. SlotInv' /\ me'["audio"] = me["audio"] /\ UNCHANGED <<sinks, applied, audio, start>>
  <2>1. ASSUME NEW s \in Sinks, NEW target \in Targets, observe_clock(s, target)
        PROVE  SlotInv' /\ me'["audio"] = me["audio"] /\ UNCHANGED <<sinks, applied, audio, start>>
    BY <1>1, <2>1, EnterKeeps, TwoThreads, SinkRegisters DEF observe_clock, SlotInv, SlotTypeOK
  <2>2. ASSUME NEW s \in Sinks, SnapshotBegins(s)
        PROVE  SlotInv' /\ me'["audio"] = me["audio"] /\ UNCHANGED <<sinks, applied, audio, start>>
    BY <1>1, <2>2, EnterKeeps, TwoThreads, SinkRegisters DEF SnapshotBegins, SlotInv, SlotTypeOK
  <2>3. CASE ControlWrites
    BY <1>1, <2>3, WriteStepKeeps, StepsApart, TwoThreads DEF ControlWrites, fanoutVars
  <2>4. CASE ControlReads
    BY <1>1, <2>4, ReadStepKeeps, StepsApart, TwoThreads DEF ControlReads, fanoutVars
  <2>5. CASE ControlReturns
    BY <1>1, <2>5, EnterKeeps, TwoThreads DEF ControlReturns, fanoutVars, SlotInv, SlotTypeOK
  <2> QED
    BY <2>1, <2>2, <2>3, <2>4, <2>5
<1>3. BlockInv'
  BY <1>1, <1>2 DEF BlockInv, ThreadAt
<1> QED
  BY <1>2, <1>3 DEF IInv

\* What prepare and reset make of a register.
LEMMA Restarted ==
  ASSUME SlotInv, NEW r \in Registers, NEW new,
         new = Invalidated(r) \/ \E first : new = Rewritten(r, first, first)
  PROVE  /\ DOMAIN new = {"token", "announced", "slots"} /\ new.token \in Tokens
         /\ DOMAIN new.slots = 0..2
         /\ \A k \in 0..2 : DOMAIN new.slots[k] = {"first", "second"}
         /\ new.token.gen # 0 /\ ~new.token.writing
              => new.slots[new.token.slot].first = new.slots[new.token.slot].second
<1>1. /\ DOMAIN reg[r] = {"token", "announced", "slots"} /\ DOMAIN reg[r].slots = 0..2
      /\ \A k \in 0..2 : DOMAIN reg[r].slots[k] = {"first", "second"}
  BY DEF SlotInv, SlotTypeOK
<1>2. NoToken \in Tokens /\ NoToken.gen = 0
  BY DEF NoToken, Tokens
<1>3. CASE new = Invalidated(r)
  BY <1>1, <1>2, <1>3 DEF Invalidated
<1>4. CASE \E first : new = Rewritten(r, first, first)
  <2> DEFINE k == TargetSlot(NoToken, reg[r].announced)
             token == [gen |-> 1, slot |-> k, writing |-> FALSE]
  <2>1. k \in 0..2
    BY <1>2, TargetFree
  <2>2. token \in Tokens
    BY <2>1 DEF Tokens
  <2>3. PICK first : new = [reg[r] EXCEPT !.token = token,
                                          !.slots[k] = [first |-> first, second |-> first]]
    BY <1>4 DEF Rewritten
  <2> HIDE DEF k
  <2> QED
    BY <1>1, <2>1, <2>2, <2>3
<1> QED
  BY <1>3, <1>4

\* prepare and reset find both threads outside every register.
LEMMA RestartKeeps == ASSUME IInv, Quiet, NEW fresh, Restart(fresh) PROVE IInv'
<1>1. /\ ~Writing("audio") /\ ~Reading("audio") /\ ~Writing("control") /\ ~Reading("control")
      /\ me["audio"].at = "free" /\ me["control"].at = "free"
  BY FreeFields
     DEF IInv, BlockInv, Quiet, ControlFree, ThreadAt, Writing, Storing, Reading, Copying
<1>2. me' = me /\ \A t \in Threads : ~Writing(t) /\ ~Reading(t) /\ me[t].at = "free"
  BY <1>1, OutputFanoutAssumption DEF Restart
<1>3. ASSUME NEW r \in Registers
      PROVE  /\ DOMAIN reg'[r] = {"token", "announced", "slots"} /\ reg'[r].token \in Tokens
             /\ DOMAIN reg'[r].slots = 0..2
             /\ \A k \in 0..2 : DOMAIN reg'[r].slots[k] = {"first", "second"}
             /\ reg'[r].token.gen # 0 /\ ~reg'[r].token.writing
                  => reg'[r].slots[reg'[r].token.slot].first = reg'[r].slots[reg'[r].token.slot].second
  <2>1. reg'[r] = IF r[1] = "request" THEN Invalidated(r)
                  ELSE Rewritten(r, Snapshot(fresh[r[2]]), Snapshot(fresh[r[2]]))
    BY DEF Restart
  <2>2. reg'[r] = Invalidated(r) \/ \E first : reg'[r] = Rewritten(r, first, first)
    BY <2>1, Zenon
  <2> QED
    BY <2>2, Restarted DEF IInv
<1>4. DOMAIN reg' = Registers
  BY DEF Restart
<1>5. SlotTypeOK'
  BY <1>2, <1>3, <1>4 DEF IInv, SlotInv, SlotTypeOK, Writing, Storing, Reading, Copying
<1>6. StableWhole'
  BY <1>3 DEF StableWhole
<1>7. WholeClocks'
  BY <1>2 DEF WholeClocks, ThreadAt
<1>8. \A t \in Threads : (WriterAlone(t) /\ CopySound(t))'
  BY <1>2 DEF WriterAlone, CopySound, Writing, Storing, Copying, Mine
<1>9. BlockInv'
  BY <1>1, <1>2, OutputFanoutAssumption DEF Restart, NoBlockInWork, BlockInv, ThreadAt
<1> QED
  BY <1>5, <1>6, <1>7, <1>8, <1>9 DEF IInv, SlotInv

LEMMA ControlKeeps == IInv /\ ControlThread => IInv'
BY ControlCallsKeep, RestartKeeps DEF ControlThread, prepare, reset

\* Fields of what the audio thread keeps of a block.
LEMMA AudioFields ==
  /\ DOMAIN NoBlockInWork = {"at", "sink", "n", "changed", "ok", "sinks", "applied"}
  /\ NoBlockInWork.sink \in Sinks /\ NoBlockInWork.at = "idle" /\ NoBlockInWork.ok
  /\ \A result \in BOOLEAN :
       /\ DOMAIN Over(result) = {"at", "sink", "n", "changed", "ok", "sinks", "applied"}
       /\ Over(result).sink \in Sinks /\ Over(result).at = "idle" /\ Over(result).ok = result
BY OutputFanoutAssumption DEF NoBlockInWork, Over

\* What a step of the audio thread does to the registers.
LEMMA AudioSlotsKeep == ASSUME IInv, AudioThread PROVE SlotInv'
<1>1. SlotInv /\ BlockInv /\ "audio" \in Threads /\ audio.sink \in Sinks /\ 1 \in Sinks
  BY TwoThreads, OutputFanoutAssumption DEF IInv, BlockInv
<1>2. CASE UNCHANGED slotVars
  BY <1>1, <1>2, SlotsSame
<1>3. CASE reg' = reg /\ me' = [me EXCEPT !["audio"] = Free]
  BY <1>1, <1>3, EnterKeeps
<1>4. CASE reg' = reg /\ \E s \in Sinks : \/ me' = [me EXCEPT !["audio"] = ReadBegins("audio", Clock(s))]
                                       \/ me' = [me EXCEPT !["audio"] = ReadBegins("audio", Request(s))]
  BY <1>1, <1>4, SinkRegisters, EnterKeeps
<1>5. CASE reg' = reg /\ \E s \in Sinks : me' = [me EXCEPT !["audio"] =
              WriteBegins("audio", Clock(s), Snapshot(sinks[s]), Snapshot(sinks[s]))]
  BY <1>1, <1>5, SinkRegisters, EnterKeeps
<1>6. CASE AudioReads \/ AudioPublishes
  BY <1>1, <1>6, ReadStepKeeps, WriteStepKeeps DEF AudioReads, AudioPublishes
<1>7. \/ UNCHANGED slotVars
      \/ reg' = reg /\ me' = [me EXCEPT !["audio"] = Free]
      \/ reg' = reg /\ \E s \in Sinks : \/ me' = [me EXCEPT !["audio"] = ReadBegins("audio", Clock(s))]
                                      \/ me' = [me EXCEPT !["audio"] = ReadBegins("audio", Request(s))]
      \/ reg' = reg /\ \E s \in Sinks : me' = [me EXCEPT !["audio"] =
              WriteBegins("audio", Clock(s), Snapshot(sinks[s]), Snapshot(sinks[s]))]
      \/ AudioReads \/ AudioPublishes
  <2>1. CASE \E n \in BlockSizes : BlockBegins(n)
    BY <1>1, <2>1 DEF BlockBegins
  <2>2. CASE SnapshotTaken
    BY <1>1, <2>2 DEF SnapshotTaken
  <2>3. CASE GraphFails \/ BlockRefused \/ NoRoom
    BY <2>3 DEF GraphFails, BlockRefused, NoRoom
  <2>4. CASE BlockTaken
    BY <1>1, <2>4 DEF BlockTaken
  <2>5. CASE ObservationApplied \/ NothingToApply
    BY <1>1, <2>5 DEF ObservationApplied, NothingToApply, NextSink
  <2>6. CASE Render
    BY <1>1, <2>6 DEF Render, slotVars
  <2>7. CASE SnapshotPublished
    BY <1>1, <2>7 DEF SnapshotPublished
  <2> QED
    BY <2>1, <2>2, <2>3, <2>4, <2>5, <2>6, <2>7 DEF AudioThread
<1> QED
  BY <1>2, <1>3, <1>4, <1>5, <1>6, <1>7

\* What a step of the audio thread does to the block and what it saved.
LEMMA AudioBlockKeeps == ASSUME IInv, AudioThread PROVE BlockInv'
<1>1. BlockInv /\ DOMAIN me = Threads /\ "audio" \in Threads /\ 1 \in Sinks
  BY TwoThreads, OutputFanoutAssumption DEF IInv, SlotInv, SlotTypeOK
<1> USE DEF BlockInv, ThreadAt, AudioAt
<1>2. CASE \E n \in BlockSizes : BlockBegins(n)
  BY <1>1, <1>2, AudioFields DEF BlockBegins
<1>3. CASE AudioReads
  BY <1>1, <1>3 DEF AudioReads, fanoutVars
<1>4. CASE SnapshotTaken
  BY <1>1, <1>4, FreeFields DEF SnapshotTaken
<1>5. CASE GraphFails \/ BlockRefused
  BY <1>1, <1>5, AudioFields DEF GraphFails, BlockRefused, slotVars
<1>6. CASE BlockTaken
  BY <1>1, <1>6 DEF BlockTaken
<1>7. CASE ObservationApplied \/ NothingToApply
  BY <1>1, <1>7, FreeFields DEF ObservationApplied, NothingToApply, NextSink
<1>8. CASE NoRoom
  BY <1>1, <1>8, AudioFields DEF NoRoom, slotVars
<1>9. CASE Render
  BY <1>1, <1>9, AudioFields DEF Render
<1>10. CASE AudioPublishes
  BY <1>1, <1>10 DEF AudioPublishes, fanoutVars
<1>11. CASE SnapshotPublished
  BY <1>1, <1>11, AudioFields, FreeFields DEF SnapshotPublished
<1> QED
  BY <1>2, <1>3, <1>4, <1>5, <1>6, <1>7, <1>8, <1>9, <1>10, <1>11 DEF AudioThread

-----------------------------------------------------------------------------
(* The theorems *)

LEMMA InitIInv == FanoutInit => IInv
<1> SUFFICES ASSUME FanoutInit PROVE IInv
  OBVIOUS
<1>1. PICK base \in Bases :
        /\ reg = [r \in Registers |->
                    IF r[1] = "request" THEN EmptyRegister
                    ELSE [EmptyRegister EXCEPT
                            !.token = [gen |-> 1, slot |-> 0, writing |-> FALSE],
                            !.slots[0] = [first |-> Snapshot(NewSink(base)),
                                          second |-> Snapshot(NewSink(base))]]]
        /\ me = [t \in Threads |-> Free] /\ audio = NoBlockInWork
  BY DEF FanoutInit
<1>2. \A t \in Threads : me[t] = Free
  BY <1>1
<1>3. /\ DOMAIN EmptyRegister = {"token", "announced", "slots"} /\ EmptyRegister.token \in Tokens
      /\ EmptyRegister.token.gen = 0 /\ DOMAIN EmptyRegister.slots = 0..2
      /\ \A k \in 0..2 : DOMAIN EmptyRegister.slots[k] = {"first", "second"}
  BY DEF EmptyRegister, NoToken, Tokens
<1>4. ASSUME NEW r \in Registers
      PROVE  /\ DOMAIN reg[r] = {"token", "announced", "slots"} /\ reg[r].token \in Tokens
             /\ DOMAIN reg[r].slots = 0..2
             /\ \A k \in 0..2 : DOMAIN reg[r].slots[k] = {"first", "second"}
             /\ reg[r].token.gen # 0 => reg[r].slots[reg[r].token.slot].first = reg[r].slots[reg[r].token.slot].second
  BY <1>1, <1>3 DEF Tokens
<1>5. SlotTypeOK
  BY <1>1, <1>2, <1>4, FreeFields DEF SlotTypeOK, Writing, Storing, Reading, Copying
<1>6. StableWhole
  BY <1>4 DEF StableWhole
<1>7. WholeClocks /\ \A t \in Threads : WriterAlone(t) /\ CopySound(t)
  BY <1>2, FreeFields DEF WholeClocks, ThreadAt, WriterAlone, CopySound, Writing, Storing, Copying
<1>8. BlockInv
  BY <1>1, <1>2, AudioFields, FreeFields, TwoThreads DEF BlockInv, ThreadAt
<1> QED
  BY <1>5, <1>6, <1>7, <1>8 DEF IInv, SlotInv

LEMMA NextKeeps == IInv /\ [FanoutNext]_runtimeVars => IInv'
<1> SUFFICES ASSUME IInv, [FanoutNext]_runtimeVars PROVE IInv'
  OBVIOUS
<1>1. CASE UNCHANGED runtimeVars
  <2>1. SlotInv'
    BY <1>1, SlotsSame DEF runtimeVars, IInv
  <2>2. BlockInv'
    BY <1>1 DEF runtimeVars, slotVars, fanoutVars, IInv, BlockInv, ThreadAt
  <2> QED
    BY <2>1, <2>2 DEF IInv
<1>2. CASE AudioThread
  BY <1>2, AudioSlotsKeep, AudioBlockKeeps DEF IInv
<1> QED
  BY <1>1, <1>2, ControlKeeps DEF FanoutNext

LEMMA InvariantIInv == FanoutSpec => []IInv
BY InitIInv, NextKeeps, PTL DEF FanoutSpec

\* An observation that is applied and a snapshot that is returned are whole
\* (output_fanout.cpp:36-76, 321-378).
THEOREM ClocksStayWhole == FanoutSpec => []WholeClocks
<1>1. IInv => WholeClocks
  BY DEF IInv, SlotInv
<1> QED
  BY <1>1, InvariantIInv, PTL

\* A block that is refused, at whichever sink, leaves every sink and its clock as they
\* were before it (output_fanout.cpp:380-435).
THEOREM RefusalsAreUndone == FanoutSpec => []RejectedBlockChangesNothing
<1>1. IInv => RejectedBlockChangesNothing
  BY DEF IInv, BlockInv, RejectedBlockChangesNothing
<1> QED
  BY <1>1, InvariantIInv, PTL

-----------------------------------------------------------------------------
(* Pace: the arithmetic of one sink *)

\* The integer arithmetic that the lemmas on steps and places rest on.
LEMMA DivBounds ==
  ASSUME NEW a \in Nat, NEW b \in Nat \ {0}
  PROVE  a \div b \in Nat /\ (a \div b) * b <= a /\ a < (a \div b) * b + b
OBVIOUS

LEMMA ProductsOrder ==
  ASSUME NEW x \in Int, NEW y \in Int, NEW g \in Nat \ {0}, x * g <= y * g
  PROVE  x <= y
OBVIOUS

LEMMA ProductsKeepOrder ==
  ASSUME NEW x \in Int, NEW y \in Int, NEW g \in Nat, x <= y
  PROVE  x * g <= y * g
OBVIOUS

LEMMA Distributes ==
  ASSUME NEW x \in Int, NEW y \in Int, NEW g \in Int
  PROVE  (x + y) * g = x * g + y * g /\ (x - y) * g = x * g - y * g /\ x * g \in Int
OBVIOUS

\* A sink is in pace with a lead l: what it holds of the stream is within its
\* history, and it holds nothing before its first block.
SinkStates ==
  [base : Nat, drift : -MaxDrift..MaxDrift, ratio : Int, step : Nat, shown : Nat, phase : Nat, has : BOOLEAN]

Paced(k, l) ==
  /\ k \in SinkStates /\ l \in Int
  /\ StepAllowed(k.base) /\ StepAllowed(k.step) /\ k.phase <= (History + 2) * Grid
  /\ k.has => -2 * Grid <= l - k.phase /\ l - k.phase <= 0
  /\ ~k.has => l = 0 /\ k.phase = 0

End(k, n) == IF k.has THEN History + n ELSE n
Available(k, n) == (End(k, n) - 2) * Grid - k.phase

\* The numbers a sink in pace works with.
LEMMA SinkFields ==
  ASSUME NEW k, NEW l, Paced(k, l), NEW n \in Nat \ {0}
  PROVE  /\ k.step \in Nat \ {0} /\ k.phase \in Nat /\ k.base \in Nat /\ k.has \in BOOLEAN
         /\ Grid <= 4 * k.step /\ k.step <= 4 * Grid
         /\ End(k, n) \in Nat /\ Available(k, n) \in Int
         /\ Grid \in Nat \ {0} /\ History \in Nat \ {0, 1}
BY OutputSinkAssumption, Distributes DEF Paced, SinkStates, StepAllowed, End, Available

\* The frames asked for reach past the end of what is available, by at most a step.
LEMMA RequiredTakes ==
  ASSUME NEW k, NEW l, Paced(k, l), NEW n \in Nat \ {0}
  PROVE  /\ Required(k, n) \in Nat
         /\ End(k, n) < 2 \/ Available(k, n) < 0 => Required(k, n) = 0
         /\ End(k, n) >= 2 /\ Available(k, n) >= 0
              => /\ Available(k, n) < Required(k, n) * k.step
                 /\ Required(k, n) * k.step <= Available(k, n) + k.step
<1> DEFINE end == End(k, n)
           available == Available(k, n)
           q == available \div k.step
<1>1. Required(k, n) = IF end < 2 \/ available < 0 THEN 0 ELSE q + 1
  BY DEF Required, End, Available
<1>2. k.step \in Nat \ {0} /\ end \in Nat /\ available \in Int
  BY SinkFields
<1>3. CASE end < 2 \/ available < 0
  BY <1>1, <1>2, <1>3
<1>4. CASE end >= 2 /\ available >= 0
  <2>1. available \in Nat
    BY <1>2, <1>4
  <2>2. q \in Nat /\ q * k.step <= available /\ available < q * k.step + k.step
    BY <1>2, <2>1, DivBounds
  <2>3. Required(k, n) = q + 1
    BY <1>1, <1>2, <1>4
  <2>4. (q + 1) * k.step = q * k.step + k.step
    BY <1>2, <2>2, Distributes
  <2> HIDE DEF q, end, available
  <2> QED
    BY <1>2, <1>4, <2>1, <2>2, <2>3, <2>4 DEF end, available
<1> QED
  BY <1>2, <1>3, <1>4

\* prepare, reset and an observation leave a sink in pace.
LEMMA PacedNew == ASSUME NEW base \in Nat, StepAllowed(base) PROVE Paced(NewSink(base), 0)
<1>1. (History + 2) * Grid \in Nat
  BY OutputSinkAssumption
<1> QED
  BY <1>1, OutputSinkAssumption DEF NewSink, Paced, SinkStates

LEMMA PacedReset == ASSUME NEW k, NEW l, Paced(k, l) PROVE Paced(ResetSink(k), 0)
<1>1. (History + 2) * Grid \in Nat
  BY OutputSinkAssumption
<1>2. k \in SinkStates /\ StepAllowed(k.base) /\ StepAllowed(k.step)
  BY DEF Paced
<1>3. ResetSink(k) \in SinkStates
  <2>1. 0 \in -MaxDrift..MaxDrift /\ 0 \in Int /\ 0 \in Nat /\ FALSE \in BOOLEAN /\ k.base \in Nat
    BY <1>2, OutputSinkAssumption DEF SinkStates
  <2>2. PICK a \in SinkStates : a = [k EXCEPT !.drift = 0]
    BY <1>2, <2>1 DEF SinkStates
  <2>3. PICK b \in SinkStates : b = [a EXCEPT !.ratio = 0]
    BY <2>1 DEF SinkStates
  <2>4. PICK c \in SinkStates : c = [b EXCEPT !.shown = k.base]
    BY <2>1 DEF SinkStates
  <2>5. PICK d \in SinkStates : d = [c EXCEPT !.phase = 0]
    BY <2>1 DEF SinkStates
  <2>6. PICK e \in SinkStates : e = [d EXCEPT !.has = FALSE]
    BY <2>1 DEF SinkStates
  <2>7. ResetSink(k) = e
    BY <1>2, <2>2, <2>3, <2>4, <2>5, <2>6 DEF ResetSink, SinkStates
  <2> QED
    BY <2>7
<1>4. /\ ResetSink(k).base = k.base /\ ResetSink(k).step = k.step
      /\ ResetSink(k).phase = 0 /\ ResetSink(k).has = FALSE
  BY <1>2 DEF ResetSink, SinkStates
<1> QED
  BY <1>1, <1>2, <1>3, <1>4, OutputSinkAssumption DEF Paced

LEMMA Clamped ==
  ASSUME NEW x \in Int PROVE Clamp(x, -MaxDrift, MaxDrift) \in -MaxDrift..MaxDrift
BY OutputSinkAssumption DEF Clamp

LEMMA PacedObserve ==
  ASSUME NEW k, NEW l, Paced(k, l), NEW target \in Int
  PROVE  Paced(ObserveClock(k, target), l)
<1> DEFINE wanted == Clamp(target, -MaxDrift, MaxDrift)
           sum == Inertia * k.drift + wanted
           drift == Clamp(sum \div (Inertia + 1), -MaxDrift, MaxDrift)
           step == (k.base * Grid) \div (Grid + drift)
<1>1. wanted \in Int
  BY Clamped, OutputSinkAssumption
<1>2. sum \div (Inertia + 1) \in Int
  <2>1. sum \in Int
    BY <1>1, OutputSinkAssumption DEF Paced, SinkStates
  <2> HIDE DEF sum
  <2> QED
    BY <2>1, OutputSinkAssumption
<1>3. drift \in -MaxDrift..MaxDrift
  BY <1>2, Clamped
<1>4. step \in Nat
  <2>1. Grid + drift \in Nat \ {0} /\ k.base * Grid \in Nat
    BY <1>3, OutputSinkAssumption DEF Paced, SinkStates
  <2> QED
    BY <2>1, DivBounds
<1>5. ObserveClock(k, target) =
        IF StepAllowed(step) THEN [k EXCEPT !.drift = drift, !.ratio = drift, !.step = step, !.shown = step]
        ELSE [k EXCEPT !.drift = drift]
  BY DEF ObserveClock
<1> HIDE DEF step, drift
<1>6. drift \in Int
  BY <1>3, OutputSinkAssumption
<1>7. CASE StepAllowed(step)
  BY <1>3, <1>4, <1>5, <1>6, <1>7 DEF Paced, SinkStates
<1>8. CASE ~StepAllowed(step)
  BY <1>3, <1>5, <1>6, <1>8 DEF Paced, SinkStates
<1> QED
  BY <1>7, <1>8

\* What a sink in pace promises.
LEMMA PacedBound ==
  ASSUME NEW k, NEW l, Paced(k, l), NEW n \in Nat \ {0}
  PROVE  /\ l \in -2 * Grid..(History + 2) * Grid
         /\ Required(k, n) <= (n + History) * 4 + 1
<1>1. l \in -2 * Grid..(History + 2) * Grid
  <2>1. (History + 2) * Grid \in Nat
    BY OutputSinkAssumption
  <2> QED
    BY <2>1, OutputSinkAssumption DEF Paced, SinkStates
<1>2. Required(k, n) <= (n + History) * 4 + 1
  <2> DEFINE r == Required(k, n)
  <2>1. /\ k.step \in Nat \ {0} /\ k.phase \in Nat /\ Grid <= 4 * k.step
        /\ End(k, n) \in Nat /\ End(k, n) <= History + n /\ r \in Nat
    BY SinkFields, RequiredTakes DEF End
  <2>2. CASE End(k, n) >= 2 /\ Available(k, n) >= 0
    <3>1. r * k.step <= Available(k, n) + k.step /\ Available(k, n) <= (End(k, n) - 2) * Grid
      BY <2>1, <2>2, RequiredTakes, OutputSinkAssumption DEF Available
    <3>2. (r - 1) * k.step <= (End(k, n) - 2) * Grid
      BY <2>1, <3>1, Distributes, SinkFields
    <3>3. (End(k, n) - 2) * Grid <= (End(k, n) - 2) * (4 * k.step)
      BY <2>1, <2>2, OutputSinkAssumption
    <3>4. (r - 1) * k.step <= (4 * (End(k, n) - 2)) * k.step
      BY <2>1, <3>2, <3>3, OutputSinkAssumption
    <3>5. r - 1 <= 4 * (End(k, n) - 2)
      BY <2>1, <3>4, ProductsOrder
    <3> QED
      BY <2>1, <3>5, OutputSinkAssumption
  <2>3. CASE ~(End(k, n) >= 2 /\ Available(k, n) >= 0)
    <3>1. r = 0
      BY <2>1, <2>3, RequiredTakes, SinkFields
    <3> QED
      BY <3>1, OutputSinkAssumption
  <2> QED
    BY <2>2, <2>3
<1> QED
  BY <1>1, <1>2

\* The frames a block gives and what is left over for the next one.
LEMMA BlockGives ==
  ASSUME NEW k, NEW l, Paced(k, l), NEW n \in Nat \ {0},
         NEW next, next = k.phase + Emitted(k, n) * k.step - n * Grid
  PROVE  /\ next \in Int /\ next <= (History + 2) * Grid
         /\ k.has => next >= 0
         /\ ~k.has => -2 * Grid <= next
<1>1. /\ k.step \in Nat \ {0} /\ k.phase \in Nat /\ k.has \in BOOLEAN
      /\ k.step <= 4 * Grid /\ Grid \in Nat \ {0} /\ History \in Nat \ {0, 1}
      /\ End(k, n) \in Nat /\ Available(k, n) \in Int /\ Required(k, n) \in Nat
  BY SinkFields, RequiredTakes
<1>2. /\ (History + 2) * Grid = History * Grid + 2 * Grid
      /\ k.has => (End(k, n) - 2) * Grid = History * Grid + n * Grid - 2 * Grid
      /\ ~k.has => (End(k, n) - 2) * Grid = n * Grid - 2 * Grid
      /\ History * Grid \in Nat /\ 2 * Grid <= History * Grid /\ n * Grid \in Nat /\ Grid <= n * Grid
  BY <1>1 DEF End
<1>3. k.phase <= (History + 2) * Grid /\ (~k.has => k.phase = 0)
  BY DEF Paced
<1>4. CASE Passes(k)
  <2> DEFINE first == k.phase \div Grid
  <2>1. first \in Nat /\ first * Grid = k.phase /\ k.step = Grid
    BY <1>1, <1>4 DEF Passes
  <2>2. /\ Emitted(k, n) = IF Required(k, n) < FromBlock(k, n) THEN Required(k, n) ELSE FromBlock(k, n)
        /\ FromBlock(k, n) = IF first < n THEN n - first ELSE 0
    BY <1>4 DEF Emitted, FromBlock
  <2>3. /\ End(k, n) >= 2 /\ Available(k, n) >= 0
          => /\ Available(k, n) < Required(k, n) * Grid
             /\ Required(k, n) * Grid <= Available(k, n) + Grid
        /\ ~(End(k, n) >= 2 /\ Available(k, n) >= 0) => Required(k, n) = 0
    BY <1>1, <2>1, RequiredTakes
  <2>4. Available(k, n) = (End(k, n) - 2 - first) * Grid
    BY <1>1, <2>1, Distributes DEF Available
  <2>5. next = (first + Emitted(k, n) - n) * Grid
    BY <1>1, <2>1, <2>2, Distributes
  <2> HIDE DEF first
  <2>6. CASE first >= n
    <3>1. Emitted(k, n) = 0
      BY <1>1, <2>1, <2>2, <2>6
    <3>2. next = (first - n) * Grid /\ first - n >= 0 /\ next = k.phase - n * Grid
      BY <1>1, <2>1, <2>5, <2>6, <3>1, Distributes
    <3>3. next >= 0
      BY <1>1, <2>1, <3>2
    <3> QED
      BY <1>1, <1>2, <1>3, <3>2, <3>3
  <2>7. CASE first < n /\ k.has
    <3>1. End(k, n) = History + n /\ End(k, n) >= 2 /\ End(k, n) - 2 - first >= 0
      BY <1>1, <2>1, <2>7 DEF End
    <3>2. Available(k, n) >= 0
      BY <1>1, <2>1, <2>4, <3>1
    <3>3. (End(k, n) - 2 - first) * Grid < Required(k, n) * Grid
      BY <2>3, <2>4, <3>1, <3>2
    <3>4. ~(Required(k, n) <= End(k, n) - 2 - first)
      BY <1>1, <2>1, <3>1, <3>3, ProductsKeepOrder
    <3>5. Emitted(k, n) = n - first
      BY <1>1, <2>1, <2>2, <2>7, <3>1, <3>4
    <3>6. next = 0
      BY <1>1, <2>1, <2>5, <3>5
    <3> QED
      BY <1>1, <1>2, <2>7, <3>6
  <2>8. CASE first < n /\ ~k.has
    <3>1. first = 0 /\ End(k, n) = n
      BY <1>1, <1>3, <2>1, <2>8 DEF End
    <3>2. CASE n = 1
      <4>1. Emitted(k, n) = 0
        BY <1>1, <2>2, <2>3, <3>1, <3>2
      <4> QED
        BY <1>1, <1>2, <2>5, <2>8, <3>1, <3>2, <4>1
    <3>3. CASE n > 1
      <4>1. Available(k, n) = (n - 2) * Grid /\ Available(k, n) >= 0
        BY <1>1, <2>4, <3>1, <3>3
      <4>2. (n - 2) * Grid < Required(k, n) * Grid
        BY <1>1, <2>3, <3>1, <3>3, <4>1
      <4>3. ~(Required(k, n) <= n - 2)
        BY <1>1, <4>2, ProductsKeepOrder
      <4>4. Required(k, n) * Grid <= (n - 1) * Grid
        BY <1>1, <2>3, <3>1, <3>3, <4>1, Distributes
      <4>5. Required(k, n) <= n - 1
        BY <1>1, <4>4, ProductsOrder
      <4>6. Emitted(k, n) = n - 1
        BY <1>1, <2>2, <2>8, <3>1, <4>3, <4>5
      <4>7. next = (-1) * Grid
        BY <1>1, <2>5, <3>1, <4>6
      <4> QED
        BY <1>1, <1>2, <2>8, <4>7
    <3> QED
      BY <3>2, <3>3
  <2> QED
    BY <1>1, <2>1, <2>6, <2>7, <2>8
<1>5. CASE ~Passes(k)
  <2>1. Emitted(k, n) = Required(k, n)
    BY <1>5 DEF Emitted
  <2>2. CASE End(k, n) >= 2 /\ Available(k, n) >= 0
    <3>1. /\ Available(k, n) < Required(k, n) * k.step
          /\ Required(k, n) * k.step <= Available(k, n) + k.step
          /\ Available(k, n) = (End(k, n) - 2) * Grid - k.phase
      BY <2>2, RequiredTakes DEF Available
    <3>2. Required(k, n) * k.step \in Int
      BY <1>1
    <3> QED
      BY <1>1, <1>2, <2>1, <3>1, <3>2
  <2>3. CASE ~(End(k, n) >= 2 /\ Available(k, n) >= 0)
    <3>1. Required(k, n) * k.step = 0
      BY <1>1, <2>3, RequiredTakes
    <3>2. next = k.phase - n * Grid
      BY <1>1, <1>2, <2>1, <3>1
    <3>3. k.has => k.phase > (End(k, n) - 2) * Grid
      BY <1>1, <2>3 DEF End, Available
    <3>4. ~k.has => k.phase = 0 /\ (n = 1 \/ (n - 2) * Grid < 0)
      BY <1>1, <1>3, <2>3 DEF End, Available
    <3>5. ~k.has => n = 1
      BY <1>1, <3>4
    <3> QED
      BY <1>1, <1>2, <1>3, <3>2, <3>3, <3>5
  <2> QED
    BY <2>2, <2>3
<1> QED
  BY <1>4, <1>5

\* What a block takes in and gives out leaves a sink in pace.
LEMMA PacedProcessed ==
  ASSUME NEW k, NEW l, Paced(k, l), NEW n \in Nat \ {0}
  PROVE  Paced(Processed(k, n), l + Emitted(k, n) * k.step - n * Grid)
<1> DEFINE given == Emitted(k, n) * k.step
           next == k.phase + given - n * Grid
           phase == IF next < 0 THEN 0 ELSE next
<1>1. /\ next \in Int /\ next <= (History + 2) * Grid
      /\ k.has => next >= 0
      /\ ~k.has => -2 * Grid <= next
  BY BlockGives
<1>2. /\ k \in SinkStates /\ StepAllowed(k.base) /\ StepAllowed(k.step) /\ l \in Int /\ k.phase \in Nat
      /\ (History + 2) * Grid \in Nat /\ n * Grid \in Int
  BY OutputSinkAssumption DEF Paced, SinkStates
<1>3. given \in Int
  <2>1. Required(k, n) \in Nat /\ k.step \in Nat /\ k.phase \div Grid \in Int
    BY <1>2, RequiredTakes, SinkFields
  <2>2. Emitted(k, n) \in Int
    BY <2>1 DEF Emitted, FromBlock
  <2> QED
    BY <2>1, <2>2
<1>4. Processed(k, n) = [k EXCEPT !.phase = phase, !.has = TRUE]
  BY DEF Processed
<1> HIDE DEF given
<1>5. phase \in Nat
  BY <1>1
<1> HIDE DEF phase
<1>6. PICK a \in SinkStates : a = [k EXCEPT !.phase = phase]
  BY <1>2, <1>5 DEF SinkStates
<1>7. PICK b \in SinkStates : b = [a EXCEPT !.has = TRUE]
  BY <1>6 DEF SinkStates
<1>8. /\ Processed(k, n) = b /\ b.base = k.base /\ b.step = k.step /\ b.phase = phase /\ b.has = TRUE
  BY <1>2, <1>4, <1>6, <1>7 DEF SinkStates
<1>9. l + given - n * Grid - phase \in -2 * Grid..0
  <2>1. k.has => -2 * Grid <= l - k.phase /\ l - k.phase <= 0
    BY DEF Paced
  <2>2. ~k.has => l = 0 /\ k.phase = 0
    BY DEF Paced
  <2> QED
    BY <1>1, <1>2, <1>3, <2>1, <2>2, OutputSinkAssumption DEF phase
<1>10. phase <= (History + 2) * Grid
  BY <1>1, <1>2 DEF phase
<1>11. l + given - n * Grid \in Int
  BY <1>2, <1>3
<1> DEFINE m == l + given - n * Grid
<1>12. m \in Int /\ -2 * Grid <= m - phase /\ m - phase <= 0
  BY <1>1, <1>2, <1>3, <1>5, <1>9, <1>11, OutputSinkAssumption
<1> HIDE DEF m
<1>13. Paced(b, m)
  BY <1>2, <1>7, <1>8, <1>10, <1>12 DEF Paced
<1> QED
  BY <1>8, <1>13 DEF m, given

-----------------------------------------------------------------------------
(* Pace: the sinks of the runtime *)

\* What is observed of a clock is a number on its way from the control thread
\* to the sink.
RequestNumber(s) ==
  LET q == reg[Request(s)]
  IN  q.token.gen # 0 /\ ~q.token.writing => q.slots[q.token.slot].second \in Int
NumbersObserved ==
  /\ \A s \in Sinks : RequestNumber(s)
  /\ Writing("control") => me["control"].second \in Int
  /\ audio.at = "graph" => audio.sink = 1
  /\ audio.at = "apply" => me["audio"].on = Request(audio.sink)
  /\ audio.at = "apply" /\ ThreadAt("audio", "read") => me["audio"].second \in Int

SinksInPace ==
  /\ DOMAIN sinks = Sinks /\ DOMAIN lead = Sinks
  /\ \A s \in Sinks : Paced(sinks[s], lead[s])
  /\ audio.at \in {"apply", "render"} =>
       DOMAIN audio.sinks = Sinks /\ \A s \in Sinks : Paced(audio.sinks[s], lead[s])
  /\ audio.n \in Nat \ {0}

PaceInv == IInv /\ NumbersObserved /\ SinksInPace

LEMMA RequestsApart ==
  ASSUME NEW s \in Sinks
  PROVE  Request(s) \in Registers /\ Request(s) \notin Own("audio") /\ Request(s)[1] = "request"
BY SinkRegisters, TwoThreads, OwnApart DEF Request

\* A reader leaves the tokens and the payloads.
LEMMA ReadFrame ==
  ASSUME SlotInv, NEW t \in Threads, NEW unwanted, NEW attempts, ReadStep(t, unwanted, attempts)
  PROVE  \A r \in Registers : reg'[r].token = reg[r].token /\ reg'[r].slots = reg[r].slots
<1>1. Reading(t) /\ me[t].on \in Registers
  BY DEF ReadStep, BeforeFails, Before, Announce, Recheck, ReadFirst, ReadSecond, AcceptCopy, ThreadAt,
         Reading, Copying, SlotInv, SlotTypeOK
<1>2. \/ reg' = reg
      \/ \E a : reg' = [reg EXCEPT ![me[t].on].announced = a]
  BY DEF ReadStep, BeforeFails, Before, Announce, Lost, Recheck, ReadFirst, ReadSecond, AcceptCopy
<1>3. me[t].on \in DOMAIN reg /\ DOMAIN reg[me[t].on] = {"token", "announced", "slots"}
  BY <1>1 DEF SlotInv, SlotTypeOK
<1>4. ASSUME NEW a, reg' = [reg EXCEPT ![me[t].on].announced = a], NEW r \in Registers
      PROVE  reg'[r].token = reg[r].token /\ reg'[r].slots = reg[r].slots
  <2>1. DOMAIN reg = Registers
    BY DEF SlotInv, SlotTypeOK
  <2>2. CASE r = me[t].on
    <3>1. reg'[r] = [reg[r] EXCEPT !.announced = a]
      BY <1>4, <2>1, <2>2
    <3> QED
      BY <1>3, <2>2, <3>1
  <2>3. CASE r # me[t].on
    BY <1>4, <2>1, <2>3
  <2> QED
    BY <2>2, <2>3
<1> QED
  BY <1>2, <1>4

\* Where a reader may go: it copies what the slot of a stable token holds.
LEMMA ReadResult ==
  ASSUME SlotInv, NEW t \in Threads, NEW unwanted, NEW attempts, ReadStep(t, unwanted, attempts)
  PROVE  /\ me'[t].on = me[t].on /\ ~Writing(t)'
         /\ me'[t].at = "read" =>
              LET q == reg[me[t].on]
              IN  /\ q.token.gen # 0 /\ ~q.token.writing /\ me'[t].second = q.slots[q.token.slot].second
<1>1. t \in DOMAIN me /\ {"at", "on", "seen", "slot", "first", "second", "tries"} = DOMAIN me[t]
  BY DEF SlotInv, SlotTypeOK
<1>2. CASE AcceptCopy(t)
  <2>1. /\ me[t].at = "after" /\ Mine(t).token = me[t].seen /\ me' = [me EXCEPT ![t].at = "read"]
        /\ CopySound(t) /\ Copying(t)
    BY <1>2 DEF AcceptCopy, Goes, ThreadAt, Copying, SlotInv
  <2>2. /\ Mine(t).token.gen # 0 /\ ~Mine(t).token.writing /\ me[t].slot = Mine(t).token.slot
        /\ me[t].second = Mine(t).slots[me[t].slot].second
    BY <2>1 DEF CopySound
  <2>3. me'[t].at = "read" /\ me'[t].on = me[t].on /\ me'[t].second = me[t].second
    BY <1>1, <2>1
  <2> QED
    BY <2>2, <2>3 DEF Mine, Writing, Storing
<1>3. CASE ~AcceptCopy(t)
  <2>1. me'[t].on = me[t].on /\ me'[t].at \in {"before", "missed", "announce", "recheck", "readfirst", "readsecond", "after"}
    BY <1>1, <1>3 DEF ReadStep, BeforeFails, Before, Announce, Lost, Recheck, ReadFirst, ReadSecond,
                      AttemptFails, Goes
  <2> QED
    BY <2>1 DEF Writing, Storing
<1> QED
  BY <1>2, <1>3

\* A writer changes its own register, leaves it being written until it publishes
\* what it was given, and keeps what it was given.
LEMMA WriteFrame ==
  ASSUME SlotInv, NEW t \in Threads, WriteStep(t)
  PROVE  /\ Writing(t) /\ me'[t].second = me[t].second
         /\ me[t].on \in Own(t) /\ me[t].on \in Registers
         /\ \A r \in Registers : r # me[t].on => reg'[r] = reg[r]
         /\ LET q == reg'[me[t].on]
            IN  \/ q = reg[me[t].on]
                \/ q.token.writing
                \/ q.slots[q.token.slot].second = me[t].second
<1>1. /\ Writing(t) /\ me[t].on \in Own(t) /\ me[t].on \in Registers /\ WriterAlone(t)
  BY OwnRegisters DEF WriteStep, LoadToken, LookAtReader, Claim, StoreFirst, StoreSecond, PublishClock, ThreadAt,
                      Writing, Storing, SlotInv, SlotTypeOK
<1>2. /\ t \in DOMAIN me /\ {"at", "on", "seen", "slot", "first", "second", "tries"} = DOMAIN me[t]
      /\ me[t].on \in DOMAIN reg /\ DOMAIN reg[me[t].on] = {"token", "announced", "slots"}
      /\ DOMAIN reg = Registers
  BY <1>1 DEF SlotInv, SlotTypeOK
<1>3. CASE LoadToken(t) \/ LookAtReader(t)
  BY <1>1, <1>2, <1>3 DEF LoadToken, LookAtReader
<1>4. CASE Claim(t)
  BY <1>1, <1>2, <1>4 DEF Claim, Goes
<1>5. CASE StoreFirst(t) \/ StoreSecond(t)
  <2>1. reg[me[t].on].token.writing
    <3>1. Storing(t)
      BY <1>5 DEF StoreFirst, StoreSecond, ThreadAt, Storing
    <3>2. Mine(t).token = [gen |-> me[t].seen.gen + 1, slot |-> me[t].slot, writing |-> TRUE]
      BY <1>1, <3>1 DEF WriterAlone
    <3> QED
      BY <3>2 DEF Mine
  <2>2. CASE StoreFirst(t)
    <3>1. /\ \A r \in Registers : r # me[t].on => reg'[r] = reg[r]
          /\ reg'[me[t].on] = [reg[me[t].on] EXCEPT !.slots[me[t].slot].first = me[t].first]
          /\ me'[t].second = me[t].second
      BY <1>1, <1>2, <2>2 DEF StoreFirst, Goes
    <3>2. reg'[me[t].on].token = reg[me[t].on].token
      BY <1>2, <3>1
    <3> QED
      BY <1>1, <2>1, <3>1, <3>2
  <2>3. CASE StoreSecond(t)
    <3>1. /\ \A r \in Registers : r # me[t].on => reg'[r] = reg[r]
          /\ reg'[me[t].on] = [reg[me[t].on] EXCEPT !.slots[me[t].slot].second = me[t].second]
          /\ me'[t].second = me[t].second
      BY <1>1, <1>2, <2>3 DEF StoreSecond, Goes
    <3>2. reg'[me[t].on].token = reg[me[t].on].token
      BY <1>2, <3>1
    <3> QED
      BY <1>1, <2>1, <3>1, <3>2
  <2> QED
    BY <1>5, <2>2, <2>3
<1>6. CASE PublishClock(t)
  <2>1. Mine(t).slots[me[t].slot].second = me[t].second
    BY <1>1, <1>6 DEF PublishClock, ThreadAt, WriterAlone
  <2>2. /\ \A r \in Registers : r # me[t].on => reg'[r] = reg[r]
        /\ reg'[me[t].on].token = [gen |-> me[t].seen.gen + 1, slot |-> me[t].slot, writing |-> FALSE]
        /\ reg'[me[t].on].slots = reg[me[t].on].slots /\ me'[t].second = me[t].second
    BY <1>1, <1>2, <1>6 DEF PublishClock, Goes
  <2> QED
    BY <1>1, <2>1, <2>2 DEF Mine
<1> QED
  BY <1>3, <1>4, <1>5, <1>6 DEF WriteStep

LEMMA RequestStands ==
  ASSUME NEW s \in Sinks, RequestNumber(s), reg'[Request(s)].token = reg[Request(s)].token,
         reg'[Request(s)].slots = reg[Request(s)].slots
  PROVE  RequestNumber(s)'
<1>1. Request(s)' = Request(s)
  BY DEF Request
<1> QED
  BY <1>1 DEF RequestNumber

LEMMA ControlNumbers ==
  ASSUME PaceInv, ControlThread
  PROVE  NumbersObserved'
<1>1. /\ SlotInv /\ BlockInv /\ NumbersObserved /\ "control" \in Threads /\ "audio" \in Threads
      /\ "audio" # "control" /\ DOMAIN me = Threads
  BY TwoThreads DEF PaceInv, IInv, SlotInv, SlotTypeOK
<1>2. CASE \E s \in Sinks, target \in Targets : observe_clock(s, target)
  <2>1. PICK s \in Sinks, target \in Targets : observe_clock(s, target)
    BY <1>2
  <2>2. /\ reg' = reg /\ audio' = audio
        /\ me' = [me EXCEPT !["control"] = WriteBegins("control", Request(s), target, target)]
    BY <2>1 DEF observe_clock
  <2>3. me'["audio"] = me["audio"] /\ me'["control"].second = target
    BY <1>1, <2>2 DEF WriteBegins, SlotInv, SlotTypeOK
  <2> QED
    BY <1>1, <2>2, <2>3, RequestStands, OutputFanoutAssumption DEF NumbersObserved, ThreadAt, Request
<1>3. CASE \E s \in Sinks : SnapshotBegins(s)
  <2>1. PICK s \in Sinks : SnapshotBegins(s)
    BY <1>3
  <2>2. reg' = reg /\ audio' = audio /\ me' = [me EXCEPT !["control"] = ReadBegins("control", Clock(s))]
    BY <2>1 DEF SnapshotBegins
  <2>3. me'["audio"] = me["audio"] /\ ~Writing("control")'
    BY <1>1, <2>2 DEF ReadBegins, Writing, Storing, SlotInv, SlotTypeOK
  <2> QED
    BY <1>1, <2>2, <2>3, RequestStands DEF NumbersObserved, ThreadAt, Request
<1>4. CASE ControlWrites
  <2>1. WriteStep("control") /\ audio' = audio
    BY <1>4 DEF ControlWrites, fanoutVars
  <2>2. me'["audio"] = me["audio"]
    BY <1>1, <2>1, StepsApart
  <2>3. me["control"].second \in Int /\ me'["control"].second \in Int
    BY <1>1, <2>1, WriteFrame DEF NumbersObserved
  <2>4. ASSUME NEW s \in Sinks PROVE RequestNumber(s)'
    <3>1. Request(s) \in Registers /\ RequestNumber(s)
      BY <1>1, RequestsApart DEF NumbersObserved
    <3>2. CASE Request(s) # me["control"].on
      BY <1>1, <2>1, <3>1, <3>2, WriteFrame, RequestStands
    <3>3. CASE Request(s) = me["control"].on
      <4>1. LET q == reg'[Request(s)]
            IN  \/ q = reg[Request(s)]
                \/ q.token.writing
                \/ q.slots[q.token.slot].second = me["control"].second
        BY <1>1, <2>1, <3>3, WriteFrame
      <4>2. CASE reg'[Request(s)] = reg[Request(s)]
        BY <3>1, <4>2, RequestStands
      <4>3. CASE reg'[Request(s)] # reg[Request(s)]
        <5>1. Request(s)' = Request(s)
          BY DEF Request
        <5> QED
          BY <2>3, <4>1, <4>3, <5>1 DEF RequestNumber
      <4> QED
        BY <4>2, <4>3
    <3> QED
      BY <3>2, <3>3
  <2> QED
    BY <1>1, <2>1, <2>2, <2>3, <2>4 DEF NumbersObserved, ThreadAt, Request
<1>5. CASE ControlReads
  <2>1. ReadStep("control", NoToken, 2) /\ audio' = audio
    BY <1>5 DEF ControlReads, fanoutVars
  <2>2. me'["audio"] = me["audio"] /\ ~Writing("control")'
    BY <1>1, <2>1, StepsApart, ReadResult
  <2>3. ASSUME NEW s \in Sinks PROVE RequestNumber(s)'
    BY <1>1, <2>1, ReadFrame, RequestsApart, RequestStands DEF NumbersObserved
  <2> QED
    BY <1>1, <2>1, <2>2, <2>3 DEF NumbersObserved, ThreadAt, Request
<1>6. CASE ControlReturns
  <2>1. reg' = reg /\ audio' = audio /\ me' = [me EXCEPT !["control"] = Free]
    BY <1>6 DEF ControlReturns, fanoutVars
  <2>2. me'["audio"] = me["audio"] /\ ~Writing("control")'
    BY <1>1, <2>1, FreeFields DEF Writing, Storing
  <2> QED
    BY <1>1, <2>1, <2>2, RequestStands DEF NumbersObserved, ThreadAt, Request
<1>7. CASE prepare \/ reset
  <2>1. PICK fresh : Restart(fresh) /\ Quiet
    BY <1>7 DEF prepare, reset
  <2>2. me' = me /\ audio' = NoBlockInWork /\ ~Writing("control")
    BY <2>1, FreeFields DEF Restart, Quiet, ControlFree, Writing, Storing
  <2>3. ASSUME NEW s \in Sinks PROVE RequestNumber(s)'
    <3>1. Request(s) \in Registers /\ Request(s)[1] = "request" /\ Request(s)' = Request(s)
      BY RequestsApart DEF Request
    <3>2. reg'[Request(s)] = Invalidated(Request(s)) /\ DOMAIN reg[Request(s)] = {"token", "announced", "slots"}
      BY <1>1, <2>1, <3>1 DEF Restart, SlotInv, SlotTypeOK
    <3>3. reg'[Request(s)].token.gen = 0
      BY <3>2 DEF Invalidated, NoToken
    <3> QED
      BY <3>1, <3>3 DEF RequestNumber
  <2> QED
    BY <2>2, <2>3, AudioFields DEF NumbersObserved, Writing, Storing
<1> QED
  BY <1>2, <1>3, <1>4, <1>5, <1>6, <1>7 DEF PaceInv, ControlThread

\* A block moves on from one register to the next only between two reads.
LEMMA AudioNumbers ==
  ASSUME PaceInv, AudioThread
  PROVE  NumbersObserved'
<1>1. /\ SlotInv /\ BlockInv /\ NumbersObserved /\ "control" \in Threads /\ "audio" \in Threads
      /\ "audio" # "control" /\ DOMAIN me = Threads /\ audio.sink \in Sinks /\ 1 \in Sinks
      /\ DOMAIN audio = {"at", "sink", "n", "changed", "ok", "sinks", "applied"}
      /\ DOMAIN me["audio"] = {"at", "on", "seen", "slot", "first", "second", "tries"}
  BY TwoThreads, OutputFanoutAssumption DEF PaceInv, IInv, BlockInv, SlotInv, SlotTypeOK
<1>2. CASE AudioPublishes
  <2>1. WriteStep("audio") /\ audio' = audio /\ audio.at = "publish"
    BY <1>2 DEF AudioPublishes, fanoutVars
  <2>2. me'["control"] = me["control"]
    BY <1>1, <2>1, StepsApart
  <2>3. ASSUME NEW s \in Sinks PROVE RequestNumber(s)'
    <3>1. Request(s) \in Registers /\ Request(s) # me["audio"].on
      BY <1>1, <2>1, RequestsApart, WriteFrame
    <3> QED
      BY <1>1, <2>1, <3>1, WriteFrame, RequestStands DEF NumbersObserved
  <2> QED
    BY <1>1, <2>1, <2>2, <2>3 DEF NumbersObserved, Writing, Storing
<1>3. CASE AudioReads
  <2>1. audio' = audio /\ \E unwanted, attempts : ReadStep("audio", unwanted, attempts)
    BY <1>3 DEF AudioReads, fanoutVars
  <2>2. PICK unwanted, attempts : ReadStep("audio", unwanted, attempts)
    BY <2>1
  <2>3. me'["control"] = me["control"]
    BY <1>1, <2>2, StepsApart
  <2>4. ASSUME NEW s \in Sinks PROVE RequestNumber(s)'
    BY <1>1, <2>2, ReadFrame, RequestsApart, RequestStands DEF NumbersObserved
  <2>5. ASSUME audio.at = "apply"
        PROVE  /\ me'["audio"].on = Request(audio.sink)
               /\ me'["audio"].at = "read" => me'["audio"].second \in Int
    <3>1. me["audio"].on = Request(audio.sink) /\ RequestNumber(audio.sink)
      BY <1>1, <2>5 DEF NumbersObserved
    <3>2. me'["audio"].at = "read" =>
            LET q == reg[me["audio"].on]
            IN  /\ q.token.gen # 0 /\ ~q.token.writing /\ me'["audio"].second = q.slots[q.token.slot].second
      BY <1>1, <2>2, ReadResult
    <3>3. me'["audio"].on = me["audio"].on
      BY <1>1, <2>2, ReadResult
    <3> QED
      BY <3>1, <3>2, <3>3 DEF RequestNumber
  <2> QED
    BY <1>1, <2>1, <2>3, <2>4, <2>5 DEF NumbersObserved, Writing, Storing, ThreadAt, Request
<1>4. CASE ~AudioPublishes /\ ~AudioReads
  <2>1. reg' = reg
    BY <1>4 DEF AudioThread, BlockBegins, SnapshotTaken, GraphFails, BlockRefused, BlockTaken,
                ObservationApplied, NothingToApply, NoRoom, Render, SnapshotPublished, slotVars
  <2>2. me' = me \/ \E entry : me' = [me EXCEPT !["audio"] = entry]
    BY <1>4 DEF AudioThread, BlockBegins, SnapshotTaken, GraphFails, BlockRefused, BlockTaken, NextSink,
                ObservationApplied, NothingToApply, NoRoom, Render, SnapshotPublished, slotVars
  <2>3. me'["control"] = me["control"]
    BY <1>1, <2>2
  <2>4. audio'.at = "apply" => me'["audio"].on = Request(audio'.sink) /\ me'["audio"].at = "before"
    <3>1. CASE BlockTaken
      <4>1. audio.sink = 1
        BY <1>1, <3>1 DEF BlockTaken, AudioAt, NumbersObserved
      <4>2. audio'.sink = audio.sink /\ me' = [me EXCEPT !["audio"] = ReadBegins("audio", Request(1))]
        BY <1>1, <3>1 DEF BlockTaken
      <4> QED
        BY <1>1, <4>1, <4>2 DEF ReadBegins, Request
    <3>2. CASE ObservationApplied \/ NothingToApply
      <4>1. CASE audio.sink + 1 \in Sinks
        <5>1. /\ me' = [me EXCEPT !["audio"] = ReadBegins("audio", Request(audio.sink + 1))]
              /\ audio' = [audio EXCEPT !.sink = @ + 1, !.changed = @ \/ me["audio"].at = "read"]
          BY <3>2, <4>1 DEF ObservationApplied, NothingToApply, NextSink
        <5>2. audio'.sink = audio.sink + 1
          BY <1>1, <5>1
        <5> QED
          BY <1>1, <5>1, <5>2 DEF ReadBegins, Request
      <4>2. CASE audio.sink + 1 \notin Sinks
        BY <1>1, <3>2, <4>2 DEF ObservationApplied, NothingToApply, NextSink
      <4> QED
        BY <4>1, <4>2
    <3>3. CASE ~BlockTaken /\ ~ObservationApplied /\ ~NothingToApply
      BY <1>1, <1>4, <3>3, AudioFields
         DEF AudioThread, BlockBegins, SnapshotTaken, GraphFails, BlockRefused, AudioAt,
             NoRoom, Render, SnapshotPublished, slotVars
    <3> QED
      BY <3>1, <3>2, <3>3
  <2>5. audio'.at = "graph" => audio'.sink = 1
    <3>1. CASE SnapshotTaken
      BY <1>1, <3>1 DEF SnapshotTaken
    <3>2. CASE ObservationApplied \/ NothingToApply
      <4>1. audio.at = "apply" /\ audio'.at \in {"apply", "render"}
        BY <1>1, <3>2 DEF ObservationApplied, NothingToApply, NextSink
      <4> QED
        BY <4>1
    <3>3. CASE ~SnapshotTaken /\ ~ObservationApplied /\ ~NothingToApply
      BY <1>1, <1>4, <3>3, AudioFields
         DEF AudioThread, BlockBegins, GraphFails, BlockRefused, BlockTaken, NoBlockInWork,
             NoRoom, Render, SnapshotPublished
    <3> QED
      BY <3>1, <3>2, <3>3
  <2> QED
    BY <1>1, <2>1, <2>3, <2>4, <2>5, RequestStands DEF NumbersObserved, Writing, Storing, ThreadAt, Request
<1> QED
  BY <1>2, <1>3, <1>4

LEMMA SinksInPaceKept ==
  ASSUME PaceInv, FanoutNext
  PROVE  SinksInPace'
<1>1. /\ SinksInPace /\ BlockInv /\ audio.sink \in Sinks /\ 1 \in Sinks
      /\ DOMAIN audio = {"at", "sink", "n", "changed", "ok", "sinks", "applied"}
  BY OutputFanoutAssumption DEF PaceInv, IInv, BlockInv
<1>2. NoBlockInWork.n \in Nat \ {0} /\ \A result \in BOOLEAN : Over(result).n \in Nat \ {0}
  BY DEF NoBlockInWork, Over
<1>3. CASE prepare \/ reset
  <2>1. PICK fresh : Restart(fresh) /\ DOMAIN fresh = Sinks /\ \A s \in Sinks : Paced(fresh[s], 0)
    <3>1. ASSUME NEW base \in Bases PROVE Paced(NewSink(base), 0)
      BY PacedNew, OutputFanoutAssumption
    <3>2. ASSUME NEW s \in Sinks PROVE Paced(ResetSink(sinks[s]), 0)
      BY <1>1, PacedReset DEF SinksInPace
    <3>3. CASE prepare
      <4>1. PICK base \in Bases : Restart([s \in Sinks |-> NewSink(base)])
        BY <3>3 DEF prepare
      <4> DEFINE fresh == [s \in Sinks |-> NewSink(base)]
      <4>2. DOMAIN fresh = Sinks /\ \A s \in Sinks : Paced(fresh[s], 0)
        BY <3>1
      <4> QED
        BY <4>1, <4>2
    <3>4. CASE reset
      <4> DEFINE fresh == [s \in Sinks |-> ResetSink(sinks[s])]
      <4>1. Restart(fresh)
        BY <3>4 DEF reset
      <4>2. DOMAIN fresh = Sinks /\ \A s \in Sinks : Paced(fresh[s], 0)
        BY <3>2
      <4> QED
        BY <4>1, <4>2
    <3> QED
      BY <1>3, <3>3, <3>4
  <2> QED
    BY <1>2, <2>1, AudioFields DEF Restart, SinksInPace
<1>4. CASE ControlThread /\ ~prepare /\ ~reset
  <2>1. UNCHANGED <<sinks, audio, lead>>
    BY <1>4 DEF ControlThread, observe_clock, SnapshotBegins, ControlWrites, ControlReads, ControlReturns,
                fanoutVars
  <2> QED
    BY <1>1, <2>1 DEF SinksInPace
<1>5. CASE ObservationApplied
  <2>1. me["audio"].second \in Int /\ audio.at = "apply" /\ lead' = lead
    BY <1>5 DEF ObservationApplied, PaceInv, NumbersObserved
  <2>2. /\ sinks' = [sinks EXCEPT ![audio.sink] = ObserveClock(@, me["audio"].second)]
        /\ audio'.sinks = audio.sinks /\ audio'.n = audio.n
    BY <1>1, <1>5 DEF ObservationApplied, NextSink
  <2>3. Paced(ObserveClock(sinks[audio.sink], me["audio"].second), lead[audio.sink])
    BY <1>1, <2>1, PacedObserve DEF SinksInPace
  <2> QED
    BY <1>1, <2>1, <2>2, <2>3 DEF SinksInPace
<1>6. CASE Render
  <2>1. audio.n \in Nat \ {0} /\ audio.at = "render" /\ DOMAIN sinks' = Sinks /\ DOMAIN lead' = Sinks
    BY <1>1, <1>6 DEF Render, SinksInPace, AudioAt
  <2>2. ASSUME NEW s \in Sinks PROVE Paced(sinks'[s], lead'[s])
    <3>1. /\ sinks'[s] = Processed(sinks[s], audio.n)
          /\ lead'[s] = lead[s] + Emitted(sinks[s], audio.n) * sinks[s].step - audio.n * Grid
      BY <1>6 DEF Render
    <3>2. Paced(sinks[s], lead[s])
      BY <1>1 DEF SinksInPace
    <3> QED
      BY <2>1, <3>1, <3>2, PacedProcessed
  <2>3. audio'.at \in {"publish", "idle"} /\ audio'.n \in Nat \ {0}
    BY <1>1, <1>2, <1>6, <2>1, AudioFields DEF Render
  <2> QED
    BY <2>1, <2>2, <2>3 DEF SinksInPace
<1>7. CASE NoRoom
  <2>1. sinks' = audio.sinks /\ lead' = lead /\ audio' = Over(FALSE) /\ audio.at = "render"
    BY <1>7 DEF NoRoom, AudioAt
  <2> QED
    BY <1>1, <1>2, <2>1, AudioFields DEF SinksInPace
<1>8. CASE AudioThread /\ ~ObservationApplied /\ ~Render /\ ~NoRoom
  <2>1. sinks' = sinks /\ lead' = lead
    BY <1>8 DEF AudioThread, BlockBegins, AudioReads, SnapshotTaken, GraphFails, BlockRefused, BlockTaken,
                NothingToApply, AudioPublishes, SnapshotPublished, fanoutVars
  <2>2. /\ audio'.n \in Nat \ {0}
        /\ audio'.at \in {"apply", "render"} =>
             \/ audio'.sinks = sinks
             \/ audio.at \in {"apply", "render"} /\ audio'.sinks = audio.sinks
    <3>1. CASE \E n \in BlockSizes : BlockBegins(n)
      BY <3>1, OutputFanoutAssumption DEF BlockBegins, NoBlockInWork
    <3>2. CASE AudioReads \/ AudioPublishes
      BY <1>1, <3>2 DEF AudioReads, AudioPublishes, fanoutVars, SinksInPace
    <3>3. CASE SnapshotTaken \/ SnapshotPublished
      BY <1>1, <1>2, <3>3, AudioFields DEF SnapshotTaken, SnapshotPublished, SinksInPace
    <3>4. CASE GraphFails \/ BlockRefused
      BY <1>2, <3>4, AudioFields DEF GraphFails, BlockRefused
    <3>5. CASE BlockTaken
      BY <1>1, <3>5 DEF BlockTaken, SinksInPace
    <3>6. CASE NothingToApply
      BY <1>1, <3>6 DEF NothingToApply, NextSink, SinksInPace
    <3> QED
      BY <1>8, <3>1, <3>2, <3>3, <3>4, <3>5, <3>6 DEF AudioThread
  <2> QED
    BY <1>1, <2>1, <2>2 DEF SinksInPace
<1> QED
  BY <1>3, <1>4, <1>5, <1>6, <1>7, <1>8 DEF FanoutNext

LEMMA InitPace == FanoutInit => PaceInv
<1> SUFFICES ASSUME FanoutInit PROVE PaceInv
  OBVIOUS
<1>1. PICK base \in Bases :
        /\ sinks = [s \in Sinks |-> NewSink(base)] /\ lead = [s \in Sinks |-> 0]
        /\ me = [t \in Threads |-> Free] /\ audio = NoBlockInWork
        /\ \A r \in Registers : r[1] = "request" => reg[r] = EmptyRegister
  BY DEF FanoutInit
<1>2. Paced(NewSink(base), 0)
  BY PacedNew, OutputFanoutAssumption
<1>3. NumbersObserved
  <2>1. \A s \in Sinks : RequestNumber(s)
    BY <1>1, RequestsApart DEF RequestNumber, EmptyRegister, NoToken
  <2>2. me["control"].at = "free" /\ audio.at = "idle"
    BY <1>1, TwoThreads, FreeFields, AudioFields
  <2> QED
    BY <2>1, <2>2 DEF NumbersObserved, Writing, Storing
<1>4. SinksInPace
  BY <1>1, <1>2, AudioFields DEF SinksInPace, NoBlockInWork
<1> QED
  BY <1>3, <1>4, InitIInv DEF PaceInv

LEMMA NextPace == PaceInv /\ [FanoutNext]_runtimeVars => PaceInv'
<1> SUFFICES ASSUME PaceInv, [FanoutNext]_runtimeVars PROVE PaceInv'
  OBVIOUS
<1>1. IInv'
  BY NextKeeps DEF PaceInv
<1>2. CASE FanoutNext
  BY <1>1, <1>2, ControlNumbers, AudioNumbers, SinksInPaceKept DEF FanoutNext, PaceInv
<1>3. CASE UNCHANGED runtimeVars
  <2>1. UNCHANGED <<reg, me, sinks, audio, lead>>
    BY <1>3 DEF runtimeVars, slotVars, fanoutVars
  <2>2. SinksInPace'
    BY <2>1 DEF PaceInv, SinksInPace
  <2>3. NumbersObserved'
    BY <2>1, RequestStands DEF PaceInv, NumbersObserved, Writing, Storing, ThreadAt, Request
  <2> QED
    BY <1>1, <2>2, <2>3 DEF PaceInv
<1> QED
  BY <1>2, <1>3

\* Over any blocks and clock changes a sink gives out what it took in, up to the
\* frames of its history, and its block fits the scratch prepared for it
\* (output_sink.cpp:130-275, output_fanout.cpp:120-180).
THEOREM SinksKeepPace == FanoutSpec => []SinkKeepsPace
<1>1. PaceInv => SinkKeepsPace
  BY PacedBound, OutputFanoutAssumption DEF PaceInv, SinksInPace, SinkKeepsPace
<1>2. FanoutSpec => []PaceInv
  BY InitPace, NextPace, PTL DEF FanoutSpec
<1> QED
  BY <1>1, <1>2, PTL
=============================================================================

------------------------------ MODULE ClockSlots ------------------------------
(***************************************************************************)
(* The three-slot registers of OutputFanoutRuntimeV1, through which the    *)
(* control side hands clock observations to the audio side and the audio   *)
(* side hands clock snapshots back, without a lock.  A register has three  *)
(* slots, a publication token (generation, slot, being written) and one    *)
(* cell in which a reader announces the slot it reads.  A thread uses at   *)
(* most one register at a time; every load and store is a step.            *)
(***************************************************************************)
EXTENDS Naturals

CONSTANTS Threads, Registers,
          NoSlot, \* kNoPublicationReaderSlot
          NoValue \* a payload field before it is read

ASSUME ClockSlotsAssumption == NoSlot \notin 0..2

VARIABLES
  reg,  \* each register: its token, its slots and the announced slot
  me    \* each thread: the register it uses and where it is in the code

slotVars == <<reg, me>>

\* publication == 0 is the only token of generation 0.
NoToken == [gen |-> 0, slot |-> 0, writing |-> FALSE]
Free == [at |-> "free", on |-> NoSlot, seen |-> NoToken, slot |-> NoSlot,
         first |-> NoValue, second |-> NoValue, tries |-> 0]

Goes(t, place) == me' = [me EXCEPT ![t].at = place]
ThreadAt(t, place) == me[t].at = place
Mine(t) == reg[me[t].on]

-----------------------------------------------------------------------------
(* try_reserve_publication and the stores that follow it.  Each register has *)
(* one writer, so its refusals never happen.                                 *)

\* The lowest slot that is neither published nor announced.
TargetSlot(token, announced) ==
  CHOOSE k \in 0..2 :
    /\ k # announced /\ (token.gen = 0 \/ k # token.slot)
    /\ \A j \in 0..2 : j # announced /\ (token.gen = 0 \/ j # token.slot) => k <= j

WriteBegins(t, r, first, second) ==
  [me[t] EXCEPT !.at = "load", !.on = r, !.first = first, !.second = second]

LoadToken(t) ==
  /\ ThreadAt(t, "load")
  /\ me' = [me EXCEPT ![t].at = "look", ![t].seen = Mine(t).token]
  /\ UNCHANGED reg

LookAtReader(t) ==
  /\ ThreadAt(t, "look")
  /\ me' = [me EXCEPT ![t].at = "claim", ![t].slot = TargetSlot(me[t].seen, Mine(t).announced)]
  /\ UNCHANGED reg

\* The compare-exchange: the token is as it was loaded.
Claim(t) ==
  /\ ThreadAt(t, "claim") /\ Mine(t).token = me[t].seen
  /\ reg' = [reg EXCEPT ![me[t].on].token =
               [gen |-> me[t].seen.gen + 1, slot |-> me[t].slot, writing |-> TRUE]]
  /\ Goes(t, "first")

\* Mutant: the stable token is stored along with the first field.
PublishEarly(t) ==
  /\ ThreadAt(t, "first")
  /\ reg' = [reg EXCEPT ![me[t].on].slots[me[t].slot].first = me[t].first,
                        ![me[t].on].token.writing = FALSE]
  /\ Goes(t, "second")

StoreFirst(t) ==
  /\ ThreadAt(t, "first")
  /\ reg' = [reg EXCEPT ![me[t].on].slots[me[t].slot].first = me[t].first]
  /\ Goes(t, "second")

StoreSecond(t) ==
  /\ ThreadAt(t, "second")
  /\ reg' = [reg EXCEPT ![me[t].on].slots[me[t].slot].second = me[t].second]
  /\ Goes(t, "publish")

PublishClock(t) ==
  /\ ThreadAt(t, "publish")
  /\ reg' = [reg EXCEPT ![me[t].on].token =
               [gen |-> me[t].seen.gen + 1, slot |-> me[t].slot, writing |-> FALSE]]
  /\ Goes(t, "written")

WriteStep(t) ==
  \/ LoadToken(t) \/ LookAtReader(t) \/ Claim(t)
  \/ StoreFirst(t) \/ StoreSecond(t) \/ PublishClock(t)

-----------------------------------------------------------------------------
(* A read: announce the slot, check the token again, read, check again *)

ReadBegins(t, r) == [me[t] EXCEPT !.at = "before", !.on = r, !.tries = 0]

AttemptFails(t, attempts) ==
  IF me[t].tries + 1 < attempts
  THEN me' = [me EXCEPT ![t].at = "before", ![t].tries = @ + 1]
  ELSE Goes(t, "missed")

\* A token that cannot be read, or one the thread does not want.
BeforeFails(t, unwanted, attempts) ==
  /\ ThreadAt(t, "before")
  /\ LET token == Mine(t).token IN token.gen = 0 \/ token.writing \/ token = unwanted
  /\ AttemptFails(t, attempts)
  /\ UNCHANGED reg

Before(t, unwanted) ==
  /\ ThreadAt(t, "before")
  /\ LET token == Mine(t).token
     IN  /\ token.gen # 0 /\ ~token.writing /\ token # unwanted
         /\ me' = [me EXCEPT ![t].at = "announce", ![t].seen = token, ![t].slot = token.slot]
  /\ UNCHANGED reg

Announce(t) ==
  /\ ThreadAt(t, "announce")
  /\ reg' = [reg EXCEPT ![me[t].on].announced = me[t].slot]
  /\ Goes(t, "recheck")

\* The token moved: the guard clears the cell and the attempt is lost.
Lost(t, attempts) ==
  /\ Mine(t).token # me[t].seen
  /\ reg' = [reg EXCEPT ![me[t].on].announced = NoSlot]
  /\ AttemptFails(t, attempts)

Recheck(t) ==
  /\ ThreadAt(t, "recheck") /\ Mine(t).token = me[t].seen
  /\ Goes(t, "readfirst")
  /\ UNCHANGED reg

ReadFirst(t) ==
  /\ ThreadAt(t, "readfirst")
  /\ me' = [me EXCEPT ![t].at = "readsecond", ![t].first = Mine(t).slots[me[t].slot].first]
  /\ UNCHANGED reg

ReadSecond(t) ==
  /\ ThreadAt(t, "readsecond")
  /\ me' = [me EXCEPT ![t].at = "after", ![t].second = Mine(t).slots[me[t].slot].second]
  /\ UNCHANGED reg

AcceptCopy(t) ==
  /\ ThreadAt(t, "after") /\ Mine(t).token = me[t].seen
  /\ reg' = [reg EXCEPT ![me[t].on].announced = NoSlot]
  /\ Goes(t, "read")

ReadStep(t, unwanted, attempts) ==
  \/ BeforeFails(t, unwanted, attempts) \/ Before(t, unwanted) \/ Announce(t)
  \/ (ThreadAt(t, "recheck") \/ ThreadAt(t, "after")) /\ Lost(t, attempts)
  \/ Recheck(t) \/ ReadFirst(t) \/ ReadSecond(t) \/ AcceptCopy(t)

\* A new, empty register; a register whose token was thrown away and that
\* was written again by a thread nobody overlaps.
EmptyRegister == [token |-> NoToken, announced |-> NoSlot,
                  slots |-> [k \in 0..2 |-> [first |-> NoValue, second |-> NoValue]]]
Invalidated(r) == [reg[r] EXCEPT !.token = NoToken]
Rewritten(r, first, second) ==
  LET k == TargetSlot(NoToken, reg[r].announced)
  IN  [reg[r] EXCEPT !.token = [gen |-> 1, slot |-> k, writing |-> FALSE],
                     !.slots[k] = [first |-> first, second |-> second]]
=============================================================================

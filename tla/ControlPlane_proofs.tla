------------------------- MODULE ControlPlane_proofs -------------------------
(***************************************************************************)
(* Theorems about ControlPlane, for a queue of any size and any number of  *)
(* requests, starts and clients one after the other.                       *)
(*                                                                         *)
(* A command is written into its slot one step before head announces it,   *)
(* and read one step before tail gives its slot back.  IInv says what the  *)
(* two sides may rely on between those steps: the worker's slot is not one *)
(* of the queued ones, and the host's stays the first of them.             *)
(***************************************************************************)
EXTENDS ControlPlane, SequenceTheorems, TLAPS

-----------------------------------------------------------------------------
(* The inductive invariant *)

WasAccepted(id) == \E i \in 1..Len(accepted) : accepted[i] = id

Tokens == [part : {"length", "frame"}, id : Nat]
Answers == [id : Nat, kind : {"Ack", "Status", "Error"}]

ControlTypeOK ==
  /\ slots \in [0..QueueSlots - 1 -> Nat] /\ head \in Nat /\ tail \in Nat
  /\ request \in Nat /\ item \in Nat /\ waiting \in Nat
  /\ inbound \in Seq(Tokens) /\ outbound \in Seq(Answers)
  /\ sent \in Seq(DOMAIN Frames)
  /\ accepted \in Seq(Nat) /\ applied \in Seq(Nat) /\ acked \subseteq Nat

\* The queue holds the accepted commands that were not applied.
QueueHolds ==
  /\ tail <= head /\ head - tail <= QueueSlots
  /\ Len(accepted) = head /\ Len(applied) = tail
  /\ \A i \in 1..tail : applied[i] = accepted[i]
  /\ \A i \in tail + 1..head : slots[(i - 1) % QueueSlots] = accepted[i]

\* Between the two stores of a push, and between the two halves of a pop.
HalfWay ==
  /\ worker = "push" => head - tail < QueueSlots /\ slots[head % QueueSlots] = request
  /\ host = "popping" => tail < head /\ item = slots[tail % QueueSlots]

\* An acknowledgement is of an accepted command wherever it is on its way.
AnswersTrue ==
  /\ worker = "reply" => WasAccepted(request)
  /\ \A i \in 1..Len(outbound) : outbound[i].kind = "Ack" => WasAccepted(outbound[i].id)
  /\ \A id \in acked : WasAccepted(id)

IInv == ControlTypeOK /\ QueueHolds /\ HalfWay /\ AnswersTrue

-----------------------------------------------------------------------------
(* Slots *)

LEMMA DivMod ==
  ASSUME NEW a \in Nat, NEW m \in Nat \ {0}
  PROVE  /\ a = (m * (a \div m)) + (a % m)
         /\ a % m \in 0..m - 1 /\ a \div m \in Nat
OBVIOUS

\* Positions of the queue less than its size apart have slots of their own.
LEMMA SlotsApart ==
  ASSUME NEW m \in Nat \ {0}, NEW a \in Nat, NEW b \in Nat, a < b, b - a < m
  PROVE  a % m # b % m
<1>1. /\ a = (m * (a \div m)) + (a % m) /\ a \div m \in Int
      /\ b = (m * (b \div m)) + (b % m) /\ b \div m \in Int
  BY DivMod
<1>2. SUFFICES ASSUME a % m = b % m PROVE FALSE
  OBVIOUS
<1> DEFINE d == (b \div m) - (a \div m)
<1>3. b - a = m * d /\ d \in Int
  BY <1>1, <1>2
<1> HIDE DEF d
<1>4. d >= 1
  BY <1>3
<1>5. m * d >= m
  BY <1>3, <1>4
<1> QED
  BY <1>3, <1>5

LEMMA SlotType == ASSUME NEW n \in Nat PROVE n % QueueSlots \in 0..QueueSlots - 1
BY DivMod, ControlAssumption

-----------------------------------------------------------------------------
(* The initial states and the steps that touch queue or answers *)

LEMMA InitIInv == Init => IInv
<1> SUFFICES ASSUME Init PROVE IInv
  OBVIOUS
<1>1. ControlTypeOK
  BY DEF Init, ControlTypeOK
<1> QED
  BY <1>1, ControlAssumption DEF Init, IInv, QueueHolds, HalfWay, AnswersTrue

\* The host takes a command: its slot is the first one queued.
LEMMA PopCopyKeeps == IInv /\ PopCopy => IInv'
<1> SUFFICES ASSUME IInv, PopCopy PROVE IInv'
  OBVIOUS
<1> USE DEF IInv, PopCopy, queueVars, pipeVars, flagVars, clientVars
<1>1. tail < head /\ tail % QueueSlots \in 0..QueueSlots - 1
  BY SlotType DEF ControlTypeOK, QueueHolds
<1>2. ControlTypeOK'
  BY <1>1 DEF ControlTypeOK
<1>3. QueueHolds' /\ AnswersTrue'
  BY DEF QueueHolds, AnswersTrue, WasAccepted
<1>4. HalfWay'
  BY <1>1 DEF HalfWay
<1> QED
  BY <1>2, <1>3, <1>4

\* The command it applies is the accepted one at that position.
LEMMA PopReleaseKeeps == IInv /\ PopRelease => IInv'
<1> SUFFICES ASSUME IInv, PopRelease PROVE IInv'
  OBVIOUS
<1> USE DEF IInv, PopRelease, queueVars, pipeVars, flagVars, clientVars
<1>1. /\ tail < head /\ item = accepted[tail + 1]
  <2>1. tail < head /\ item = slots[tail % QueueSlots] /\ tail + 1 \in tail + 1..head
    BY DEF HalfWay, ControlTypeOK
  <2>2. slots[((tail + 1) - 1) % QueueSlots] = accepted[tail + 1]
    BY <2>1 DEF QueueHolds
  <2>3. (tail + 1) - 1 = tail
    BY DEF ControlTypeOK
  <2> QED
    BY <2>1, <2>2, <2>3
<1>2. item \in Nat /\ applied \in Seq(Nat) /\ Len(applied) = tail
  BY DEF ControlTypeOK, QueueHolds
<1>3. /\ applied' \in Seq(Nat)
      /\ Len(applied') = tail + 1 /\ applied'[tail + 1] = item
      /\ \A i \in 1..tail : applied'[i] = applied[i]
  BY <1>2, AppendProperties
<1>4. ControlTypeOK'
  BY <1>3 DEF ControlTypeOK
<1>5. QueueHolds'
  <2>1. UNCHANGED <<slots, head, accepted>> /\ tail' = tail + 1
    OBVIOUS
  <2>2. \A i \in 1..tail + 1 : applied'[i] = accepted[i]
    BY <1>1, <1>3 DEF QueueHolds, ControlTypeOK
  <2>3. tail' <= head' /\ head' - tail' <= QueueSlots
    BY <1>1, <2>1, ControlAssumption DEF QueueHolds, ControlTypeOK
  <2>4. \A i \in tail' + 1..head' : slots'[(i - 1) % QueueSlots] = accepted'[i]
    <3>1. \A i \in tail' + 1..head' : i \in tail + 1..head
      BY <2>1 DEF ControlTypeOK
    <3> QED
      BY <2>1, <3>1 DEF QueueHolds
  <2>5. Len(accepted') = head' /\ Len(applied') = tail'
    BY <2>1, <1>3 DEF QueueHolds
  <2> QED
    BY <2>1, <2>2, <2>3, <2>4, <2>5 DEF QueueHolds
<1>6. HalfWay'
  <2>1. /\ UNCHANGED <<worker, slots, head, request>>
        /\ tail' = tail + 1 /\ host' = "drain"
    OBVIOUS
  <2>2. tail \in Nat /\ head \in Nat
    BY DEF ControlTypeOK
  <2> QED
    BY <2>1, <2>2, ControlAssumption DEF HalfWay
<1>7. AnswersTrue'
  BY DEF AnswersTrue, WasAccepted
<1> QED
  BY <1>4, <1>5, <1>6, <1>7

\* The worker fills a slot that is not one of the queued ones.
LEMMA HandleFrameKeeps == IInv /\ HandleFrame => IInv'
<1> SUFFICES ASSUME IInv, HandleFrame PROVE IInv'
  OBVIOUS
<1> USE DEF IInv, WorkerOnly, HandleFrame, flagVars, hostVars, clientVars
<1>1. inbound' \in Seq(Tokens)
  BY HeadTailProperties DEF ControlTypeOK
<1>2. CASE worker' = "error" /\ UNCHANGED slots
  <2>1. ControlTypeOK'
    BY <1>1, <1>2 DEF ControlTypeOK
  <2>2. QueueHolds' /\ HalfWay' /\ AnswersTrue'
    BY <1>2 DEF QueueHolds, HalfWay, AnswersTrue, WasAccepted
  <2> QED
    BY <2>1, <2>2
<1>3. CASE /\ worker' = "push" /\ head - tail < QueueSlots
           /\ slots' = [slots EXCEPT ![head % QueueSlots] = request]
  <2>1. head % QueueSlots \in 0..QueueSlots - 1
    BY SlotType DEF ControlTypeOK
  <2>2. ControlTypeOK' /\ slots'[head % QueueSlots] = request
    BY <1>1, <1>3, <2>1 DEF ControlTypeOK
  <2>3. ASSUME NEW n \in Nat, tail <= n, n < head PROVE slots'[n % QueueSlots] = slots[n % QueueSlots]
    <3>1. n % QueueSlots # head % QueueSlots
      <4>1. n < head /\ head - n < QueueSlots /\ head \in Nat /\ QueueSlots \in Nat \ {0}
        BY <1>3, <2>3, ControlAssumption DEF ControlTypeOK
      <4> QED
        BY <4>1, SlotsApart
    <3>2. n % QueueSlots \in 0..QueueSlots - 1
      BY SlotType
    <3> QED
      BY <1>3, <3>1, <3>2 DEF ControlTypeOK
  <2>4. QueueHolds'
    <3>1. ASSUME NEW i \in tail + 1..head PROVE slots'[(i - 1) % QueueSlots] = accepted[i]
      <4>1. i - 1 \in Nat /\ tail <= i - 1 /\ i - 1 < head
        BY DEF ControlTypeOK
      <4> QED
        BY <4>1, <2>3 DEF QueueHolds
    <3> QED
      BY <3>1 DEF QueueHolds
  <2>5. HalfWay'
    BY <1>3, <2>2, <2>3 DEF HalfWay, ControlTypeOK
  <2>6. AnswersTrue'
    BY <1>3 DEF AnswersTrue, WasAccepted
  <2> QED
    BY <2>2, <2>4, <2>5, <2>6
<1>4. head \in Nat /\ tail \in Nat /\ QueueSlots \in Nat
  BY ControlAssumption DEF ControlTypeOK
<1>5. head - tail >= QueueSlots \/ head - tail < QueueSlots
  BY <1>4
<1> QED
  BY <1>2, <1>3, <1>5

\* Storing head queues the command and accepts it.
LEMMA PushReleaseKeeps == IInv /\ PushRelease => IInv'
<1> SUFFICES ASSUME IInv, PushRelease PROVE IInv'
  OBVIOUS
<1> USE DEF IInv, WorkerOnly, PushRelease, pipeVars, flagVars, hostVars, clientVars
<1>0. request \in Nat /\ accepted \in Seq(Nat) /\ Len(accepted) = head
  BY DEF ControlTypeOK, QueueHolds
<1>2. /\ accepted' \in Seq(Nat)
      /\ Len(accepted') = head + 1 /\ accepted'[head + 1] = request
      /\ \A i \in 1..head : accepted'[i] = accepted[i]
  BY <1>0, AppendProperties
<1>1. ControlTypeOK'
  BY <1>2 DEF ControlTypeOK
<1>3. ASSUME NEW id, WasAccepted(id) PROVE WasAccepted(id)'
  BY <1>2, <1>3 DEF WasAccepted, QueueHolds, ControlTypeOK
<1>4. QueueHolds'
  <2>1. ASSUME NEW i \in tail + 1..head + 1 PROVE slots[(i - 1) % QueueSlots] = accepted'[i]
    <3>1. CASE i = head + 1
      <4>1. i - 1 = head
        BY <3>1 DEF ControlTypeOK
      <4> QED
        BY <4>1, <3>1, <1>2 DEF HalfWay
    <3>2. CASE i # head + 1
      BY <3>2, <1>2 DEF QueueHolds, ControlTypeOK
    <3> QED
      BY <3>1, <3>2
  <2>2. /\ UNCHANGED <<slots, tail, applied>> /\ head' = head + 1
        /\ head - tail < QueueSlots /\ QueueSlots \in Nat
    BY ControlAssumption DEF HalfWay
  <2>3. head' - tail' <= QueueSlots /\ tail' <= head'
    BY <2>2 DEF QueueHolds, ControlTypeOK
  <2>4. \A i \in 1..tail' : applied'[i] = accepted'[i]
    BY <2>2, <1>2 DEF QueueHolds, ControlTypeOK
  <2> QED
    BY <2>1, <2>2, <2>3, <2>4, <1>2 DEF QueueHolds
<1>5. WasAccepted(request)'
  BY <1>2 DEF WasAccepted, QueueHolds, ControlTypeOK
<1>6. HalfWay'
  BY DEF HalfWay, ControlTypeOK
<1>7. AnswersTrue'
  BY <1>3, <1>5 DEF AnswersTrue
<1> QED
  BY <1>1, <1>4, <1>6, <1>7

\* Closing a pipe instance forgets what was in it, and touches neither queue nor answers
\* already given.
LEMMA CloseKeeps == IInv /\ Close /\ WorkerOnly => IInv'
<1> SUFFICES ASSUME IInv, Close, WorkerOnly PROVE IInv'
  OBVIOUS
<1>1. /\ UNCHANGED <<slots, head, tail, item, waiting, sent, accepted, applied, acked, host>>
      /\ inbound' = <<>> /\ outbound' = <<>> /\ request' = 0 /\ worker' = "create"
  BY DEF Close, WorkerOnly, queueVars, hostVars, clientVars
<1>2. ControlTypeOK'
  <2>1. <<>> \in Seq(Tokens) /\ <<>> \in Seq(Answers)
    BY EmptySeq
  <2> QED
    BY <1>1, <2>1 DEF IInv, ControlTypeOK
<1>3. QueueHolds'
  BY <1>1 DEF IInv, QueueHolds
<1>4. HalfWay'
  BY <1>1 DEF IInv, HalfWay
<1>5. AnswersTrue'
  <2>1. Len(outbound') = 0
    BY <1>1
  <2> QED
    BY <1>1, <2>1 DEF IInv, AnswersTrue, WasAccepted
<1> QED
  BY <1>2, <1>3, <1>4, <1>5 DEF IInv

\* An answer is an acknowledgement only behind a push.
LEMMA WriteReplyKeeps == IInv /\ WriteReply => IInv'
<1> SUFFICES ASSUME IInv, WriteReply PROVE IInv'
  OBVIOUS
<1> USE DEF IInv, WorkerOnly, WriteReply, queueVars, hostVars, clientVars, flagVars
<1>1. CASE outbound' = Append(outbound, Reply) /\ request' = 0 /\ worker' = "length"
           /\ UNCHANGED <<pipe, inbound, flagVars, queueVars>>
  <2>1. Reply \in Answers
    BY DEF Reply, Answers, ControlTypeOK
  <2>2. Reply.kind = "Ack" => WasAccepted(Reply.id)
    BY DEF Reply, AnswersTrue
  <2>0. /\ outbound' \in Seq(Answers) /\ Len(outbound') = Len(outbound) + 1
        /\ \A i \in 1..Len(outbound) : outbound'[i] = outbound[i]
        /\ outbound'[Len(outbound) + 1] = Reply /\ Len(outbound) \in Nat
    BY <1>1, <2>1, AppendProperties, LenProperties DEF ControlTypeOK
  <2>3. ControlTypeOK'
    BY <1>1, <2>0 DEF ControlTypeOK
  <2>4. AnswersTrue'
    <3>1. ASSUME NEW i \in 1..Len(outbound'), outbound'[i].kind = "Ack"
          PROVE  WasAccepted(outbound'[i].id)
      BY <3>1, <2>0, <2>2 DEF AnswersTrue
    <3>2. worker' = "length" /\ UNCHANGED <<accepted, acked>>
      BY <1>1
    <3> QED
      BY <3>1, <3>2 DEF AnswersTrue, WasAccepted
  <2> QED
    BY <1>1, <2>3, <2>4 DEF QueueHolds, HalfWay
<1>2. CASE Close
  BY <1>2, CloseKeeps
<1> QED
  BY <1>1, <1>2

\* A client takes an acknowledgement for the request it waits for.
LEMMA ReceiveKeeps == IInv /\ Receive => IInv'
<1> SUFFICES ASSUME IInv, Receive PROVE IInv'
  OBVIOUS
<1> USE DEF IInv, Receive, ClientOnly, queueVars, hostVars, flagVars
<1>1. /\ Len(outbound) > 0 /\ Head(outbound) = outbound[1]
      /\ outbound' \in Seq(Answers)
      /\ Len(outbound') = Len(outbound) - 1
      /\ \A i \in 1..Len(outbound') : outbound'[i] = outbound[i + 1]
      /\ Len(outbound) \in Nat
  BY HeadTailProperties, LenProperties, EmptySeq DEF ControlTypeOK
<1>2. acked' = acked \/ (acked' = acked \cup {waiting} /\ WasAccepted(waiting))
  BY <1>1 DEF Expected, AnswersTrue
<1>3. ControlTypeOK'
  BY <1>1, <1>2 DEF ControlTypeOK
<1>4. AnswersTrue'
  <2>1. \A i \in 1..Len(outbound') : outbound'[i].kind = "Ack" => WasAccepted(outbound'[i].id)
    BY <1>1 DEF AnswersTrue
  <2>2. UNCHANGED <<worker, request, accepted>>
    OBVIOUS
  <2>3. \A id \in acked' : WasAccepted(id)
    BY <1>2 DEF AnswersTrue
  <2>4. \A id : WasAccepted(id)' <=> WasAccepted(id)
    BY <2>2 DEF WasAccepted
  <2>5. worker = "reply" => WasAccepted(request)
    BY DEF AnswersTrue
  <2> HIDE DEF IInv, Receive
  <2> QED
    BY <2>1, <2>2, <2>3, <2>4, <2>5 DEF AnswersTrue, WasAccepted
<1> QED
  BY <1>3, <1>4 DEF QueueHolds, HalfWay

-----------------------------------------------------------------------------
(* The other steps leave queue and acknowledgements alone *)

LEMMA HostKeeps == IInv /\ HostNext => IInv'
<1> SUFFICES ASSUME IInv, HostNext PROVE IInv'
  OBVIOUS
<1>1. CASE Start \/ RequestStop \/ FinishStop \/ RefreshStatus
  <2>1. /\ UNCHANGED <<slots, head, tail, request, item, waiting, inbound, outbound, sent,
                       accepted, applied, acked>>
        /\ worker' = worker \/ worker' = "start"
        /\ host' = host \/ host' # "popping"
    BY <1>1 DEF Start, RequestStop, FinishStop, RefreshStatus, queueVars, clientVars, pipeVars, hostVars
  <2> QED
    BY <2>1 DEF IInv, ControlTypeOK, QueueHolds, HalfWay, AnswersTrue, WasAccepted
<1> QED
  BY <1>1, PopCopyKeeps, PopReleaseKeeps DEF HostNext

LEMMA WorkerKeeps == IInv /\ WorkerNext => IInv'
<1> SUFFICES ASSUME IInv, WorkerNext PROVE IInv'
  OBVIOUS
<1> USE DEF WorkerOnly, hostVars, clientVars, queueVars, flagVars, pipeVars
<1>1. CASE WorkerBegin \/ CreateInstance \/ Accept
  <2>1. /\ UNCHANGED <<slots, head, tail, request, item, waiting, inbound, outbound, sent,
                       accepted, applied, acked, host>>
        /\ worker' \notin {"push", "reply"}
    BY <1>1 DEF WorkerBegin, CreateInstance, Accept, Exit
  <2> QED
    BY <2>1 DEF IInv, ControlTypeOK, QueueHolds, HalfWay, AnswersTrue, WasAccepted
<1>2. CASE ConnectFails \/ LeaveSession \/ ReadFails \/ FrameFails
  <2>1. Close /\ WorkerOnly
    BY <1>2 DEF ConnectFails, LeaveSession, ReadFails, FrameFails
  <2> QED
    BY <2>1, CloseKeeps
<1>3. CASE ReadLength \/ IdleTimeout
  <2>1. \/ Close /\ WorkerOnly
        \/ /\ UNCHANGED <<slots, head, tail, item, waiting, outbound, sent,
                          accepted, applied, acked, host>>
           /\ inbound # <<>> /\ inbound' = Tail(inbound)
           /\ worker' \notin {"push", "reply"}
           /\ request' = request \/ request' = Head(inbound).id
    BY <1>3 DEF ReadLength, IdleTimeout
  <2>2. inbound # <<>> => /\ Tail(inbound) \in Seq(Tokens)
                          /\ Head(inbound).id \in Nat
    <3>1. inbound \in Seq(Tokens)
      BY DEF IInv, ControlTypeOK
    <3>2. inbound # <<>> => Head(inbound) \in Tokens /\ Tail(inbound) \in Seq(Tokens)
      BY <3>1, HeadTailProperties
    <3> QED
      BY <3>2 DEF Tokens
  <2>3. CASE Close /\ WorkerOnly
    BY <2>3, CloseKeeps
  <2>4. CASE ~(Close /\ WorkerOnly)
    <3>1. ControlTypeOK'
      BY <2>1, <2>2, <2>4 DEF IInv, ControlTypeOK
    <3>2. /\ UNCHANGED <<slots, head, tail, item, outbound, accepted, applied, acked, host>>
          /\ worker' \notin {"push", "reply"}
      BY <2>1, <2>4
    <3>3. QueueHolds'
      BY <3>2 DEF IInv, QueueHolds
    <3>4. HalfWay'
      BY <3>2 DEF IInv, HalfWay
    <3>5. AnswersTrue'
      BY <3>2 DEF IInv, AnswersTrue, WasAccepted
    <3> QED
      BY <3>1, <3>3, <3>4, <3>5 DEF IInv
  <2> QED
    BY <2>3, <2>4
<1> QED
  BY <1>1, <1>2, <1>3, HandleFrameKeeps, PushReleaseKeeps, WriteReplyKeeps DEF WorkerNext

LEMMA ClientKeeps == IInv /\ ClientNext => IInv'
<1> SUFFICES ASSUME IInv, ClientNext PROVE IInv'
  OBVIOUS
<1> USE DEF ClientOnly, hostVars, queueVars, flagVars, pipeVars
<1>1. CASE Connect \/ Cancel \/ Leave
  <2>1. /\ UNCHANGED <<slots, head, tail, request, item, sent,
                       accepted, applied, acked, host, worker>>
        /\ inbound' = inbound \/ inbound' = <<>>
        /\ outbound' = outbound \/ outbound' = <<>>
        /\ waiting' = waiting \/ waiting' = 0
    BY <1>1 DEF Connect, Cancel, Leave
  <2>2. ControlTypeOK'
    <3>1. <<>> \in Seq(Tokens) /\ <<>> \in Seq(Answers)
      BY EmptySeq
    <3>2. inbound' \in Seq(Tokens)
      BY <2>1, <3>1 DEF IInv, ControlTypeOK
    <3>3. outbound' \in Seq(Answers)
      BY <2>1, <3>1 DEF IInv, ControlTypeOK
    <3>4. waiting' \in Nat
      BY <2>1 DEF IInv, ControlTypeOK
    <3> QED
      BY <2>1, <3>2, <3>3, <3>4 DEF IInv, ControlTypeOK
  <2>3. AnswersTrue'
    BY <2>1 DEF IInv, AnswersTrue, WasAccepted
  <2> QED
    BY <2>1, <2>2, <2>3 DEF IInv, QueueHolds, HalfWay
<1>2. CASE SendLength \/ SendFrame
  <2>1. /\ UNCHANGED <<slots, head, tail, request, item, outbound,
                       accepted, applied, acked, host, worker>>
        /\ sent' \in Seq(DOMAIN Frames) /\ waiting' \in Nat
    <3>1. sent \in Seq(DOMAIN Frames) /\ waiting \in Nat
      BY DEF IInv, ControlTypeOK
    <3>2. CASE SendLength
      <4>1. PICK f \in DOMAIN Frames : sent' = Append(sent, f)
        BY <3>2 DEF SendLength
      <4>2. sent' \in Seq(DOMAIN Frames) /\ Len(sent') \in Nat
        BY <3>1, <4>1, AppendProperties, LenProperties
      <4> QED
        BY <3>2, <4>2 DEF SendLength
    <3>3. CASE SendFrame
      BY <3>1, <3>3 DEF SendFrame
    <3> QED
      BY <1>2, <3>2, <3>3 DEF SendLength, SendFrame
  <2>2. inbound' \in Seq(Tokens)
    <3>1. \A id \in Nat : Prefix(id) \in Tokens /\ Body(id) \in Tokens
      BY DEF Prefix, Body, Tokens
    <3>2. \E token \in Tokens : inbound' = Append(inbound, token)
      BY <1>2, <2>1, <3>1 DEF SendLength, SendFrame, IInv, ControlTypeOK
    <3> QED
      BY <3>2, AppendProperties DEF IInv, ControlTypeOK
  <2> QED
    BY <2>1, <2>2 DEF IInv, ControlTypeOK, QueueHolds, HalfWay, AnswersTrue, WasAccepted
<1> QED
  BY <1>1, <1>2, ReceiveKeeps DEF ClientNext

LEMMA NextKeeps == IInv /\ [Next]_vars => IInv'
<1> SUFFICES ASSUME IInv, [Next]_vars PROVE IInv'
  OBVIOUS
<1>1. CASE UNCHANGED vars
  BY <1>1 DEF vars, pipeVars, flagVars, hostVars, queueVars, clientVars, IInv,
              ControlTypeOK, QueueHolds, HalfWay, AnswersTrue, WasAccepted
<1> QED
  BY <1>1, HostKeeps, WorkerKeeps, ClientKeeps DEF Next

-----------------------------------------------------------------------------
(* The theorems *)

\* What was applied and what is queued make up what was accepted.
LEMMA QueueIsRest == IInv => AppliedExactlyOnce
<1> SUFFICES ASSUME IInv PROVE AppliedExactlyOnce
  OBVIOUS
<1> USE DEF IInv, ControlTypeOK, QueueHolds
<1> DEFINE n == head - tail
<1>1. n \in Nat /\ Len(applied) + n = head
  OBVIOUS
<1>2. Queued \in Seq(Nat) /\ Len(Queued) = n
      /\ \A i \in 1..n : Queued[i] = slots[(tail + i - 1) % QueueSlots]
  <2>1. ASSUME NEW i \in 1..n PROVE slots[(tail + i - 1) % QueueSlots] \in Nat
    <3>1. tail + i - 1 \in Nat
      OBVIOUS
    <3>2. (tail + i - 1) % QueueSlots \in 0..QueueSlots - 1
      BY <3>1, SlotType
    <3> QED
      BY <3>2
  <2> QED
    BY <1>1, <2>1 DEF Queued
<1>3. applied \o Queued \in Seq(Nat) /\ Len(applied \o Queued) = Len(accepted)
  BY <1>1, <1>2, ConcatProperties
<1>4. ASSUME NEW i \in 1..Len(accepted) PROVE (applied \o Queued)[i] = accepted[i]
  <2>1. CASE i <= tail
    <3>1. (applied \o Queued)[i] = applied[i]
      BY <2>1, <1>1, <1>2, ConcatProperties
    <3> QED
      BY <3>1, <2>1
  <2>2. CASE i > tail
    <3>1. i - tail \in 1..n /\ tail + (i - tail) - 1 = i - 1 /\ i \in tail + 1..head
      BY <2>2
    <3>2. (applied \o Queued)[i] = Queued[i - tail]
      <4>1. i \in 1..Len(applied) + Len(Queued) /\ ~(i <= Len(applied)) /\ Len(applied) = tail
        BY <2>2, <1>1, <1>2
      <4>2. applied \in Seq(Nat) /\ Queued \in Seq(Nat)
        BY <1>2
      <4>3. (applied \o Queued)[i] = IF i <= Len(applied) THEN applied[i] ELSE Queued[i - Len(applied)]
        BY <4>1, <4>2, ConcatProperties
      <4> QED
        BY <4>1, <4>3
    <3>3. Queued[i - tail] = slots[(i - 1) % QueueSlots]
      BY <3>1, <1>2
    <3> QED
      BY <3>1, <3>2, <3>3
  <2>3. i <= tail \/ i > tail
    OBVIOUS
  <2> QED
    BY <2>1, <2>2, <2>3
<1>5. accepted \in Seq(Nat)
  OBVIOUS
<1> HIDE DEF n
<1> QED
  BY <1>3, <1>4, <1>5, SeqEqual DEF AppliedExactlyOnce

LEMMA InvariantIInv == Spec => []IInv
BY InitIInv, NextKeeps, PTL DEF Spec

\* Commands are applied once and in the order they were accepted, and what a client
\* counts as acknowledged was accepted, whatever is cancelled, broken or restarted
\* (control_queue.cpp, ipc_pipe.cpp, IpcProtocol.cs).
THEOREM CommandsApplyOnce == Spec => []CommandsMatchAnswers
<1>1. IInv => AckMeansQueued
  BY DEF IInv, AnswersTrue, WasAccepted, AckMeansQueued
<1>2. IInv => CommandsMatchAnswers
  BY <1>1, QueueIsRest DEF CommandsMatchAnswers
<1> QED
  BY <1>2, InvariantIInv, PTL
=============================================================================

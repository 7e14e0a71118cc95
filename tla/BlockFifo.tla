------------------------------ MODULE BlockFifo ------------------------------
(***************************************************************************)
(* What the rings promise: a bounded first-in first-out channel of audio   *)
(* blocks.  A block that finds the channel full is dropped, which changes  *)
(* nothing.  The channel of the ASIO transport is empty when its region    *)
(* comes into being (Spec); the other rings live as long as their users    *)
(* and lose nothing they accepted (LosslessSpec).                          *)
(***************************************************************************)
EXTENDS Naturals, Sequences

CONSTANTS Blocks, Capacity, NoBlock

VARIABLES
  q,   \* the blocks sent and not yet received
  out  \* the block received last

Init == q = <<>> /\ out = NoBlock

Send(b) == Len(q) < Capacity /\ q' = Append(q, b) /\ UNCHANGED out

Receive == q # <<>> /\ out' = Head(q) /\ q' = Tail(q)

Renew == q' = <<>> /\ UNCHANGED out

Next == (\E b \in Blocks : Send(b)) \/ Receive \/ Renew

Spec == Init /\ [][Next]_<<q, out>>

LosslessNext == (\E b \in Blocks : Send(b)) \/ Receive

LosslessSpec == Init /\ [][LosslessNext]_<<q, out>>

==============================================================================

-------------------------- MODULE SnapshotRegister --------------------------
(***************************************************************************)
(* What the tap promises its reader: the newest block, whole, or nothing.  *)
(* The register shows one block or none; it may be emptied at any moment   *)
(* (a publication in progress hides the previous one), and a read takes    *)
(* exactly what the register shows at that moment.                         *)
(***************************************************************************)
CONSTANTS Blocks,     \* the blocks that are ever shown
          Nothing     \* shown when there is none

VARIABLES shown,      \* the block a read would deliver, or Nothing
          taken       \* the block delivered last, or Nothing

Init == shown = Nothing /\ taken = Nothing

Hide == shown' = Nothing /\ UNCHANGED taken

Show == shown' \in Blocks /\ UNCHANGED taken

Take == shown \in Blocks /\ taken' = shown /\ UNCHANGED shown

Next == Hide \/ Show \/ Take

Spec == Init /\ [][Next]_<<shown, taken>>
=============================================================================

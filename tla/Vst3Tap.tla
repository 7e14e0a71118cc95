------------------------------ MODULE Vst3Tap ------------------------------
(***************************************************************************)
(* The tap that hands the newest rendered block of an output group to the  *)
(* control loop, which lets a plug-in worker process it (Vst3TapBufferV1,  *)
(* src/src/hub/src/vst3_lane_bridge.cpp:183-386).  One thread publishes,   *)
(* one reads, a third may reset; nobody waits.  An action is one atomic    *)
(* load or store of a token, or the stores (loads) of one part of a slot.  *)
(* The tokens are sequentially consistent in the code and the parts are    *)
(* released and acquired between them, so interleaving loses nothing.      *)
(***************************************************************************)
EXTENDS Naturals, FiniteSets

CONSTANTS Slots,          \* kSnapshotSlotCount
          MaxGeneration,  \* the largest generation; the next one is 1
          Groups,         \* output groups that are published
          ReadGroup,      \* the group the control loop asks for
          MaxBlocks       \* bound: blocks published in a behaviour

ASSUME SlotsAssumption == Slots \in Nat /\ Slots >= 1
ASSUME GenerationAssumption == MaxGeneration \in Nat /\ MaxGeneration >= 1
ASSUME GroupsAssumption == ReadGroup \in Groups /\ "" \notin Groups
ASSUME BlocksAssumption == MaxBlocks \in Nat

Index == 0..(Slots - 1)
NoReaderSlot == Slots

\* A block is known by its number; its payload is never looked into.
Block == [id : 1..MaxBlocks, group : Groups]
NoBlock == [id |-> 0, group |-> ""]
AnyBlock == Block \cup {NoBlock}

\* publication_: generation, slot index and the bit that says "in progress".
Token == [generation : 0..MaxGeneration, slot : Index, writing : BOOLEAN]
Empty == [generation |-> 0, slot |-> 0, writing |-> FALSE]

VARIABLES publication,   \* publication_
          readerSlot,    \* reader_slot_, the hazard
          valid,         \* valid_
          slots,         \* the payload: which block each part belongs to
          writer,        \* where publish() is, and its locals
          reader,        \* where read() is, and its locals
          resetting,     \* reset() is between its two stores
          published,     \* number of blocks handed to publish()
          delivered      \* what the last successful read returned

vars == <<publication, readerSlot, valid, slots, writer, reader, resetting,
          published, delivered>>

\* A slot: its samples, its group, and the scalars stored last.
Content == [samples : AnyBlock, group : AnyBlock, shape : AnyBlock,
            sequence : 0..MaxGeneration]
NoContent == [samples |-> NoBlock, group |-> NoBlock, shape |-> NoBlock,
              sequence |-> 0]

WriterSteps == {"idle", "loaded", "chosen", "samples", "group", "scalars",
                "publish", "validate"}
ReaderSteps == {"idle", "token", "announce", "recheck", "scalars", "group",
                "samples", "post", "release"}

Readable(token) == token # Empty /\ ~token.writing

NotWriting == [pc |-> "idle", token |-> Empty, target |-> 0, block |-> NoBlock]
NotReading == [pc |-> "idle", token |-> Empty, got |-> NoContent]

Init ==
  /\ publication = Empty
  /\ readerSlot = NoReaderSlot
  /\ valid = FALSE
  /\ slots = [i \in Index |-> NoContent]
  /\ writer = NotWriting /\ reader = NotReading
  /\ resetting = FALSE
  /\ published = 0
  /\ delivered = NoContent

-----------------------------------------------------------------------------
\* publish(): the audio thread.

WriterAt(from, to) == writer.pc = from /\ writer' = [writer EXCEPT !.pc = to]

\* Load the publication; one in progress would refuse the block.
LoadPublication(g) ==
  /\ writer.pc = "idle"
  /\ ~publication.writing
  /\ published < MaxBlocks
  /\ published' = published + 1
  /\ writer' = [pc |-> "loaded", token |-> publication, target |-> 0,
                block |-> [id |-> published + 1, group |-> g]]
  /\ UNCHANGED <<publication, readerSlot, valid, slots, reader, resetting,
                 delivered>>

\* Mutant: only the published slot is kept.
FreeSlotsUnguarded(token, hazard) ==
  {i \in Index : token = Empty \/ i # token.slot}

\* The slots that are neither published nor announced by the reader.
FreeSlots(token, hazard) ==
  {i \in Index : (token = Empty \/ i # token.slot) /\ i # hazard}

\* Load the hazard and take the first free slot; when there is none the block
\* is refused.
ChooseSlot ==
  LET free == FreeSlots(writer.token, readerSlot) IN
  /\ writer.pc = "loaded"
  /\ \E i \in free \cup {NoReaderSlot} :
       /\ \A j \in free : i <= j
       /\ writer' = IF i = NoReaderSlot THEN NotWriting
                    ELSE [writer EXCEPT !.pc = "chosen", !.target = i]
  /\ UNCHANGED <<publication, readerSlot, valid, slots, reader, resetting,
                 published, delivered>>

NextGeneration(g) == IF g >= MaxGeneration THEN 1 ELSE g + 1

StableToken ==
  [generation |-> NextGeneration(writer.token.generation),
   slot |-> writer.target, writing |-> FALSE]

InProgressToken == [StableToken EXCEPT !.writing = TRUE]

Mark ==
  /\ WriterAt("chosen", "samples")
  /\ publication' = InProgressToken
  /\ UNCHANGED <<readerSlot, valid, slots, reader, resetting, published,
                 delivered>>

FillSamples ==
  /\ WriterAt("samples", "group")
  /\ slots' = [slots EXCEPT ![writer.target].samples = writer.block]
  /\ UNCHANGED <<publication, readerSlot, valid, reader, resetting, published,
                 delivered>>

FillGroup ==
  /\ WriterAt("group", "scalars")
  /\ slots' = [slots EXCEPT ![writer.target].group = writer.block]
  /\ UNCHANGED <<publication, readerSlot, valid, reader, resetting, published,
                 delivered>>

FillScalars ==
  /\ WriterAt("scalars", "publish")
  /\ slots' = [slots EXCEPT ![writer.target].shape = writer.block,
                            ![writer.target].sequence = StableToken.generation]
  /\ UNCHANGED <<publication, readerSlot, valid, reader, resetting, published,
                 delivered>>

Publish ==
  /\ WriterAt("publish", "validate")
  /\ publication' = StableToken
  /\ UNCHANGED <<readerSlot, valid, slots, reader, resetting, published,
                 delivered>>

Validate ==
  /\ writer.pc = "validate" /\ writer' = NotWriting
  /\ valid' = TRUE
  /\ UNCHANGED <<publication, readerSlot, slots, reader, resetting, published,
                 delivered>>

-----------------------------------------------------------------------------
\* read(): the control loop.

ReaderAt(from) == reader.pc = from

BeginRead ==
  /\ ReaderAt("idle")
  /\ valid
  /\ reader' = [reader EXCEPT !.pc = "token"]
  /\ UNCHANGED <<publication, readerSlot, valid, slots, writer, resetting,
                 published, delivered>>

\* Mutant: slot 0 is taken for "nothing published".
LoadTokenNotFirst ==
  /\ ReaderAt("token")
  /\ reader' = IF Readable(publication) /\ publication.slot # 0
               THEN [reader EXCEPT !.pc = "announce", !.token = publication]
               ELSE NotReading
  /\ UNCHANGED <<publication, readerSlot, valid, slots, writer, resetting,
                 published, delivered>>

LoadToken ==
  /\ ReaderAt("token")
  /\ reader' = IF Readable(publication)
               THEN [reader EXCEPT !.pc = "announce", !.token = publication]
               ELSE NotReading
  /\ UNCHANGED <<publication, readerSlot, valid, slots, writer, resetting,
                 published, delivered>>

Announce ==
  /\ ReaderAt("announce")
  /\ readerSlot' = reader.token.slot
  /\ reader' = [reader EXCEPT !.pc = "recheck"]
  /\ UNCHANGED <<publication, valid, slots, writer, resetting, published,
                 delivered>>

Recheck ==
  /\ ReaderAt("recheck")
  /\ reader' = [reader EXCEPT
                  !.pc = IF publication = reader.token THEN "scalars"
                                                       ELSE "release"]
  /\ UNCHANGED <<publication, readerSlot, valid, slots, writer, resetting,
                 published, delivered>>

CopyScalars ==
  LET slot == slots[reader.token.slot] IN
  /\ ReaderAt("scalars")
  /\ reader' = [reader EXCEPT !.pc = "group",
                              !.got.shape = slot.shape,
                              !.got.sequence = slot.sequence]
  /\ UNCHANGED <<publication, readerSlot, valid, slots, writer, resetting,
                 published, delivered>>

\* The snapshot of another group is no answer.
CopyGroup ==
  LET group == slots[reader.token.slot].group IN
  /\ ReaderAt("group")
  /\ reader' = [reader EXCEPT
                  !.pc = IF group.group = ReadGroup THEN "samples"
                                                    ELSE "release",
                  !.got.group = group]
  /\ UNCHANGED <<publication, readerSlot, valid, slots, writer, resetting,
                 published, delivered>>

CopySamples ==
  /\ ReaderAt("samples")
  /\ reader' = [reader EXCEPT !.pc = "post",
                              !.got.samples = slots[reader.token.slot].samples]
  /\ UNCHANGED <<publication, readerSlot, valid, slots, writer, resetting,
                 published, delivered>>

\* The token must still be the one loaded first; then the copy is returned.
PostCheck ==
  /\ ReaderAt("post")
  /\ delivered' = IF publication = reader.token THEN reader.got ELSE delivered
  /\ reader' = [reader EXCEPT !.pc = "release"]
  /\ UNCHANGED <<publication, readerSlot, valid, slots, writer, resetting,
                 published>>

\* The guard object clears the hazard on every way out.
Release ==
  /\ ReaderAt("release")
  /\ readerSlot' = NoReaderSlot
  /\ reader' = NotReading
  /\ UNCHANGED <<publication, valid, slots, writer, resetting, published,
                 delivered>>

-----------------------------------------------------------------------------
\* reset(): two stores; the hazard of a copy under way is kept.

\* Mutant: the hazard is cleared too, as if no copy were under way.
ResetEverything ==
  /\ ~resetting
  /\ resetting' = TRUE
  /\ publication' = Empty
  /\ readerSlot' = NoReaderSlot
  /\ UNCHANGED <<valid, slots, writer, reader, published, delivered>>

ResetPublication ==
  /\ ~resetting
  /\ resetting' = TRUE
  /\ publication' = Empty
  /\ UNCHANGED <<readerSlot, valid, slots, writer, reader, published,
                 delivered>>

ResetValid ==
  /\ resetting
  /\ resetting' = FALSE
  /\ valid' = FALSE
  /\ UNCHANGED <<publication, readerSlot, slots, writer, reader, published,
                 delivered>>

-----------------------------------------------------------------------------
WriterNext ==
  \/ \E g \in Groups : LoadPublication(g)
  \/ ChooseSlot \/ Mark \/ FillSamples \/ FillGroup \/ FillScalars
  \/ Publish \/ Validate

ReaderNext ==
  \/ BeginRead \/ LoadToken \/ Announce \/ Recheck
  \/ CopyScalars \/ CopyGroup \/ CopySamples \/ PostCheck \/ Release

ResetNext == ResetPublication \/ ResetValid

Next == WriterNext \/ ReaderNext \/ ResetNext

Spec == Init /\ [][Next]_vars

\* The control loop asks again in every turn.
FairSpec == Spec /\ WF_vars(ReaderNext)

-----------------------------------------------------------------------------
\* Every variable has its type.
TypeOK ==
  /\ publication \in Token
  /\ readerSlot \in Index \cup {NoReaderSlot}
  /\ valid \in BOOLEAN
  /\ slots \in [Index -> Content]
  /\ writer \in [pc : WriterSteps, token : Token, target : Index,
                 block : AnyBlock]
  /\ reader \in [pc : ReaderSteps, token : Token, got : Content]
  /\ resetting \in BOOLEAN
  /\ published \in 0..MaxBlocks
  /\ delivered \in Content

Filling == writer.pc \in {"samples", "group", "scalars", "publish"}
Copying == reader.pc \in {"scalars", "group", "samples", "post"}

\* No slot is written while it is copied, whatever happens between the
\* loads and stores of the two sides (the hazard, vst3_lane_bridge.cpp:222).
HazardRespected == ~(Filling /\ Copying /\ writer.target = reader.token.slot)

\* What the buffer shows: the samples of the slot a complete publication
\* names.
Shown == IF Readable(publication) THEN slots[publication.slot].samples
                                  ELSE NoBlock

\* What a read returned, if all its parts are of one block of the group asked
\* for.
Whole(content) == content.samples = content.group
                  /\ content.samples = content.shape

Torn == [id |-> 0, group |-> "torn"]
Taken == IF Whole(delivered) THEN delivered.samples ELSE Torn

Register == INSTANCE SnapshotRegister
              WITH Blocks <- Block, Nothing <- NoBlock,
                   shown <- Shown, taken <- Taken

\* A successful read returns one block, whole, and it is the one published
\* at the moment of the last check: no part of an older or a newer block, no
\* block that was replaced or reset meanwhile (vst3_lane_bridge.cpp:305-366).
ImplementsRegister == Register!Spec

\* The sequence number that comes with a block is the number of its
\* publication, which is what the control loop tells blocks apart by
\* (engine_preview.cpp:2213), and the block is of the group asked for.
NumberedAsPublished ==
  [][delivered' # delivered => /\ delivered'.sequence = publication.generation
                               /\ delivered'.samples.group = ReadGroup]_vars

\* A published block of the group is delivered unless it is replaced or reset
\* first: failing reads do not go on for ever once the writer is quiet.
ReaderCatchesUp ==
  \A n \in 1..MaxBlocks :
    LET b == [id |-> n, group |-> ReadGroup] IN
    (Shown = b /\ valid) ~> (Taken = b \/ Shown # b \/ ~valid)
=============================================================================

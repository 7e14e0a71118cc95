------------------------------ MODULE Vst3_proofs ------------------------------
(***************************************************************************)
(* Theorems about the VST3 path: the tap (Vst3Tap), for any number of      *)
(* slots, generations, groups and blocks, the plug-in states               *)
(* (PluginStates), for any states, rules, Scenes and capacities, and the   *)
(* lane with its sandbox (Vst3Lane), for any bounds and any faults.        *)
(*                                                                         *)
(* The argument of the tap: a writer that has chosen a slot still holds    *)
(* the token it read, unless a reset removed it; a reader that has passed  *)
(* its second look saw that same token, so the slot chosen is another one; *)
(* and from then on the hazard keeps the writer away.                      *)
(*                                                                         *)
(* The argument of the lane: while a sandbox runs, the slot of its event   *)
(* is free, so the first quarantine of that life that cannot end the       *)
(* worker writes its entry, and nothing removes it before the next launch. *)
(* And no answer still in the pipe bears the number of the next request,   *)
(* since a repeated one that is met by another request ends the session:   *)
(* so the answer that is used is the one to the block in hand.             *)
(***************************************************************************)
EXTENDS Vst3Tap, PluginStates, Vst3Lane, FiniteSetTheorems, SequenceTheorems, TLAPS

-----------------------------------------------------------------------------
(* The inductive invariant *)

\* All of a slot belongs to one block, published with this generation.
Holds(content, generation) ==
  /\ content.samples \in Block
  /\ content.group = content.samples /\ content.shape = content.samples
  /\ content.sequence = generation

\* Only a reset can have touched the publication since the writer looked.
WriterAlone ==
  /\ writer.pc \in {"loaded", "chosen"} =>
       ~writer.token.writing /\ publication \in {writer.token, Empty}
  /\ writer.pc = "chosen" =>
       writer.token = Empty \/ writer.target # writer.token.slot
  /\ Filling => publication \in {InProgressToken, Empty}

\* What has been filled so far.
Filled ==
  /\ writer.pc # "idle" => writer.block \in Block
  /\ writer.pc \in {"group", "scalars", "publish"} =>
       slots[writer.target].samples = writer.block
  /\ writer.pc \in {"scalars", "publish"} =>
       slots[writer.target].group = writer.block
  /\ writer.pc = "publish" =>
       /\ slots[writer.target].shape = writer.block
       /\ slots[writer.target].sequence = StableToken.generation

\* A complete publication names a whole slot.
StableWhole ==
  Readable(publication) =>
    Holds(slots[publication.slot], publication.generation)

\* The reader's slot is announced before it is copied; while it is copied no
\* writer has chosen it, and it is whole.
Announced ==
  /\ reader.pc \in {"announce", "recheck"} \/ Copying => Readable(reader.token)
  /\ reader.pc = "recheck" \/ Copying => readerSlot = reader.token.slot
  /\ Copying =>
       /\ writer.pc = "chosen" \/ Filling => writer.target # reader.token.slot
       /\ Holds(slots[reader.token.slot], reader.token.generation)

\* What has been copied so far is what the slot holds.
Copied ==
  LET slot == slots[reader.token.slot] IN
  /\ reader.pc \in {"group", "samples", "post"} =>
       reader.got.shape = slot.shape /\ reader.got.sequence = slot.sequence
  /\ reader.pc \in {"samples", "post"} =>
       reader.got.group = slot.group /\ slot.group.group = ReadGroup
  /\ reader.pc = "post" => reader.got.samples = slot.samples

IInv == /\ TypeOK /\ WriterAlone /\ Filled /\ StableWhole
        /\ Announced /\ Copied

-----------------------------------------------------------------------------
(* Tokens *)

LEMMA TokenTypes ==
  /\ Empty \in Token /\ 0 \in Index /\ ~Readable(Empty)
  /\ NoBlock \in AnyBlock /\ NoBlock \notin Block
  /\ NoContent \in Content
  /\ NoReaderSlot \notin Index
<1>1. 0 \in Index /\ NoReaderSlot \notin Index /\ 0 \in 0..MaxGeneration
  BY SlotsAssumption, GenerationAssumption DEF Index, NoReaderSlot
<1>2. NoBlock \in AnyBlock /\ NoBlock \notin Block
  BY GroupsAssumption DEF NoBlock, AnyBlock, Block
<1>3. Empty \in Token /\ ~Readable(Empty)
  BY <1>1 DEF Empty, Token, Readable
<1>4. NoContent \in Content
  BY <1>1, <1>2 DEF NoContent, Content
<1> QED
  BY <1>1, <1>2, <1>3, <1>4

LEMMA NextGenerationRange ==
  ASSUME NEW g \in 0..MaxGeneration
  PROVE  NextGeneration(g) \in 1..MaxGeneration
BY GenerationAssumption DEF NextGeneration

\* The two tokens of a publication are well formed and differ from Empty.
LEMMA PublicationTokens ==
  ASSUME TypeOK
  PROVE  /\ StableToken \in Token /\ InProgressToken \in Token
         /\ StableToken.slot = writer.target
         /\ Readable(StableToken) /\ ~Readable(InProgressToken)
<1>1. writer.token.generation \in 0..MaxGeneration /\ writer.target \in Index
  BY DEF TypeOK, Token
<1>2. NextGeneration(writer.token.generation) \in 1..MaxGeneration
  BY <1>1, NextGenerationRange
<1>3. /\ StableToken.slot = writer.target /\ ~StableToken.writing
      /\ StableToken.generation \in 1..MaxGeneration
      /\ InProgressToken.writing
  BY <1>2 DEF StableToken, InProgressToken
<1>4. StableToken # Empty
  <2>1. Empty.generation = 0
    BY DEF Empty
  <2> QED
    BY <1>3, <2>1
<1>5. StableToken \in Token /\ InProgressToken \in Token
  <2>1. 1..MaxGeneration \subseteq 0..MaxGeneration
    BY GenerationAssumption
  <2> QED
    BY <1>1, <1>2, <2>1 DEF StableToken, InProgressToken, Token
<1> QED
  BY <1>3, <1>4, <1>5 DEF Readable

-----------------------------------------------------------------------------
(* The start *)

LEMMA InitIInv == Init => IInv
<1> SUFFICES ASSUME Init PROVE IInv
  OBVIOUS
<1>1. TypeOK
  <2>1. /\ publication \in Token /\ readerSlot \in Index \cup {NoReaderSlot}
        /\ valid \in BOOLEAN /\ resetting \in BOOLEAN /\ delivered \in Content
        /\ slots \in [Index -> Content]
    BY TokenTypes DEF Init
  <2>2. writer \in [pc : WriterSteps, token : Token, target : Index,
                    block : AnyBlock]
    BY TokenTypes DEF Init, NotWriting, WriterSteps
  <2>3. reader \in [pc : ReaderSteps, token : Token, got : Content]
    BY TokenTypes DEF Init, NotReading, ReaderSteps
  <2>4. published \in 0..MaxBlocks
    BY BlocksAssumption DEF Init
  <2> QED
    BY <2>1, <2>2, <2>3, <2>4 DEF TypeOK
<1>2. WriterAlone /\ Filled /\ StableWhole /\ Announced /\ Copied
  BY TokenTypes
     DEF Init, WriterAlone, Filled, StableWhole, Announced, Copied, Filling,
         Copying, NotWriting, NotReading
<1> QED
  BY <1>1, <1>2 DEF IInv

-----------------------------------------------------------------------------
(* The writer's steps *)

LEMMA LoadPublicationKeeps ==
  ASSUME IInv, NEW g \in Groups, LoadPublication(g)
  PROVE  IInv'
<1>1. /\ writer' = [pc |-> "loaded", token |-> publication, target |-> 0,
                    block |-> [id |-> published + 1, group |-> g]]
      /\ published' = published + 1 /\ published < MaxBlocks
      /\ ~publication.writing
      /\ UNCHANGED <<publication, readerSlot, valid, slots, reader, resetting,
                     delivered>>
  BY DEF LoadPublication
<1>2. writer'.block \in Block /\ published' \in 0..MaxBlocks
  BY <1>1, BlocksAssumption DEF IInv, TypeOK, Block
<1>3. TypeOK'
  BY <1>1, <1>2, TokenTypes DEF IInv, TypeOK, WriterSteps, AnyBlock
<1>4. WriterAlone' /\ Filled'
  BY <1>1, <1>2 DEF WriterAlone, Filled, Filling
<1>5. StableWhole' /\ Copied'
  BY <1>1 DEF IInv, StableWhole, Copied
<1>6. Announced'
  BY <1>1 DEF IInv, Announced, Copying, Filling
<1> QED
  BY <1>3, <1>4, <1>5, <1>6 DEF IInv

LEMMA ChooseSlotKeeps ==
  ASSUME IInv, ChooseSlot
  PROVE  IInv'
<1>1. UNCHANGED <<publication, readerSlot, valid, slots, reader, resetting,
                  published, delivered>>
  BY DEF ChooseSlot
<1>2. PICK i \in FreeSlots(writer.token, readerSlot) \cup {NoReaderSlot} :
        writer' = IF i = NoReaderSlot THEN NotWriting
                  ELSE [writer EXCEPT !.pc = "chosen", !.target = i]
  BY DEF ChooseSlot
<1>3. StableWhole' /\ Copied'
  BY <1>1 DEF IInv, StableWhole, Copied
<1>4. CASE i = NoReaderSlot
  <2>1. writer' = NotWriting
    BY <1>2, <1>4
  <2>2. TypeOK'
    BY <1>1, <2>1, TokenTypes DEF IInv, TypeOK, NotWriting, WriterSteps
  <2>3. WriterAlone' /\ Filled' /\ Announced'
    BY <1>1, <2>1
       DEF IInv, WriterAlone, Filled, Announced, Filling, Copying, NotWriting
  <2> QED
    BY <1>3, <2>2, <2>3 DEF IInv
<1>5. CASE i # NoReaderSlot
  <2>1. /\ i \in Index /\ i # readerSlot
        /\ writer.token = Empty \/ i # writer.token.slot
    BY <1>2, <1>5 DEF FreeSlots
  <2>2. writer' = [writer EXCEPT !.pc = "chosen", !.target = i]
    BY <1>2, <1>5
  <2>3. /\ writer.pc = "loaded" /\ writer'.pc = "chosen" /\ writer'.target = i
        /\ writer'.token = writer.token /\ writer'.block = writer.block
    BY <2>2 DEF ChooseSlot, IInv, TypeOK
  <2>4. TypeOK'
    BY <1>1, <2>1, <2>2 DEF IInv, TypeOK, WriterSteps
  <2>5. WriterAlone' /\ Filled'
    BY <1>1, <2>1, <2>3 DEF IInv, WriterAlone, Filled, Filling
  <2>6. Announced'
    BY <1>1, <2>1, <2>3 DEF IInv, Announced, Filling, Copying
  <2> QED
    BY <1>3, <2>4, <2>5, <2>6 DEF IInv
<1> QED
  BY <1>4, <1>5

LEMMA MarkKeeps ==
  ASSUME IInv, Mark
  PROVE  IInv'
<1>1. /\ writer.pc = "chosen" /\ writer' = [writer EXCEPT !.pc = "samples"]
      /\ publication' = InProgressToken
      /\ UNCHANGED <<readerSlot, valid, slots, reader, resetting, published,
                     delivered>>
  BY DEF Mark, WriterAt
<1>2. /\ writer'.pc = "samples" /\ writer'.target = writer.target
      /\ writer'.token = writer.token /\ writer'.block = writer.block
      /\ InProgressToken' = InProgressToken
  BY <1>1 DEF IInv, TypeOK, InProgressToken, StableToken
<1>3. TypeOK'
  BY <1>1, PublicationTokens DEF IInv, TypeOK, WriterSteps
<1>4. WriterAlone' /\ Filled'
  BY <1>1, <1>2 DEF IInv, WriterAlone, Filled, Filling
<1>5. StableWhole'
  BY <1>1, PublicationTokens DEF IInv, StableWhole
<1>6. Announced' /\ Copied'
  BY <1>1, <1>2 DEF IInv, Announced, Copied, Filling, Copying
<1> QED
  BY <1>3, <1>4, <1>5, <1>6 DEF IInv

\* The three fills: they touch the writer's slot only, which is neither
\* published nor being copied.
LEMMA FillKeeps ==
  ASSUME IInv, FillSamples \/ FillGroup \/ FillScalars
  PROVE  IInv'
<1>1. /\ Filling /\ writer.pc # "publish" /\ writer'.pc # "samples" /\ Filling'
      /\ UNCHANGED <<publication, readerSlot, valid, reader, resetting,
                     published, delivered>>
  BY DEF FillSamples, FillGroup, FillScalars, WriterAt, Filling, IInv, TypeOK
<1>2. /\ writer'.target = writer.target /\ writer'.token = writer.token
      /\ writer'.block = writer.block /\ writer'.pc # "idle"
      /\ InProgressToken' = InProgressToken /\ StableToken' = StableToken
  BY DEF FillSamples, FillGroup, FillScalars, WriterAt, IInv, TypeOK,
         InProgressToken, StableToken
<1>3. \A i \in Index \ {writer.target} : slots'[i] = slots[i]
  BY DEF FillSamples, FillGroup, FillScalars, IInv, TypeOK
<1>4. writer.target \in Index /\ writer.block \in Block
      /\ StableToken.generation \in 0..MaxGeneration
  BY <1>1, PublicationTokens DEF IInv, TypeOK, Filled, Token, Filling
<1>5. TypeOK'
  <2>1. slots' \in [Index -> Content]
    BY <1>4 DEF FillSamples, FillGroup, FillScalars, IInv, TypeOK, Content,
                AnyBlock
  <2>2. writer' \in [pc : WriterSteps, token : Token, target : Index,
                     block : AnyBlock]
    BY DEF FillSamples, FillGroup, FillScalars, WriterAt, IInv, TypeOK,
           WriterSteps
  <2> QED
    BY <1>1, <2>1, <2>2 DEF IInv, TypeOK
<1>6. WriterAlone'
  BY <1>1, <1>2 DEF IInv, WriterAlone, Filling
<1>7. Filled'
  <2>1. CASE FillSamples
    BY <1>2, <1>4, <2>1 DEF FillSamples, WriterAt, IInv, TypeOK, Filled, Content
  <2>2. CASE FillGroup
    BY <1>2, <1>4, <2>2 DEF FillGroup, WriterAt, IInv, TypeOK, Filled, Content
  <2>3. CASE FillScalars
    BY <1>2, <1>4, <2>3 DEF FillScalars, WriterAt, IInv, TypeOK, Filled, Content
  <2> QED
    BY <2>1, <2>2, <2>3
<1>8. ~Readable(publication)
  BY <1>1, PublicationTokens, TokenTypes DEF IInv, WriterAlone
<1>9. StableWhole'
  BY <1>1, <1>8 DEF StableWhole
<1>10. Announced' /\ Copied'
  <2>1. Copying => slots'[reader.token.slot] = slots[reader.token.slot]
    BY <1>1, <1>3 DEF IInv, TypeOK, Token, Announced
  <2>2. Copying' = Copying
    BY <1>1 DEF Copying
  <2>3. Announced'
    BY <1>1, <1>2, <2>1, <2>2 DEF IInv, Announced
  <2>4. Copied'
    BY <1>1, <2>1 DEF IInv, Copied, Copying
  <2> QED
    BY <2>3, <2>4
<1> QED
  BY <1>5, <1>6, <1>7, <1>9, <1>10 DEF IInv

LEMMA PublishKeeps ==
  ASSUME IInv, Publish \/ Validate
  PROVE  IInv'
<1>1. /\ UNCHANGED <<readerSlot, slots, reader, resetting, published, delivered>>
      /\ ~Filling' /\ writer'.pc \notin {"loaded", "chosen"}
      /\ writer'.pc # "idle" => writer'.block \in Block
  BY DEF Publish, Validate, WriterAt, Filling, NotWriting, IInv, TypeOK, Filled
<1>2. TypeOK'
  <2>1. writer' \in [pc : WriterSteps, token : Token, target : Index,
                     block : AnyBlock]
    BY TokenTypes
       DEF Publish, Validate, WriterAt, IInv, TypeOK, WriterSteps, NotWriting
  <2>2. publication' \in Token /\ valid' \in BOOLEAN
    BY PublicationTokens DEF Publish, Validate, IInv, TypeOK
  <2> QED
    BY <1>1, <2>1, <2>2 DEF IInv, TypeOK
<1>3. WriterAlone' /\ Filled'
  BY <1>1 DEF WriterAlone, Filled, Filling
<1>4. StableWhole'
  <2>1. CASE Publish
    BY <2>1, PublicationTokens
       DEF Publish, WriterAt, IInv, Filled, StableWhole, Holds
  <2>2. CASE Validate
    BY <2>2 DEF Validate, IInv, StableWhole
  <2> QED
    BY <2>1, <2>2
<1>5. Announced' /\ Copied'
  BY <1>1 DEF IInv, Announced, Copied, Copying
<1> QED
  BY <1>2, <1>3, <1>4, <1>5 DEF IInv

-----------------------------------------------------------------------------
(* The reader's steps and the reset *)

\* The reader leaves the publication, the slots and the writer alone.
ReaderOnly == UNCHANGED <<publication, slots, writer>>

LEMMA ReaderLeaves ==
  ASSUME IInv, ReaderNext
  PROVE  /\ ReaderOnly /\ WriterAlone' /\ Filled' /\ StableWhole'
         /\ TypeOK'
<1>1. /\ ReaderOnly
      /\ UNCHANGED <<valid, resetting, published>>
  BY DEF ReaderNext, ReaderOnly, BeginRead, LoadToken, Announce, Recheck,
         CopyScalars, CopyGroup, CopySamples, PostCheck, Release
<1>2. WriterAlone' /\ Filled' /\ StableWhole'
  BY <1>1 DEF ReaderOnly, IInv, WriterAlone, Filled, StableWhole, Filling,
              InProgressToken, StableToken
<1>3. /\ slots[reader.token.slot] \in Content /\ reader.token.slot \in Index
  BY DEF IInv, TypeOK, Token
<1>4. reader' \in [pc : ReaderSteps, token : Token, got : Content]
  <2>a. NotReading \in [pc : ReaderSteps, token : Token, got : Content]
    BY TokenTypes DEF NotReading, ReaderSteps
  <2>1. CASE LoadToken \/ Release
    BY <2>a, <2>1 DEF LoadToken, Release, IInv, TypeOK, ReaderSteps
  <2>6. CASE BeginRead \/ Announce \/ Recheck
    BY <2>6 DEF BeginRead, Announce, Recheck, IInv, TypeOK, ReaderSteps
  <2>2. CASE CopyScalars
    BY <1>3, <2>2 DEF CopyScalars, IInv, TypeOK, ReaderSteps, Content
  <2>3. CASE CopyGroup
    BY <1>3, <2>3 DEF CopyGroup, IInv, TypeOK, ReaderSteps, Content
  <2>4. CASE CopySamples
    BY <1>3, <2>4 DEF CopySamples, IInv, TypeOK, ReaderSteps, Content
  <2>5. CASE PostCheck
    BY <2>5 DEF PostCheck, IInv, TypeOK, ReaderSteps
  <2> QED
    BY <2>1, <2>2, <2>3, <2>4, <2>5, <2>6 DEF ReaderNext
<1>5. readerSlot' \in Index \cup {NoReaderSlot} /\ delivered' \in Content
  BY <1>3 DEF ReaderNext, BeginRead, LoadToken, Announce, Recheck, CopyScalars,
              CopyGroup, CopySamples, PostCheck, Release, IInv, TypeOK
<1> QED
  BY <1>1, <1>2, <1>4, <1>5 DEF ReaderOnly, IInv, TypeOK

\* The second look: the token is still the one the reader announced, so the
\* slot a writer may have chosen is another one.
LEMMA RecheckSecures ==
  ASSUME IInv, Recheck
  PROVE  Announced' /\ Copied'
<1>1. /\ reader.pc = "recheck" /\ reader'.token = reader.token
      /\ reader'.pc = IF publication = reader.token THEN "scalars" ELSE "release"
      /\ UNCHANGED <<publication, readerSlot, slots, writer>>
  BY DEF Recheck, ReaderAt, IInv, TypeOK
<1>2. Readable(reader.token) /\ readerSlot = reader.token.slot
  BY <1>1 DEF IInv, Announced
<1>3. CASE publication # reader.token
  BY <1>1, <1>3 DEF Announced, Copied, Copying
<1>4. CASE publication = reader.token
  <2>1. Holds(slots[reader.token.slot], reader.token.generation)
    BY <1>2, <1>4 DEF IInv, StableWhole
  <2>2. ~Filling
    BY <1>2, <1>4, PublicationTokens, TokenTypes DEF IInv, WriterAlone
  <2>3. writer.pc = "chosen" => writer.target # reader.token.slot
    BY <1>2, <1>4, TokenTypes DEF IInv, WriterAlone
  <2> QED
    BY <1>1, <1>2, <1>4, <2>1, <2>2, <2>3
       DEF Announced, Copied, Copying, Filling
<1> QED
  BY <1>3, <1>4

LEMMA ReaderKeeps ==
  ASSUME IInv, ReaderNext
  PROVE  IInv'
<1>1. /\ UNCHANGED <<publication, slots, writer>> /\ WriterAlone' /\ Filled'
      /\ StableWhole' /\ TypeOK'
  BY ReaderLeaves DEF ReaderOnly
<1>2. Filling' = Filling
  BY <1>1 DEF Filling
<1>3. Announced' /\ Copied'
  <2>1. CASE BeginRead \/ Release
    BY <2>1 DEF BeginRead, Release, NotReading, IInv, TypeOK, Announced, Copied,
                Copying
  <2>2. CASE LoadToken
    <3>1. \/ reader' = NotReading
          \/ reader'.pc = "announce" /\ Readable(reader'.token)
      BY <2>2 DEF LoadToken, IInv, TypeOK
    <3> QED
      BY <3>1 DEF NotReading, Announced, Copied, Copying
  <2>3. CASE Announce
    BY <1>1, <2>3 DEF Announce, ReaderAt, IInv, TypeOK, Announced, Copied, Copying
  <2>4. CASE PostCheck
    BY <2>4 DEF PostCheck, IInv, TypeOK, Announced, Copied, Copying
  <2>5. CASE Recheck
    BY <2>5, RecheckSecures
  <2>6. CASE CopyScalars
    BY <1>1, <1>2, <2>6
       DEF CopyScalars, ReaderAt, IInv, TypeOK, Content, Announced, Copied, Copying
  <2>7. CASE CopyGroup
    BY <1>1, <1>2, <2>7
       DEF CopyGroup, ReaderAt, IInv, TypeOK, Content, Announced, Copied, Copying
  <2>8. CASE CopySamples
    BY <1>1, <1>2, <2>8
       DEF CopySamples, ReaderAt, IInv, TypeOK, Content, Announced, Copied, Copying
  <2> QED
    BY <2>1, <2>2, <2>3, <2>4, <2>5, <2>6, <2>7, <2>8 DEF ReaderNext
<1> QED
  BY <1>1, <1>3 DEF IInv

LEMMA ResetKeeps ==
  ASSUME IInv, ResetNext
  PROVE  IInv'
<1>1. /\ UNCHANGED <<readerSlot, slots, writer, reader, published, delivered>>
      /\ publication' \in {publication, Empty}
      /\ valid' \in BOOLEAN /\ resetting' \in BOOLEAN
  BY DEF ResetNext, ResetPublication, ResetValid, IInv, TypeOK
<1>2. TypeOK'
  BY <1>1, TokenTypes DEF IInv, TypeOK
<1>3. WriterAlone' /\ Filled' /\ Announced' /\ Copied'
  BY <1>1 DEF IInv, WriterAlone, Filled, Announced, Copied, Filling, Copying,
              InProgressToken, StableToken
<1>4. StableWhole'
  BY <1>1, TokenTypes DEF IInv, StableWhole
<1> QED
  BY <1>2, <1>3, <1>4 DEF IInv

LEMMA NextKeeps == IInv /\ [Next]_vars => IInv'
<1> SUFFICES ASSUME IInv, [Next]_vars PROVE IInv'
  OBVIOUS
<1>1. CASE WriterNext
  BY <1>1, LoadPublicationKeeps, ChooseSlotKeeps, MarkKeeps, FillKeeps,
     PublishKeeps DEF WriterNext
<1>2. CASE ReaderNext
  BY <1>2, ReaderKeeps
<1>3. CASE ResetNext
  BY <1>3, ResetKeeps
<1>4. CASE UNCHANGED vars
  BY <1>4 DEF vars, IInv, TypeOK, WriterAlone, Filled, StableWhole, Announced,
              Copied, Filling, Copying, InProgressToken, StableToken
<1> QED
  BY <1>1, <1>2, <1>3, <1>4 DEF Next

-----------------------------------------------------------------------------
(* The register *)

\* A read that passes the last check returns what the register shows.
LEMMA PostCheckTakes ==
  ASSUME IInv, PostCheck, publication = reader.token
  PROVE  /\ Shown \in Block /\ Taken' = Shown
         /\ delivered'.sequence = publication.generation
         /\ delivered'.samples.group = ReadGroup
<1>1. /\ Copying /\ reader.pc = "post" /\ delivered' = reader.got
  BY DEF PostCheck, ReaderAt, Copying
<1>2. /\ Readable(publication)
      /\ Holds(slots[publication.slot], publication.generation)
  BY <1>1 DEF IInv, Announced
<1>3. LET slot == slots[publication.slot] IN
        /\ reader.got.samples = slot.samples /\ reader.got.group = slot.group
        /\ reader.got.shape = slot.shape /\ reader.got.sequence = slot.sequence
        /\ slot.group.group = ReadGroup
  BY <1>1 DEF IInv, Copied
<1> QED
  BY <1>1, <1>2, <1>3 DEF Holds, Shown, Taken, Whole

LEMMA StepImplements ==
  ASSUME IInv, IInv', [Next]_vars
  PROVE  [Register!Next]_<<Shown, Taken>>
<1>1. CASE PostCheck
  <2>1. Shown' = Shown
    BY <1>1 DEF PostCheck, Shown
  <2>2. CASE publication = reader.token
    BY <1>1, <2>1, <2>2, PostCheckTakes DEF Register!Next, Register!Take
  <2>3. CASE publication # reader.token
    BY <1>1, <2>1, <2>3 DEF PostCheck, Taken, Whole
  <2> QED
    BY <2>2, <2>3
<1>2. CASE Mark \/ ResetPublication
  <2>1. delivered' = delivered /\ ~Readable(publication')
    BY <1>2, PublicationTokens, TokenTypes DEF Mark, ResetPublication, IInv
  <2>2. Shown' = NoBlock /\ Taken' = Taken
    BY <2>1 DEF Shown, Taken, Whole, Readable
  <2> QED
    BY <2>2 DEF Register!Next, Register!Hide
<1>3. CASE Publish
  <2>1. delivered' = delivered /\ Readable(publication')
    BY <1>3, PublicationTokens DEF Publish, IInv
  <2>2. Shown' \in Block
    BY <2>1 DEF IInv, StableWhole, Holds, Shown, Readable
  <2>3. Taken' = Taken
    BY <2>1 DEF Taken, Whole
  <2> QED
    BY <2>2, <2>3 DEF Register!Next, Register!Show
<1>4. CASE FillSamples \/ FillGroup \/ FillScalars
  <2>1. Filling /\ publication' = publication /\ delivered' = delivered
    BY <1>4 DEF FillSamples, FillGroup, FillScalars, WriterAt, Filling
  <2>2. ~Readable(publication)
    BY <2>1, PublicationTokens, TokenTypes DEF IInv, WriterAlone
  <2> QED
    BY <2>1, <2>2 DEF Shown, Taken, Whole, Readable
<1>5. CASE UNCHANGED <<publication, slots, delivered>>
  BY <1>5 DEF Shown, Taken, Whole, Readable
<1>6. \/ PostCheck \/ Mark \/ ResetPublication \/ Publish
      \/ FillSamples \/ FillGroup \/ FillScalars
      \/ UNCHANGED <<publication, slots, delivered>>
  BY DEF Next, WriterNext, ReaderNext, ResetNext, vars, LoadPublication,
         ChooseSlot, Validate, BeginRead, LoadToken, Announce, Recheck,
         CopyScalars, CopyGroup, CopySamples, Release, ResetValid
<1> QED
  BY <1>1, <1>2, <1>3, <1>4, <1>5, <1>6

LEMMA StepNumbers ==
  ASSUME IInv, [Next]_vars, delivered' # delivered
  PROVE  /\ delivered'.sequence = publication.generation
         /\ delivered'.samples.group = ReadGroup
<1>1. PostCheck
  BY DEF Next, WriterNext, ReaderNext, ResetNext, vars, LoadPublication,
         ChooseSlot, Mark, FillSamples, FillGroup, FillScalars, Publish,
         Validate, BeginRead, LoadToken, Announce, Recheck, CopyScalars,
         CopyGroup, CopySamples, Release, ResetPublication, ResetValid
<1>2. publication = reader.token
  BY <1>1 DEF PostCheck
<1> QED
  BY <1>1, <1>2, PostCheckTakes

-----------------------------------------------------------------------------
(* The theorems *)

LEMMA InvariantIInv == Spec => []IInv
<1> QED
  BY InitIInv, NextKeeps, PTL DEF Spec

\* Every token, slot and local of the two sides keeps its type.
THEOREM TypeCorrect == Spec => []TypeOK
<1>1. IInv => TypeOK
  BY DEF IInv
<1> QED
  BY <1>1, InvariantIInv, PTL

\* The writer never stores into the slot the reader is copying.
THEOREM HazardHolds == Spec => []HazardRespected
<1>1. IInv => HazardRespected
  BY DEF IInv, Announced, HazardRespected
<1> QED
  BY <1>1, InvariantIInv, PTL

\* The tap behaves like a register read at one moment: whole and newest.
THEOREM TapIsRegister == Spec => ImplementsRegister
<1>1. Init => Register!Init
  BY TokenTypes
     DEF Init, Register!Init, Shown, Taken, Whole, NoContent
<1>2. IInv /\ IInv' /\ [Next]_vars => [Register!Next]_<<Shown, Taken>>
  BY StepImplements
<1> QED
  BY <1>1, <1>2, InvariantIInv, PTL DEF Spec, ImplementsRegister, Register!Spec

\* A delivered block carries the number of its publication and is of the
\* group that was asked for.
THEOREM NumbersMatch == Spec => NumberedAsPublished
<1>1. IInv /\ [Next]_vars =>
        [delivered' # delivered => /\ delivered'.sequence = publication.generation
                                   /\ delivered'.samples.group = ReadGroup]_vars
  BY StepNumbers
<1> QED
  BY <1>1, InvariantIInv, PTL DEF Spec, NumberedAsPublished

-----------------------------------------------------------------------------
(* The plug-in states *)

\* Sizes are those the store checked, and no target is reached from two versions.
StoresFit == \A id \in DOMAIN stored : stored[id].size \in 0..MaxBytes

OneSource ==
  /\ rules \subseteq Rules
  /\ \A r, s \in rules : r.identity = s.identity /\ r.target = s.target => r.source = s.source

PluginIInv == StoresFit /\ OneSource

LEMMA PluginNextKeeps == PluginIInv /\ [PluginNext]_pluginVars => PluginIInv'
<1> SUFFICES ASSUME PluginIInv, [PluginNext]_pluginVars PROVE PluginIInv'
  OBVIOUS
<1> USE DEF PluginIInv
<1>1. CASE Capture
  <2>1. PICK id \in StateIds, identity \in Identities, version \in Versions, size \in StateSizes :
          /\ size <= MaxBytes
          /\ stored' = Put(stored, id, [identity |-> identity, version |-> version, size |-> size])
          /\ rules' = rules
    BY <1>1 DEF Capture
  <2>2. size \in 0..MaxBytes
    BY <2>1, PluginStatesAssumption
  <2>3. ASSUME NEW k \in DOMAIN stored' PROVE stored'[k].size \in 0..MaxBytes
    <3>1. k \in DOMAIN stored \cup {id}
      BY <2>1 DEF Put
    <3>2. stored'[k] = IF k = id THEN [identity |-> identity, version |-> version, size |-> size]
                       ELSE stored[k]
      BY <2>1, <3>1 DEF Put
    <3> QED
      BY <2>2, <3>1, <3>2 DEF StoresFit
  <2> QED
    BY <2>1, <2>3 DEF StoresFit, OneSource
<1>2. CASE RemoveState \/ ClearStates
  <2>1. CASE RemoveState
    BY <2>1 DEF RemoveState, Without, StoresFit, OneSource
  <2>2. CASE ClearStates
    <3>1. DOMAIN stored' = {} /\ rules' = rules
      BY <2>2 DEF ClearStates
    <3> QED
      BY <3>1 DEF StoresFit, OneSource
  <2> QED
    BY <1>2, <2>1, <2>2
<1>3. CASE RegisterRule
  <2>1. PICK identity \in Identities, source \in Versions, target \in Versions :
          LET rule == [identity |-> identity, source |-> source, target |-> target]
          IN  /\ 0 \notin {source, target} /\ ~Ambiguous(rule)
              /\ rules' = rules \cup {rule} /\ stored' = stored
    BY <1>3 DEF RegisterRule
  <2> DEFINE rule == [identity |-> identity, source |-> source, target |-> target]
  <2>2. rule \in Rules /\ rules' = rules \cup {rule} /\ stored' = stored
    BY <2>1 DEF Rules
  <2>3. \A r \in rules : r.identity = rule.identity /\ r.target = rule.target
                             => r.source = rule.source
    BY <2>1 DEF Ambiguous, RulesTo
  <2> HIDE DEF rule
  <2>4. OneSource'
    BY <2>2, <2>3 DEF OneSource
  <2> QED
    BY <2>2, <2>4 DEF StoresFit
<1>4. CASE RemoveRule \/ ClearRules
  <2>1. stored' = stored /\ rules' \subseteq rules
    BY <1>4 DEF RemoveRule, ClearRules
  <2> QED
    BY <2>1 DEF StoresFit, OneSource
<1>5. CASE UNCHANGED <<stored, rules>>
  BY <1>5 DEF StoresFit, OneSource
<1>6. PrepareScenes \/ ClearScenes \/ Bind \/ Unbind \/ UNCHANGED pluginVars
        => UNCHANGED <<stored, rules>>
  BY DEF PrepareScenes, ClearScenes, Bind, Unbind, pluginVars
<1> QED
  BY <1>1, <1>2, <1>3, <1>4, <1>5, <1>6 DEF PluginNext

LEMMA OnlyOk == SceneResult("ok") = "ok" /\ \A x : SceneResult(x) = "ok" => x = "ok"
BY DEF SceneResult

\* Where a rule leads to a target it is the only one.
LEMMA OnlyRule ==
  ASSUME OneSource, NEW identity, NEW source, NEW target, HasRule(identity, source, target)
  PROVE  Cardinality(RulesTo(identity, target)) = 1
<1> DEFINE rule == [identity |-> identity, source |-> source, target |-> target]
<1>1. rule \in rules
  BY DEF HasRule
<1>2. ASSUME NEW r \in RulesTo(identity, target) PROVE r = rule
  <2>1. r \in Rules /\ r.identity = identity /\ r.target = target /\ r.source = source
    BY <1>1 DEF OneSource, RulesTo
  <2> QED
    BY <2>1 DEF Rules
<1>3. RulesTo(identity, target) = {rule}
  BY <1>1, <1>2 DEF RulesTo
<1> QED
  BY <1>3, FS_Singleton

\* Whatever is captured, registered, bound and removed in between, a preflight that passes
\* is enough to restore (vst3_scene_state.cpp:116 and :142).
THEOREM PreflightSuffices == PluginSpec => []PreflightIsEnough
<1>1. PluginInit => PluginIInv
  BY DEF PluginInit, PluginIInv, StoresFit, OneSource
<1>2. PluginIInv => PreflightIsEnough
  <2> SUFFICES ASSUME PluginIInv, NEW scene \in SceneIds, Preflight(scene),
                      NEW id \in StatesOf(scene)
               PROVE  SceneRestore(scene, id, MaxBytes, Obliging(MaxBytes)) = "ok"
    BY DEF PreflightIsEnough
  <2> DEFINE b == bound[<<scene, id>>]
             s == stored[id]
  <2>1. <<scene, id>> \in DOMAIN bound
    BY DEF StatesOf
  <2>2. known /\ BindingVerdict(scene, id) = "ok"
    <3>1. ValidateScene(scene) = {"ok"}
      BY <2>1 DEF Preflight
    <3>2. known /\ StatesOf(scene) # {}
      BY <3>1 DEF ValidateScene
    <3> DEFINE failing == {i \in StatesOf(scene) : BindingVerdict(scene, i) # "ok"}
    <3>3. failing # {} => {BindingVerdict(scene, i) : i \in failing} = {"ok"}
      BY <3>1, <3>2 DEF ValidateScene
    <3>4. failing = {}
      BY <3>3
    <3> QED
      BY <3>2, <3>4
  <2>3. /\ Inspect(id, b.identity) = "ok" /\ ~(s.size > MaxBytes)
        /\ s.version = b.target \/ HasRule(b.identity, s.version, b.target)
    <3> DEFINE inspected == Inspect(id, b.identity)
    <3>1. inspected = "ok"
      BY <2>2, OnlyOk DEF BindingVerdict
    <3> QED
      BY <2>2, <3>1 DEF BindingVerdict
  <2>4. Refused(id, b.identity) = "ok" /\ id \in DOMAIN stored
    BY <2>3 DEF Inspect, Refused
  <2> HIDE DEF b, s
  <2>5. s.size \in Int /\ MaxBytes \in Nat
    BY <2>4, PluginStatesAssumption DEF PluginIInv, StoresFit, s
  <2>6. RegistryRestore(id, b.identity, b.target, MaxBytes, Obliging(MaxBytes)) = "ok"
    <3>1. CASE s.version = b.target
      <4>1. Restore(id, b.identity, b.target, MaxBytes) = "ok"
        BY <2>3, <2>4, <2>5, <3>1 DEF Restore, CopyOut, s
      <4> QED
        BY <4>1 DEF RegistryRestore
    <3>2. CASE s.version # b.target
      <4>1. Restore(id, b.identity, b.target, MaxBytes) = "version_mismatch"
        BY <2>4, <3>2 DEF Restore, s
      <4>2. Cardinality(RulesTo(b.identity, b.target)) = 1
        BY <2>3, <3>2, OnlyRule DEF PluginIInv
      <4>3. Obliging(MaxBytes) # NoHandler /\ Obliging(MaxBytes).result = "ok"
            /\ ~(Obliging(MaxBytes).written > Bounded(MaxBytes))
        BY <2>5 DEF Obliging, NoHandler, Bounded
      <4>4. RestoreWithMigration(id, b.identity, b.target, MaxBytes, Obliging(MaxBytes)) = "ok"
        BY <2>4, <3>2, <4>3 DEF RestoreWithMigration, s
      <4> QED
        BY <4>1, <4>2, <4>4 DEF RegistryRestore
    <3> QED
      BY <3>1, <3>2
  <2> QED
    BY <2>1, <2>2, <2>6, OnlyOk DEF SceneRestore, b
<1> QED
  BY <1>1, <1>2, PluginNextKeeps, PTL DEF PluginSpec

-----------------------------------------------------------------------------
(* The lane: what is recorded of a worker that outlives its quarantine *)

Entries == {"job_object_failure", "worker_exit_nonzero", "worker_timeout", "protocol_error", "pipe_failure"}

IsSandbox(s) ==
  /\ DOMAIN s = {"state", "reason", "job", "heartbeat", "taken", "reports"}
  /\ s.job \in BOOLEAN /\ s.taken \in BOOLEAN /\ s.reports \in Seq(Entries)

\* Where the hub is blocked is where the loop waits.
CallPlaced ==
  /\ owner \in {"preview", "client"}
  /\ DOMAIN loop = {"pc", "requested", "launched", "request", "start", "processed", "failed"}
  /\ owner = "preview" =>
       \/ call.op = "none"
       \/ call.op = "wait" /\ loop.pc = "wait"
       \/ call.op = "handshake" /\ loop.pc = "hello"
       \/ call.op = "process" /\ loop.pc = "block"

\* The calls of stop() that end a worker do end it.
NoStopFails == "stop" \notin FailingIn

\* A worker lives in a job and, unless stop() failed to end the one before, what
\* is recorded of it is of its own life.
CrashInv ==
  /\ IsSandbox(sandbox) /\ CallPlaced
  /\ Alive(worker) => sandbox.job /\ sandbox.state \in {"Running", "Quarantined"}
  /\ sandbox.state = "Running" => sandbox.job
  /\ pipe # "none" => sandbox.job
  /\ call.op \in {"handshake", "process"} => sandbox.job
  /\ NoStopFails =>
       /\ sandbox.state = "Running" \/ ~sandbox.job => ~sandbox.taken
       /\ SurvivorIsReported

\* What appending an entry keeps and adds.
LEMMA Appended ==
  ASSUME NEW s \in Seq(Entries), NEW entry \in Entries
  PROVE  /\ Append(s, entry) \in Seq(Entries) /\ Len(Append(s, entry)) = Len(s) + 1
         /\ ToSet(s) \subseteq ToSet(Append(s, entry)) /\ entry \in ToSet(Append(s, entry))
<1>0. /\ Append(s, entry) \in Seq(Entries) /\ Len(Append(s, entry)) = Len(s) + 1
      /\ \A i \in 1..Len(s) : Append(s, entry)[i] = s[i]
      /\ Append(s, entry)[Len(s) + 1] = entry
  BY AppendProperties
<1>1. DOMAIN s = 1..Len(s) /\ DOMAIN Append(s, entry) = 1..Len(s) + 1 /\ Len(s) \in Nat
  BY <1>0
<1>2. ToSet(s) \subseteq ToSet(Append(s, entry))
  <2>1. ASSUME NEW i \in DOMAIN s
        PROVE  i \in DOMAIN Append(s, entry) /\ Append(s, entry)[i] = s[i]
    BY <1>0, <1>1
  <2> QED
    BY <2>1 DEF ToSet
<1>3. entry \in ToSet(Append(s, entry))
  <2>1. Len(s) + 1 \in DOMAIN Append(s, entry)
    BY <1>0, <1>1
  <2> QED
    BY <1>0, <1>1, <2>1 DEF ToSet
<1> QED
  BY <1>0, <1>2, <1>3

\* record_crash_entry takes the slot of the event, and a free slot takes the entry.
LEMMA Recorded ==
  ASSUME NEW s, IsSandbox(s), NEW entry \in Entries, NEW r, r = record_crash_entry(s, entry)
  PROVE  /\ IsSandbox(r) /\ r.state = s.state /\ r.job = s.job /\ r.taken = TRUE
         /\ Len(r.reports) <= Len(s.reports) + 1 /\ ToSet(s.reports) \subseteq ToSet(r.reports)
         /\ s.taken = TRUE => r.reports = s.reports
         /\ s.taken = FALSE => entry \in ToSet(r.reports)
<1>1. s.reports \in Seq(Entries) /\ Len(s.reports) \in Nat /\ s.taken \in BOOLEAN
  BY DEF IsSandbox
<1>2. CASE s.taken = TRUE
  <2>1. r = s
    BY <1>2, Zenon DEF record_crash_entry
  <2> QED
    BY <1>1, <1>2, <2>1
<1>3. CASE s.taken = FALSE
  <2>1. r = [s EXCEPT !.taken = TRUE, !.reports = Append(@, entry)]
    BY <1>3, Zenon DEF record_crash_entry
  <2>2. /\ DOMAIN r = DOMAIN s /\ r.state = s.state /\ r.job = s.job /\ r.taken = TRUE
        /\ r.reports = Append(s.reports, entry)
    BY <2>1 DEF IsSandbox
  <2>3. /\ r.reports \in Seq(Entries) /\ Len(r.reports) = Len(s.reports) + 1
        /\ ToSet(s.reports) \subseteq ToSet(r.reports) /\ entry \in ToSet(r.reports)
    BY <1>1, <2>2, Appended
  <2>4. IsSandbox(r)
    BY <2>2, <2>3 DEF IsSandbox
  <2> QED
    BY <1>1, <1>3, <2>2, <2>3, <2>4
<1> QED
  BY <1>1, <1>2, <1>3

Held(s, reason) == [s EXCEPT !.state = "Quarantined", !.reason = reason]

\* Quarantining changes the state and the reason alone.
LEMMA HeldFields ==
  ASSUME NEW s, IsSandbox(s), NEW reason, NEW q, q = Held(s, reason)
  PROVE  /\ IsSandbox(q) /\ q.state = "Quarantined" /\ q.job = s.job /\ q.taken = s.taken
         /\ q.reports = s.reports
BY DEF Held, IsSandbox

\* What a step adds to the crash reports.
Grows(s, r) ==
  /\ IsSandbox(r) /\ r.state = "Quarantined" /\ r.job = s.job
  /\ Len(r.reports) <= Len(s.reports) + 1 /\ ToSet(s.reports) \subseteq ToSet(r.reports)

\* A quarantine that is recorded.
LEMMA HeldRecorded ==
  ASSUME NEW s, IsSandbox(s), NEW reason, NEW entry \in Entries,
         NEW r, r = record_crash_entry(Held(s, reason), entry)
  PROVE  /\ Grows(s, r) /\ r.taken = TRUE
         /\ s.taken = FALSE => entry \in ToSet(r.reports)
<1> DEFINE q == Held(s, reason)
<1>1. IsSandbox(q) /\ q.state = "Quarantined" /\ q.job = s.job /\ q.taken = s.taken /\ q.reports = s.reports
  BY HeldFields
<1>2. r = record_crash_entry(q, entry)
  OBVIOUS
<1> HIDE DEF q
<1>3. /\ IsSandbox(r) /\ r.state = q.state /\ r.job = q.job /\ r.taken = TRUE
      /\ Len(r.reports) <= Len(q.reports) + 1 /\ ToSet(q.reports) \subseteq ToSet(r.reports)
  BY <1>1, <1>2, Recorded
<1>4. q.taken = FALSE => entry \in ToSet(r.reports)
  BY <1>1, <1>2, Recorded
<1> QED
  BY <1>1, <1>3, <1>4 DEF Grows

\* Giving up kills the worker of the job, or tells that this failed.
LEMMA GiveUpTells ==
  ASSUME IsSandbox(sandbox), NEW reason, NEW entry \in Entries \cup {"none"}, GiveUp(reason, entry)
  PROVE  /\ Grows(sandbox, sandbox')
         /\ \/ sandbox.job = TRUE /\ worker' = Killed(worker)
            \/ sandbox.job = FALSE /\ worker' = worker
            \/ /\ sandbox.job = TRUE /\ worker' = worker
               /\ sandbox.taken = FALSE => "job_object_failure" \in ToSet(sandbox'.reports)
<1>1. PICK fails \in BOOLEAN :
        LET q == quarantine(sandbox, reason, fails)
        IN  /\ sandbox' = IF entry = "none" THEN q ELSE record_crash_entry(q, entry)
            /\ worker' = IF sandbox.job /\ ~fails THEN Killed(worker) ELSE worker
  BY DEF GiveUp, MayFail
<1>2. "job_object_failure" \in Entries /\ sandbox.job \in BOOLEAN /\ Len(sandbox.reports) \in Nat
  BY DEF Entries, IsSandbox
<1>3. CASE sandbox.job = TRUE /\ fails = TRUE
  <2> DEFINE q == record_crash_entry(Held(sandbox, reason), "job_object_failure")
  <2>1. sandbox' = (IF entry = "none" THEN q ELSE record_crash_entry(q, entry)) /\ worker' = worker
    BY <1>1, <1>3, Zenon DEF quarantine, Held
  <2>2. /\ Grows(sandbox, q) /\ q.taken = TRUE
        /\ sandbox.taken = FALSE => "job_object_failure" \in ToSet(q.reports)
    BY <1>2, HeldRecorded
  <2> HIDE DEF q
  <2>3. IsSandbox(q)
    BY <2>2 DEF Grows
  <2>4. sandbox' = q
    <3>1. entry # "none" => record_crash_entry(q, entry) = q
      BY <2>2, Zenon DEF record_crash_entry
    <3> QED
      BY <2>1, <3>1
  <2> QED
    BY <1>3, <2>1, <2>2, <2>4
<1>4. CASE ~(sandbox.job = TRUE /\ fails = TRUE)
  <2> DEFINE q == Held(sandbox, reason)
  <2>1. sandbox' = (IF entry = "none" THEN q ELSE record_crash_entry(q, entry))
    <3>1. ~(sandbox.job /\ fails)
      BY <1>2, <1>4
    <3> QED
      BY <1>1, <3>1, Zenon DEF quarantine, Held
  <2>2. Grows(sandbox, sandbox')
    <3>1. CASE entry = "none"
      BY <1>2, <2>1, <3>1, HeldFields DEF Grows
    <3>2. CASE entry # "none"
      <4>1. entry \in Entries /\ sandbox' = record_crash_entry(Held(sandbox, reason), entry)
        BY <2>1, <3>2
      <4> QED
        BY <4>1, HeldRecorded
    <3> QED
      BY <3>1, <3>2
  <2>3. \/ sandbox.job = TRUE /\ worker' = Killed(worker)
        \/ sandbox.job = FALSE /\ worker' = worker
    <3>1. worker' = IF sandbox.job /\ ~fails THEN Killed(worker) ELSE worker
      BY <1>1
    <3>2. CASE sandbox.job = FALSE
      BY <3>1, <3>2
    <3>3. CASE sandbox.job = TRUE /\ fails = FALSE
      BY <3>1, <3>3
    <3> QED
      BY <1>2, <1>4, <3>2, <3>3
  <2> QED
    BY <2>2, <2>3
<1> QED
  BY <1>3, <1>4

\* stop() leaves no job, and a free slot when the job ended its worker.
LEMMA StoppedTells ==
  ASSUME NEW s, IsSandbox(s), NEW fails \in BOOLEAN, NEW r, r = Stopped(s, fails)
  PROVE  /\ IsSandbox(r) /\ r.state = "Stopped" /\ r.job = FALSE
         /\ Len(r.reports) <= Len(s.reports) + 1
         /\ fails = FALSE /\ s.job = TRUE => r.taken = FALSE
         /\ s.job = FALSE /\ s.taken = FALSE => r.taken = FALSE
<1> DEFINE opened == [s EXCEPT !.taken = FALSE]
           failed == IF s.job
                     THEN IF fails THEN record_crash_entry(opened, "job_object_failure") ELSE opened
                     ELSE s
<1>1. /\ IsSandbox(opened) /\ opened.taken = FALSE /\ opened.job = s.job /\ opened.reports = s.reports
      /\ Len(s.reports) \in Nat /\ s.job \in BOOLEAN /\ s.taken \in BOOLEAN
  BY DEF IsSandbox
<1>2. "job_object_failure" \in Entries
  BY DEF Entries
<1>3. /\ s.job = TRUE /\ fails = TRUE => failed = record_crash_entry(opened, "job_object_failure")
      /\ s.job = TRUE /\ fails = FALSE => failed = opened
      /\ s.job = FALSE => failed = s
  BY Zenon
<1>4. r = [failed EXCEPT !.state = "Stopped", !.reason = "None", !.job = FALSE, !.heartbeat = 0]
  BY DEF Stopped
<1> HIDE DEF opened, failed
<1>5. /\ IsSandbox(failed) /\ Len(failed.reports) <= Len(s.reports) + 1
      /\ fails = FALSE /\ s.job = TRUE => failed.taken = FALSE
      /\ s.job = FALSE => failed.taken = s.taken
  <2>1. CASE s.job = TRUE /\ fails = TRUE
    BY <1>1, <1>2, <1>3, <2>1, Recorded
  <2>2. CASE s.job = TRUE /\ fails = FALSE
    BY <1>1, <1>3, <2>2
  <2>3. CASE s.job = FALSE
    BY <1>1, <1>3, <2>3
  <2> QED
    BY <1>1, <2>1, <2>2, <2>3
<1>6. /\ DOMAIN r = DOMAIN failed /\ r.state = "Stopped" /\ r.job = FALSE
      /\ r.taken = failed.taken /\ r.reports = failed.reports
  BY <1>4, <1>5 DEF IsSandbox
<1> QED
  BY <1>5, <1>6 DEF IsSandbox

OneMore == Len(sandbox'.reports) <= Len(sandbox.reports) + 1

\* A step that leaves the sandbox to its state and starts no worker.
LEMMA QuietKeeps ==
  ASSUME CrashInv, sandbox' = sandbox \/ sandbox' = [sandbox EXCEPT !.heartbeat = now],
         Alive(worker') => Alive(worker), pipe' # "none" => pipe # "none",
         CallPlaced', call'.op \in {"handshake", "process"} => pipe = "connected" \/ call' = call
  PROVE  CrashInv' /\ OneMore
<1>1. /\ IsSandbox(sandbox') /\ sandbox'.state = sandbox.state /\ sandbox'.job = sandbox.job
      /\ sandbox'.taken = sandbox.taken /\ sandbox'.reports = sandbox.reports
      /\ Len(sandbox.reports) \in Nat
  BY DEF CrashInv, IsSandbox
<1>2. CrashInv'
  BY <1>1 DEF CrashInv, SurvivorIsReported
<1> QED
  BY <1>1, <1>2 DEF OneMore

\* A worker that was killed is not alive.
LEMMA KilledIsDead == ASSUME NEW w PROVE ~Alive(Killed(w))
BY DEF Alive, Killed

\* Giving up on a running worker.
LEMMA GiveUpKeeps ==
  ASSUME CrashInv, sandbox.job, NEW reason, NEW entry \in Entries \cup {"none"}, GiveUp(reason, entry),
         CallPlaced'
  PROVE  CrashInv' /\ OneMore
<1>1. IsSandbox(sandbox) /\ sandbox.job = TRUE
  BY DEF CrashInv, IsSandbox
<1>2. Grows(sandbox, sandbox')
  BY <1>1, GiveUpTells
<1>3. \/ worker' = Killed(worker)
      \/ worker' = worker /\ (sandbox.taken = FALSE => "job_object_failure" \in ToSet(sandbox'.reports))
  BY <1>1, GiveUpTells
<1>4. NoStopFails => SurvivorIsReported'
  <2>0. SUFFICES ASSUME NoStopFails PROVE SurvivorIsReported'
    OBVIOUS
  <2>1. CASE worker' = Killed(worker)
    BY <2>1, KilledIsDead DEF SurvivorIsReported
  <2>2. CASE worker' = worker /\ (sandbox.taken = FALSE => "job_object_failure" \in ToSet(sandbox'.reports))
    <3>1. Alive(worker) /\ sandbox.state = "Running" => sandbox.taken = FALSE
      BY <2>0 DEF CrashInv, IsSandbox
    <3>2. Alive(worker) /\ sandbox.state = "Quarantined" => "job_object_failure" \in ToSet(sandbox'.reports)
      BY <1>2, <2>0 DEF CrashInv, SurvivorIsReported, Grows
    <3>3. Alive(worker) => sandbox.state \in {"Running", "Quarantined"}
      BY DEF CrashInv
    <3> QED
      BY <2>2, <3>1, <3>2, <3>3 DEF SurvivorIsReported
  <2> QED
    BY <1>3, <2>1, <2>2
<1>5. CrashInv'
  BY <1>1, <1>2, <1>4 DEF CrashInv, Grows
<1> QED
  BY <1>2, <1>5 DEF Grows, OneMore

\* What stop() leaves: a free slot, when the job ended its worker.
LEMMA StoppedClean ==
  ASSUME CrashInv, NEW fails \in MayFail("stop"), NEW r, r = Stopped(sandbox, fails)
  PROVE  /\ IsSandbox(r) /\ r.state = "Stopped" /\ r.job = FALSE
         /\ NoStopFails => r.taken = FALSE
         /\ Len(r.reports) <= Len(sandbox.reports) + 1
<1>1. fails \in BOOLEAN /\ (NoStopFails => fails = FALSE)
  BY DEF MayFail, NoStopFails
<1>2. IsSandbox(sandbox) /\ sandbox.job \in BOOLEAN /\ sandbox.taken \in BOOLEAN
      /\ (NoStopFails /\ sandbox.job = FALSE => sandbox.taken = FALSE)
  BY DEF CrashInv, IsSandbox
<1>3. /\ IsSandbox(r) /\ r.state = "Stopped" /\ r.job = FALSE
      /\ Len(r.reports) <= Len(sandbox.reports) + 1
  BY <1>1, <1>2, StoppedTells
<1>4. NoStopFails /\ sandbox.job = TRUE => r.taken = FALSE
  BY <1>1, <1>2, StoppedTells
<1>5. NoStopFails /\ sandbox.job = FALSE => r.taken = FALSE
  BY <1>1, <1>2, StoppedTells
<1> QED
  BY <1>2, <1>3, <1>4, <1>5

\* The steps of launch and stop.
LEMMA StopKeeps ==
  ASSUME CrashInv, StopSandbox, CallPlaced', call'.op \notin {"handshake", "process"}
  PROVE  CrashInv' /\ OneMore
<1>1. PICK fails \in MayFail("stop") : sandbox' = Stopped(sandbox, fails)
  BY DEF StopSandbox
<1>2. /\ IsSandbox(sandbox') /\ sandbox'.state = "Stopped" /\ sandbox'.job = FALSE
      /\ (NoStopFails => sandbox'.taken = FALSE)
      /\ Len(sandbox'.reports) <= Len(sandbox.reports) + 1
  BY <1>1, StoppedClean
<1>3. ~Alive(worker') /\ pipe' = "none"
  BY KilledIsDead DEF StopSandbox, ClosePipe
<1> QED
  BY <1>2, <1>3 DEF CrashInv, SurvivorIsReported, OneMore

\* A launch that fails stops what ran before it.
LEMMA LaunchFailsKeeps ==
  ASSUME CrashInv, LaunchFails, CallPlaced', call'.op \notin {"handshake", "process"}
  PROVE  CrashInv' /\ OneMore
<1>1. PICK fails \in MayFail("stop"), reason \in {"InvalidLaunch", "ProcessSetupFailed"} :
        sandbox' = quarantine(Stopped(sandbox, fails), reason, FALSE)
  BY DEF LaunchFails
<1> DEFINE r == Stopped(sandbox, fails)
<1>2. /\ IsSandbox(r) /\ r.job = FALSE /\ (NoStopFails => r.taken = FALSE)
      /\ Len(r.reports) <= Len(sandbox.reports) + 1
  BY StoppedClean
<1>3. sandbox' = Held(r, reason)
  BY <1>1 DEF quarantine, Held
<1> HIDE DEF r
<1>4. /\ IsSandbox(sandbox') /\ sandbox'.state = "Quarantined" /\ sandbox'.job = FALSE
      /\ (NoStopFails => sandbox'.taken = FALSE) /\ sandbox'.reports = r.reports
  BY <1>2, <1>3, HeldFields
<1>5. ~Alive(worker') /\ pipe' = "none"
  BY KilledIsDead DEF LaunchFails, ClosePipe
<1> QED
  BY <1>2, <1>4, <1>5 DEF CrashInv, SurvivorIsReported, OneMore

\* A launch that works stops what ran before it, too, and starts a life of its own.
LEMMA LaunchWorksKeeps ==
  ASSUME CrashInv, LaunchWorks, CallPlaced'
  PROVE  CrashInv' /\ OneMore
<1>1. PICK fails \in MayFail("stop") :
        sandbox' = [Stopped(sandbox, fails) EXCEPT
                      !.state = "Running", !.job = TRUE, !.heartbeat = now, !.reports = <<>>]
  BY DEF LaunchWorks
<1> DEFINE r == Stopped(sandbox, fails)
<1>2. IsSandbox(r) /\ (NoStopFails => r.taken = FALSE)
  BY StoppedClean
<1> HIDE DEF r
<1>3. sandbox' = [r EXCEPT !.state = "Running", !.job = TRUE, !.heartbeat = now, !.reports = <<>>]
  BY <1>1 DEF r
<1>4. /\ DOMAIN sandbox' = DOMAIN r /\ sandbox'.state = "Running" /\ sandbox'.job = TRUE
      /\ sandbox'.taken = r.taken /\ sandbox'.reports = <<>>
  BY <1>2, <1>3 DEF IsSandbox
<1>5. IsSandbox(sandbox')
  <2>1. <<>> \in Seq(Entries)
    OBVIOUS
  <2> QED
    BY <1>2, <1>4, <2>1 DEF IsSandbox
<1>6. Len(sandbox'.reports) = 0
  BY <1>4
<1>7. Len(sandbox.reports) \in Nat
  BY DEF IsSandbox, CrashInv
<1>8. NoStopFails => ~sandbox'.taken
  BY <1>2, <1>4, <1>5 DEF IsSandbox
<1>9. sandbox'.state = "Running" /\ sandbox'.job
  BY <1>4
<1> QED
  BY <1>5, <1>6, <1>7, <1>8, <1>9 DEF CrashInv, SurvivorIsReported, OneMore

\* The loop stays a loop, and a hub that is in no call is where it may be.
LEMMA PlacedFree ==
  ASSUME CallPlaced, owner' = owner, DOMAIN loop' = DOMAIN loop, call'.op = "none"
  PROVE  CallPlaced'
BY DEF CallPlaced

\* The updates of the loop keep its fields.
LEMMA LoopSteps ==
  ASSUME CallPlaced
  PROVE  /\ DOMAIN GiveUpLane = DOMAIN loop
         /\ \A frames : DOMAIN Progressed(frames) = DOMAIN loop
         /\ NoCall.op = "none"
BY DEF CallPlaced, GiveUpLane, Progressed, NoCall

\* What an answer is refused for has an entry, or none.
LEMMA VerdictEntry == \A f : Verdict(f) # "ok" => Verdict(f) \in Entries \cup {"none"}
BY DEF Verdict, Entries

\* A pipe that fails has an entry.
LEMMA PipeFailureEntry == "pipe_failure" \in Entries \cup {"none"} /\ "none" \in Entries \cup {"none"}
BY DEF Entries

\* An exchange that fails gives the sandbox up, or had found it given up.
LEMMA ExchangeFailsKeeps == ASSUME CrashInv, ExchangeFails, CallPlaced' PROVE CrashInv' /\ OneMore
<1>1. sandbox.job
  BY DEF ExchangeFails, CrashInv
<1>2. \/ GiveUp("WorkerExchangeFailed", "pipe_failure")
      \/ Verdict(Head(toHub)) # "ok" /\ GiveUp("WorkerExchangeFailed", Verdict(Head(toHub)))
  BY DEF ExchangeFails
<1> DEFINE entry == Verdict(Head(toHub))
<1>3. entry # "ok" => entry \in Entries \cup {"none"}
  BY VerdictEntry
<1> HIDE DEF entry
<1>4. CASE GiveUp("WorkerExchangeFailed", "pipe_failure")
  BY <1>1, <1>4, GiveUpKeeps, PipeFailureEntry
<1>5. CASE entry # "ok" /\ GiveUp("WorkerExchangeFailed", entry)
  BY <1>1, <1>3, <1>5, GiveUpKeeps
<1> QED
  BY <1>2, <1>4, <1>5 DEF entry

\* A request goes out over a connected pipe, or gives the sandbox up.
LEMMA SendKeeps ==
  ASSUME CrashInv, NEW op, NEW id, NEW block, NEW frames, Send(op, id, block, frames), CallPlaced'
  PROVE  CrashInv' /\ OneMore
<1>1. CASE UNCHANGED <<sandbox, pipe, worker>> /\ pipe = "connected"
  BY <1>1, QuietKeeps
<1>2. CASE pipe = "connected" /\ GiveUp("WorkerExchangeFailed", "pipe_failure")
  <2>1. sandbox.job
    BY <1>2 DEF CrashInv
  <2> QED
    BY <1>2, <2>1, GiveUpKeeps, PipeFailureEntry
<1> QED
  BY <1>1, <1>2 DEF Send

\* The turns of the loop.
LEMMA TurnKeeps == ASSUME CrashInv, TurnNext PROVE CrashInv' /\ OneMore
<1>1. /\ CallPlaced /\ NoCall.op = "none" /\ DOMAIN GiveUpLane = DOMAIN loop
      /\ \A frames : DOMAIN Progressed(frames) = DOMAIN loop
  BY LoopSteps DEF CrashInv
<1>2. CASE RenderBlock \/ RenderNothing \/ LaneIdle \/ PublishStatus \/ BlockRefused
  <2>1. UNCHANGED <<sandbox, pipe, worker, call, owner>> /\ DOMAIN loop' = DOMAIN loop
    BY <1>1, <1>2 DEF RenderBlock, RenderNothing, LaneIdle, PublishStatus, BlockRefused, sandboxVars, CallPlaced
  <2>2. call.op = "none"
    BY <1>1, <1>2 DEF RenderBlock, RenderNothing, LaneIdle, PublishStatus, BlockRefused, Exchanging, At, CallPlaced
  <2> QED
    BY <1>1, <2>1, <2>2, PlacedFree, QuietKeeps
<1>3. CASE LaneConnected \/ LaneNotConnected
  <2>1. /\ UNCHANGED <<sandbox, worker, owner>> /\ DOMAIN loop' = DOMAIN loop /\ call' = NoCall
        /\ pipe # "none"
    BY <1>1, <1>3 DEF LaneConnected, LaneNotConnected, WaitEnds, CallPlaced
  <2> QED
    BY <1>1, <2>1, PlacedFree, QuietKeeps
<1>4. CASE SendHello
  <2>1. /\ Send("handshake", loop.request, 0, 0) /\ owner' = owner /\ owner = "preview"
        /\ loop.pc = "hello" /\ call.op = "none"
        /\ loop' = IF call'.op = "none" THEN GiveUpLane ELSE [loop EXCEPT !.request = Request]
    BY <1>4 DEF SendHello, At
  <2>2. call'.op \in {"none", "handshake"}
    BY <2>1 DEF Send, Begin
  <2>3. CallPlaced'
    BY <1>1, <2>1, <2>2 DEF CallPlaced
  <2> QED
    BY <2>1, <2>3, SendKeeps
<1>5. CASE SendBlock
  <2>1. /\ Send("process", loop.request, tap.name, tap.frames) /\ owner' = owner /\ owner = "preview"
        /\ call.op = "none"
        /\ loop' = [loop EXCEPT !.request = Request,
                                !.pc = IF call'.op = "none" THEN "status" ELSE "block",
                                !.failed = @ \/ call'.op = "none"]
    BY <1>5 DEF SendBlock, Exchanging, At
  <2>2. call'.op \in {"none", "process"}
    BY <2>1 DEF Send, Begin
  <2>3. DOMAIN loop' = DOMAIN loop /\ (call'.op # "none" => loop'.pc = "block")
    BY <1>1, <2>1 DEF CallPlaced
  <2>4. CallPlaced'
    BY <1>1, <2>1, <2>2, <2>3 DEF CallPlaced
  <2> QED
    BY <2>1, <2>4, SendKeeps
<1>6. CASE HelloFails \/ BlockFails
  <2>1. ExchangeFails /\ owner' = owner /\ DOMAIN loop' = DOMAIN loop /\ call' = NoCall
    BY <1>1, <1>6 DEF HelloFails, BlockFails, ExchangeFails, CallPlaced
  <2> QED
    BY <1>1, <2>1, PlacedFree, ExchangeFailsKeeps
<1>7. CASE HelloAnswered \/ BlockAnswered \/ RingRefuses
  <2>1. /\ UNCHANGED <<sandbox, pipe, worker, owner>> /\ DOMAIN loop' = DOMAIN loop /\ call' = NoCall
    BY <1>1, <1>7 DEF HelloAnswered, BlockAnswered, RingRefuses, AnswerUsed, CallPlaced
  <2> QED
    BY <1>1, <2>1, PlacedFree, QuietKeeps
<1> QED
  BY <1>2, <1>3, <1>4, <1>5, <1>6, <1>7 DEF TurnNext

\* The launch of the lane.
LEMMA LaunchLaneKeeps == ASSUME CrashInv, LaunchLane PROVE CrashInv' /\ OneMore
<1>1. /\ CallPlaced /\ owner' = owner /\ call.op = "none" /\ NoCall.op = "none"
  BY LoopSteps DEF CrashInv, LaunchLane
<1>2. CASE LaunchFails /\ call' = call
           /\ loop' = [loop EXCEPT !.pc = "status", !.requested = FALSE, !.failed = TRUE]
  <2>1. DOMAIN loop' = DOMAIN loop
    BY <1>1, <1>2 DEF CallPlaced
  <2> QED
    BY <1>1, <1>2, <2>1, PlacedFree, LaunchFailsKeeps
<1>3. CASE LaunchWorks /\ Begin("wait", 0, 0, 0) /\ loop' = [loop EXCEPT !.launched = TRUE, !.pc = "wait"]
  <2>1. CallPlaced'
    BY <1>1, <1>3 DEF CallPlaced, Begin
  <2> QED
    BY <1>3, <2>1, LaunchWorksKeeps
<1> QED
  BY <1>2, <1>3 DEF LaunchLane

\* The end of the loop.
LEMMA EndLoopKeeps == ASSUME CrashInv, EndLoop PROVE CrashInv' /\ OneMore
<1>1. /\ CallPlaced /\ owner' = owner /\ call' = call /\ call.op = "none" /\ StopSandbox
      /\ DOMAIN loop' = DOMAIN loop
  BY DEF CrashInv, EndLoop, At, CallPlaced
<1> QED
  BY <1>1, PlacedFree, StopKeeps

\* What the worker does.
LEMMA WorkerKeeps == ASSUME CrashInv, WorkerNext, UNCHANGED loopVars PROVE CrashInv' /\ OneMore
<1>1. UNCHANGED <<sandbox, call, owner, loop>> /\ CallPlaced
  BY DEF WorkerNext, WorkerConnects, WorkerReceives, WorkerAnswers, WorkerExits, WorkerOnly, loopVars, CrashInv
<1>2. Alive(worker)
  BY DEF WorkerNext, WorkerConnects, WorkerReceives, WorkerAnswers, WorkerExits, WorkerAt, Alive
<1>3. pipe' # "none" => pipe # "none"
  BY DEF WorkerNext, WorkerConnects, WorkerReceives, WorkerAnswers, WorkerExits, KeepPipe
<1>4. CallPlaced'
  BY <1>1 DEF CallPlaced
<1> QED
  BY <1>1, <1>2, <1>3, <1>4, QuietKeeps

\* The calls of a client.
LEMMA ClientKeeps == ASSUME CrashInv, ClientNext PROVE CrashInv' /\ OneMore
<1>1. owner = "client" /\ UNCHANGED <<owner, loop>> /\ CallPlaced
  BY DEF ClientNext, ClientLaunch, ClientStop, ClientStart, ClientWait, ClientExchangeRefused, ClientSend,
         ClientAnswered, ClientWatches, Tick, Client, loopVars, CrashInv
<1>2. CallPlaced' /\ NoCall.op = "none"
  BY <1>1, LoopSteps DEF CallPlaced
<1>3. CASE ClientLaunch
  <2>1. call' = call /\ call.op = "none" /\ (LaunchWorks \/ LaunchFails)
    BY <1>3 DEF ClientLaunch, Client
  <2> QED
    BY <1>2, <2>1, LaunchWorksKeeps, LaunchFailsKeeps
<1>4. CASE ClientStop
  <2>1. call' = call /\ call.op = "none" /\ StopSandbox
    BY <1>4 DEF ClientStop, Client
  <2> QED
    BY <1>2, <2>1, StopKeeps
<1>5. CASE ClientStart \/ Tick
  <2>1. UNCHANGED <<sandbox, pipe, worker, call>>
    BY <1>5 DEF ClientStart, Tick, HostOnly
  <2> QED
    BY <1>2, <2>1, QuietKeeps
<1>6. CASE ClientWait
  <2>1. UNCHANGED <<sandbox, worker>> /\ call'.op \in {"none", "wait"} /\ (pipe' # "none" => pipe # "none")
    BY <1>2, <1>6 DEF ClientWait, WaitBegins, WaitEnds, NoCall
  <2> QED
    BY <1>2, <2>1, QuietKeeps
<1>7. CASE ClientExchangeRefused
  <2>1. CASE UNCHANGED <<sandbox, worker>>
    BY <1>2, <1>7, <2>1, QuietKeeps DEF ClientExchangeRefused, KeepPipe
  <2>2. CASE sandbox.state = "Running" /\ GiveUp("WorkerExchangeFailed", "none")
    <3>1. sandbox.job
      BY <2>2 DEF CrashInv
    <3> QED
      BY <1>2, <2>2, <3>1, GiveUpKeeps, PipeFailureEntry
  <2> QED
    BY <1>7, <2>1, <2>2 DEF ClientExchangeRefused
<1>8. CASE ClientSend
  BY <1>2, <1>8, SendKeeps DEF ClientSend
<1>9. CASE ClientAnswered
  <2>1. CASE AnswerUsed /\ call' = NoCall
    BY <1>2, <2>1, QuietKeeps DEF AnswerUsed
  <2>2. CASE ExchangeFails
    BY <1>2, <2>2, ExchangeFailsKeeps
  <2> QED
    BY <1>9, <2>1, <2>2 DEF ClientAnswered
<1>10. CASE ClientWatches
  <2>1. CASE MarkHeartbeat
    BY <1>2, <2>1, QuietKeeps DEF MarkHeartbeat
  <2>2. CASE poll_watchdog
    <3>1. sandbox.job
      BY <2>2 DEF CrashInv, poll_watchdog
    <3>2. \E reason : \E entry \in Entries \cup {"none"} : GiveUp(reason, entry)
      BY <2>2 DEF poll_watchdog, Entries
    <3> QED
      BY <1>2, <3>1, <3>2, GiveUpKeeps
  <2> QED
    BY <1>10, <2>1, <2>2 DEF ClientWatches
<1> QED
  BY <1>3, <1>4, <1>5, <1>6, <1>7, <1>8, <1>9, <1>10 DEF ClientNext

\* Nothing has been launched at first.
LEMMA InitCrash == LaneInit => CrashInv
<1> SUFFICES ASSUME LaneInit PROVE CrashInv
  OBVIOUS
<1>1. sandbox = [state |-> "Stopped", reason |-> "None", job |-> FALSE, heartbeat |-> 0,
                 taken |-> FALSE, reports |-> <<>>]
  BY DEF LaneInit, SandboxInit
<1>2. /\ DOMAIN sandbox = {"state", "reason", "job", "heartbeat", "taken", "reports"}
      /\ sandbox.state = "Stopped" /\ sandbox.job = FALSE /\ sandbox.taken = FALSE /\ sandbox.reports = <<>>
  BY <1>1
<1>3. IsSandbox(sandbox)
  <2>1. <<>> \in Seq(Entries)
    OBVIOUS
  <2> QED
    BY <1>2, <2>1 DEF IsSandbox
<1>4. CallPlaced
  BY DEF LaneInit, SandboxInit, CallPlaced, NoCall
<1> QED
  BY <1>2, <1>3, <1>4 DEF LaneInit, SandboxInit, CrashInv, SurvivorIsReported, Alive, NoWorker, NoCall

\* Every step.
LEMMA CrashStep == ASSUME CrashInv, [LaneNext]_laneVars PROVE CrashInv' /\ [OneMore]_sandbox
<1>1. CASE LaneNext
  BY <1>1, TurnKeeps, LaunchLaneKeeps, EndLoopKeeps, WorkerKeeps, ClientKeeps DEF LaneNext
<1>2. CASE UNCHANGED laneVars
  <2>1. UNCHANGED <<sandbox, pipe, worker, call, owner, loop>>
    BY <1>2 DEF laneVars, sandboxVars, loopVars
  <2>2. CallPlaced'
    BY <2>1 DEF CrashInv, CallPlaced
  <2> QED
    BY <2>1, <2>2, QuietKeeps
<1> QED
  BY <1>1, <1>2

\* No event of a sandbox leaves two crash entries; and as long as stop() ends the
\* worker it stops, one that outlives its quarantine is in the crash reports
\* (vst3_sandbox.cpp:183-205).
THEOREM CrashesAreReported ==
  /\ LaneSpec => OneEntryPerEvent
  /\ NoStopFails => (LaneSpec => CrashReportsAreTrue)
<1>1. CrashInv /\ NoStopFails => SurvivorIsReported
  BY DEF CrashInv
<1>2. CrashInv /\ [LaneNext]_laneVars => CrashInv' /\ [OneMore]_sandbox
  BY CrashStep
<1>3. LaneSpec => []CrashInv
  BY <1>2, InitCrash, PTL DEF LaneSpec
<1>4. LaneSpec => [][OneMore]_sandbox
  BY <1>2, <1>3, PTL DEF LaneSpec
<1>5. LaneSpec => OneEntryPerEvent
  BY <1>4 DEF OneEntryPerEvent, OneMore
<1>6. ASSUME NoStopFails PROVE LaneSpec => CrashReportsAreTrue
  <2>1. CrashInv => SurvivorIsReported
    BY <1>1, <1>6
  <2> QED
    BY <1>3, <1>5, <2>1, PTL DEF CrashReportsAreTrue
<1> QED
  BY <1>5, <1>6

-----------------------------------------------------------------------------
(* The lane: what is shown of its route *)

\* Of the host's loop: it waits for a worker only while the plug-in may run,
\* the plug-in runs only in a running sandbox, and a session is ready only
\* with a prepared lane.
ReadyInv ==
  owner = "preview" =>
    /\ loop.pc \in {"wait", "hello", "block"} => can_process
    /\ can_process /\ loop.pc # "ended" => sandbox.state = "Running"
    /\ can_process => loop.launched = TRUE
    /\ DOMAIN lane = {"state", "next", "processed"}
    /\ lane.state = "Ready" => prepared = TRUE
    /\ ReadyMeansUsable

\* No step changes who holds the sandbox.
LEMMA OwnerStays == ASSUME [LaneNext]_laneVars PROVE owner' = owner
<1>1. TurnNext => owner' = owner
  BY DEF TurnNext, RenderBlock, RenderNothing, LaneConnected, LaneNotConnected, SendHello, HelloAnswered,
         HelloFails, LaneIdle, BlockRefused, SendBlock, BlockFails, BlockAnswered, RingRefuses, PublishStatus
<1>2. LaunchLane \/ EndLoop \/ UNCHANGED loopVars => owner' = owner
  BY DEF LaunchLane, EndLoop, loopVars
<1>3. ClientNext => UNCHANGED loopVars
  BY DEF ClientNext, ClientLaunch, ClientStop, ClientStart, ClientWait, ClientExchangeRefused, ClientSend,
         ClientAnswered, ClientWatches, Tick, Client
<1> QED
  BY <1>1, <1>2, <1>3 DEF LaneNext, laneVars

\* While the loop holds the sandbox no client steps.
LEMMA NoClient == ASSUME CrashInv, owner = "preview" PROVE ~ClientNext
BY DEF ClientNext, ClientLaunch, ClientStop, ClientStart, ClientWait, ClientExchangeRefused, ClientSend,
       ClientAnswered, ClientWatches, Tick, Client

\* A call that fails ends the plug-in, and with it the session.
LEMMA CrashEnds == ASSUME report_crash PROVE ~can_process' /\ lane' = Detached
BY DEF report_crash, can_process

\* A session that was given up.
LEMMA DetachedFields == DOMAIN Detached = {"state", "next", "processed"} /\ Detached.state = "Detached"
BY DEF Detached

\* A loop that has given the plug-in up shows nothing and waits for nothing.
LEMMA GivenUp ==
  ASSUME owner' = owner, report_crash, loop'.pc \notin {"wait", "hello", "block", "render"}
  PROVE  ReadyInv'
BY CrashEnds, DetachedFields DEF ReadyInv, ReadyMeansUsable, At

\* The turns of the loop.
LEMMA ReadyTurn == ASSUME CrashInv, ReadyInv, owner = "preview", TurnNext, owner' = owner PROVE ReadyInv'
<1>1. DOMAIN loop = {"pc", "requested", "launched", "request", "start", "processed", "failed"}
  BY DEF CrashInv, CallPlaced
<1>2. CASE RenderBlock \/ RenderNothing
  <2>1. UNCHANGED <<sandbox, host, lane, prepared>> /\ loop'.launched = loop.launched /\ loop'.pc = "lane" /\ loop.pc = "render"
    BY <1>1, <1>2 DEF RenderBlock, RenderNothing, sandboxVars, At
  <2> QED
    BY <2>1 DEF ReadyInv, ReadyMeansUsable, can_process, At
<1>3. CASE LaneConnected
  <2>1. UNCHANGED <<sandbox, host, lane, prepared>> /\ loop'.launched = loop.launched /\ loop'.pc = "hello" /\ loop.pc = "wait"
    BY <1>1, <1>3 DEF LaneConnected, WaitEnds, At
  <2> QED
    BY <2>1 DEF ReadyInv, ReadyMeansUsable, can_process, At
<1>4. CASE LaneNotConnected \/ HelloFails \/ BlockFails \/ BlockRefused \/ RingRefuses
  <2>1. report_crash /\ loop'.pc = "status"
    BY <1>1, <1>4 DEF LaneNotConnected, HelloFails, BlockFails, BlockRefused, RingRefuses, ExchangeFails, GiveUpLane
  <2> QED
    BY <2>1, GivenUp
<1>5. CASE SendHello \/ SendBlock
  <2>1. loop'.launched = loop.launched /\ loop'.pc \in {"status", "hello", "block"} /\ prepared' = prepared /\ loop.pc \in {"hello", "lane"}
        /\ can_process
    BY <1>1, <1>5 DEF SendHello, SendBlock, GiveUpLane, At, Exchanging, ReadyInv
  <2>2. CASE UNCHANGED <<sandbox, host, lane>>
    BY <2>1, <2>2 DEF ReadyInv, ReadyMeansUsable, can_process, At
  <2>3. CASE report_crash /\ call' = call /\ call.op = "none"
    <3>1. loop'.pc = "status"
      BY <1>1, <1>5, <2>3 DEF SendHello, SendBlock, GiveUpLane
    <3> QED
      BY <2>3, <3>1, GivenUp
  <2> QED
    BY <1>5, <2>2, <2>3 DEF SendHello, SendBlock, Send, Exchanging
<1>6. CASE HelloAnswered
  <2>1. /\ UNCHANGED <<sandbox, host>> /\ loop'.launched = loop.launched /\ loop'.pc = "status" /\ loop.pc = "hello" /\ prepared' = TRUE
        /\ lane' = [lane EXCEPT !.state = "Ready"] \/ lane' = [lane EXCEPT !.next = (@ + call.frames) % 4, !.processed = TRUE]
    BY <1>1, <1>6 DEF HelloAnswered, AnswerUsed, At
  <2>2. DOMAIN lane' = DOMAIN lane
    BY <2>1
  <2> QED
    BY <2>1, <2>2 DEF ReadyInv, ReadyMeansUsable, can_process, At
<1>7. CASE LaneIdle
  <2>1. UNCHANGED <<sandbox, host, lane, prepared>> /\ loop'.launched = loop.launched /\ loop'.pc = "status" /\ loop.pc = "lane"
    BY <1>1, <1>7 DEF LaneIdle, sandboxVars, At
  <2> QED
    BY <2>1 DEF ReadyInv, ReadyMeansUsable, can_process, At
<1>8. CASE BlockAnswered
  <2>1. call.op = "process"
    BY <1>8 DEF BlockAnswered, AnswerUsed, Answered, At, CrashInv, CallPlaced
  <2>2. /\ UNCHANGED <<sandbox, host, prepared>> /\ loop'.launched = loop.launched /\ loop'.pc = "status" /\ loop.pc = "block"
        /\ lane' = [lane EXCEPT !.next = (@ + call.frames) % 4, !.processed = TRUE]
    BY <1>1, <1>8, <2>1 DEF BlockAnswered, AnswerUsed, Progressed, At
  <2>3. DOMAIN lane' = DOMAIN lane /\ (lane.state = lane'.state \/ "state" \notin DOMAIN lane)
    BY <2>2
  <2> QED
    BY <2>2, <2>3 DEF ReadyInv, ReadyMeansUsable, can_process, At
<1>9. CASE PublishStatus
  <2>1. /\ UNCHANGED <<sandbox, host, lane, prepared>> /\ loop'.launched = loop.launched /\ loop'.pc = "render" /\ loop.pc = "status"
        /\ status' = vst3_route_state(loop, can_process, lane.state = "Ready")
    BY <1>1, <1>9 DEF PublishStatus, sandboxVars, At
  <2>2. status' = "Ready" => can_process /\ lane.state = "Ready"
    BY <2>1 DEF vst3_route_state
  <2> QED
    BY <2>1, <2>2 DEF ReadyInv, ReadyMeansUsable, can_process, At
<1> QED
  BY <1>2, <1>3, <1>4, <1>5, <1>6, <1>7, <1>8, <1>9 DEF TurnNext

\* Every step.
LEMMA ReadyStep == ASSUME CrashInv, ReadyInv, [LaneNext]_laneVars PROVE ReadyInv'
<1>1. owner' = owner
  BY OwnerStays
<1>2. SUFFICES ASSUME owner = "preview" PROVE ReadyInv'
  BY <1>1 DEF ReadyInv
<1>3. DOMAIN loop = {"pc", "requested", "launched", "request", "start", "processed", "failed"}
  BY DEF CrashInv, CallPlaced
<1>4. CASE TurnNext
  BY <1>1, <1>2, <1>4, ReadyTurn
<1>5. CASE LaunchLane
  <2>1. loop.launched = FALSE \/ ~loop.launched
    BY <1>5 DEF LaunchLane, NotLaunched
  <2>2. CASE /\ LaunchFails /\ UNCHANGED <<lane, host>> /\ prepared' = prepared
             /\ loop' = [loop EXCEPT !.pc = "status", !.requested = FALSE, !.failed = TRUE]
    <3>1. ~can_process /\ ~can_process' /\ loop'.pc = "status"
      BY <1>2, <1>3, <2>1, <2>2 DEF ReadyInv, can_process
    <3> QED
      BY <1>1, <1>2, <2>2, <3>1 DEF ReadyInv, ReadyMeansUsable, At
  <2>3. CASE /\ LaunchWorks /\ host' = [state |-> "Running"] /\ prepare_worker_session
             /\ loop' = [loop EXCEPT !.launched = TRUE, !.pc = "wait"]
    <3>1. sandbox'.state = "Running"
      <4>1. PICK fails \in MayFail("stop") :
              sandbox' = [Stopped(sandbox, fails) EXCEPT
                            !.state = "Running", !.job = TRUE, !.heartbeat = now, !.reports = <<>>]
        BY <2>3 DEF LaunchWorks
      <4> DEFINE r == Stopped(sandbox, fails)
      <4>2. IsSandbox(r)
        BY StoppedClean
      <4> HIDE DEF r
      <4>3. sandbox' = [r EXCEPT !.state = "Running", !.job = TRUE, !.heartbeat = now, !.reports = <<>>]
        BY <4>1 DEF r
      <4> QED
        BY <4>2, <4>3 DEF IsSandbox
    <3>2. loop'.pc = "wait" /\ loop'.launched = TRUE
      BY <1>3, <2>3
    <3>3. DOMAIN lane' = {"state", "next", "processed"} /\ lane'.state = "Prepared"
      BY <2>3 DEF prepare_worker_session, Detached
    <3> QED
      BY <1>1, <2>3, <3>1, <3>2, <3>3 DEF ReadyInv, ReadyMeansUsable, At, can_process
  <2> QED
    BY <1>5, <2>2, <2>3 DEF LaunchLane
<1>6. CASE EndLoop
  <2>1. loop'.pc = "ended" /\ loop.pc = "render" /\ loop'.launched = loop.launched
        /\ UNCHANGED <<lane, host, prepared>>
    BY <1>3, <1>6 DEF EndLoop, At
  <2> QED
    BY <1>1, <1>2, <2>1 DEF ReadyInv, ReadyMeansUsable, At, can_process
<1>7. CASE UNCHANGED <<sandbox, lane, host, loopVars>>
  BY <1>1, <1>2, <1>7 DEF ReadyInv, ReadyMeansUsable, At, can_process, loopVars
<1>8. WorkerNext /\ UNCHANGED loopVars => UNCHANGED <<sandbox, lane, host, loopVars>>
  BY DEF WorkerNext, WorkerConnects, WorkerReceives, WorkerAnswers, WorkerExits, WorkerOnly
<1>9. UNCHANGED laneVars => UNCHANGED <<sandbox, lane, host, loopVars>>
  BY DEF laneVars, sandboxVars
<1>10. ~ClientNext
  BY <1>2, NoClient
<1> QED
  BY <1>4, <1>5, <1>6, <1>7, <1>8, <1>9, <1>10 DEF LaneNext

\* No plug-in runs at first.
LEMMA InitReady == ASSUME LaneInit PROVE ReadyInv
BY DEF LaneInit, SandboxInit, ReadyInv, ReadyMeansUsable, At, can_process, Detached

\* The route of the lane is shown Ready only while the worker runs, the plug-in
\* may be used and the session and the lane are ready (vst3_route_status.hpp:12).
THEOREM ReadyIsUsable == LaneSpec => []ReadyMeansUsable
<1>1. ReadyInv /\ CrashInv => ReadyMeansUsable
  BY DEF ReadyInv, CrashInv, CallPlaced, ReadyMeansUsable, At
<1>2. LaneInit => ReadyInv /\ CrashInv
  BY InitReady, InitCrash
<1>3. ReadyInv /\ CrashInv /\ [LaneNext]_laneVars => ReadyInv' /\ CrashInv'
  BY ReadyStep, CrashStep
<1> QED
  BY <1>1, <1>2, <1>3, PTL DEF LaneSpec

-----------------------------------------------------------------------------
(* The lane: what is pushed into its ring *)

IsSequence(s) == \E S : s \in Seq(S)

\* What may still come for the call, and what may be left of the ones before.
Reply(f) == f.id = call.id /\ (f.type = "ProcessBlockResponse" => f.block = call.block)
Clear(id) == \A i \in 1..Len(toHub) : toHub[i].id # id
Asked == Len(toWorker) = 1 /\ toWorker[1].id = call.id /\ toWorker[1].block = call.block /\ Clear(call.id)
Replied ==
  /\ toWorker = <<>>
  /\ \A i \in 1..Len(toHub) :
       /\ toHub[1].id = call.id => toHub[i].id = call.id
       /\ toHub[i].id = call.id => Reply(toHub[i])

\* Of the host's loop: no answer that is still in the pipe bears the number of
\* the next request, and while a request is open, only its answers bear its number.
PipeInv ==
  owner = "preview" =>
    /\ IsSequence(ring) /\ IsSequence(toHub) /\ IsSequence(toWorker)
    /\ loop.request \in 1..MaxRequest /\ tap.frames \in Nat
    /\ call.op = "wait" => toWorker = <<>> /\ toHub = <<>>
    /\ call.op = "none" /\ can_process => toWorker = <<>> /\ Clear(loop.request)
    /\ call.op \in {"handshake", "process"} => loop.request # call.id /\ (Asked \/ Replied)
    /\ call.op = "process" => call.block # taken /\ call.frames \in Nat

\* Sequences of anything: the empty one, appending, the tail, concatenation.
LEMMA NoneIsSeq == IsSequence(<<>>) /\ Len(<<>>) = 0
<1>1. <<>> \in Seq({}) /\ Len(<<>>) = 0
  OBVIOUS
<1> QED
  BY <1>1 DEF IsSequence

LEMMA AppendIsSeq ==
  ASSUME NEW s, IsSequence(s), NEW e
  PROVE  /\ IsSequence(Append(s, e)) /\ Len(Append(s, e)) = Len(s) + 1 /\ Append(s, e)[Len(s) + 1] = e
         /\ Len(s) \in Nat
<1>1. PICK S : s \in Seq(S)
  BY DEF IsSequence
<1>2. s \in Seq(S \cup {e}) /\ e \in S \cup {e}
  BY <1>1
<1>3. Append(s, e) \in Seq(S \cup {e}) /\ Len(Append(s, e)) = Len(s) + 1 /\ Append(s, e)[Len(s) + 1] = e
  BY <1>2, AppendProperties
<1> QED
  BY <1>1, <1>3 DEF IsSequence

LEMMA TailIsSeq ==
  ASSUME NEW s, IsSequence(s), s # <<>>
  PROVE  /\ IsSequence(Tail(s)) /\ Head(s) = s[1] /\ Len(s) \in Nat \ {0}
         /\ Len(Tail(s)) = Len(s) - 1 /\ \A i \in 1..Len(Tail(s)) : Tail(s)[i] = s[i + 1]
<1>1. PICK S : s \in Seq(S)
  BY DEF IsSequence
<1>2. /\ Tail(s) \in Seq(S) /\ Len(Tail(s)) = Len(s) - 1
      /\ \A i \in 1..Len(Tail(s)) : Tail(s)[i] = s[i + 1]
  BY <1>1, HeadTailProperties
<1>3. Head(s) = s[1] /\ Len(s) \in Nat \ {0}
  BY <1>1
<1> QED
  BY <1>2, <1>3 DEF IsSequence

LEMMA ConcatIsSeq ==
  ASSUME NEW s, IsSequence(s), NEW t, IsSequence(t)
  PROVE  /\ IsSequence(s \o t) /\ Len(s \o t) = Len(s) + Len(t) /\ Len(s) \in Nat /\ Len(t) \in Nat
         /\ \A i \in 1..Len(s \o t) : (s \o t)[i] = IF i <= Len(s) THEN s[i] ELSE t[i - Len(s)]
<1>1. PICK S, T : s \in Seq(S) /\ t \in Seq(T)
  BY DEF IsSequence
<1>2. s \in Seq(S \cup T) /\ t \in Seq(S \cup T)
  BY <1>1
<1>3. /\ s \o t \in Seq(S \cup T) /\ Len(s \o t) = Len(s) + Len(t)
      /\ \A i \in 1..Len(s) + Len(t) : (s \o t)[i] = IF i <= Len(s) THEN s[i] ELSE t[i - Len(s)]
  BY <1>2, ConcatProperties
<1> QED
  BY <1>1, <1>3 DEF IsSequence

\* Every answer the worker may give to a request bears its number, and the
\* processed block among them is the one that was asked for.
Answers(f) == {<<RightAnswer(f)>>} \cup {<<WrongAnswer(f, k)>> : k \in Faults \ {"Twice"}}
              \cup (IF "Twice" \in Faults THEN {<<RightAnswer(f), RightAnswer(f)>>} ELSE {})
Fits(f, answer) == answer.id = f.id /\ (answer.type = "ProcessBlockResponse" => answer.block = f.block)

\* The right answer fits.
LEMMA RightFits == ASSUME NEW f PROVE Fits(f, RightAnswer(f))
BY DEF Fits, RightAnswer, Frame

\* So does every wrong one, in this sense.
LEMMA WrongFits == ASSUME NEW f, NEW k \in Faults \ {"Twice"} PROVE Fits(f, WrongAnswer(f, k))
<1>1. k \in {"Error", "Heartbeat", "Shape", "Garbage", "NonFinite"}
  BY SandboxAssumption
<1>2. CASE k = "Error"
  <2>1. WrongAnswer(f, k) = Frame("Error", f.id, 0, 0)
    BY <1>2, Zenon DEF WrongAnswer
  <2> QED
    BY <2>1 DEF Fits, Frame
<1>3. CASE k = "Heartbeat"
  <2>1. WrongAnswer(f, k) = Frame("Heartbeat", f.id, 0, 0)
    BY <1>3, Zenon DEF WrongAnswer
  <2> QED
    BY <2>1 DEF Fits, Frame
<1>4. CASE k = "Shape"
  <2>1. WrongAnswer(f, k) = [RightAnswer(f) EXCEPT !.frames = f.frames + 1]
    BY <1>4, Zenon DEF WrongAnswer
  <2>2. WrongAnswer(f, k).id = f.id
    BY <2>1 DEF RightAnswer, Frame
  <2>3. WrongAnswer(f, k).type = "ProcessBlockResponse" => WrongAnswer(f, k).block = f.block
    BY <2>1 DEF RightAnswer, Frame
  <2> QED
    BY <2>2, <2>3 DEF Fits
<1>5. CASE k = "Garbage"
  <2>1. WrongAnswer(f, k) = Frame("Undecodable", f.id, 0, 0)
    BY <1>5, Zenon DEF WrongAnswer
  <2> QED
    BY <2>1 DEF Fits, Frame
<1>6. CASE k = "NonFinite"
  <2>1. WrongAnswer(f, k) = Frame("NonFinite", f.id, f.block, f.frames)
    BY <1>6, Zenon DEF WrongAnswer
  <2> QED
    BY <2>1 DEF Fits, Frame
<1> QED
  BY <1>1, <1>2, <1>3, <1>4, <1>5, <1>6

\* What the worker sends for a request.
LEMMA AnswersFit ==
  ASSUME NEW f, NEW answer \in Answers(f)
  PROVE  IsSequence(answer) /\ Len(answer) \in Nat /\ \A i \in 1..Len(answer) : Fits(f, answer[i])
<1>1. ASSUME NEW a, Fits(f, a), answer = <<a>> \/ answer = <<a, a>>
      PROVE  IsSequence(answer) /\ Len(answer) \in Nat /\ \A i \in 1..Len(answer) : Fits(f, answer[i])
  <2>1. answer \in Seq({a}) /\ Len(answer) \in Nat /\ \A i \in 1..Len(answer) : answer[i] = a
    BY <1>1
  <2> QED
    BY <1>1, <2>1 DEF IsSequence
<1>2. CASE answer = <<RightAnswer(f)>> \/ answer = <<RightAnswer(f), RightAnswer(f)>>
  BY <1>1, <1>2, RightFits
<1>3. CASE \E k \in Faults \ {"Twice"} : answer = <<WrongAnswer(f, k)>>
  BY <1>1, <1>3, WrongFits
<1>4. \/ answer = <<RightAnswer(f)>> \/ answer = <<RightAnswer(f), RightAnswer(f)>>
      \/ \E k \in Faults \ {"Twice"} : answer = <<WrongAnswer(f, k)>>
  BY Zenon DEF Answers
<1> QED
  BY <1>2, <1>3, <1>4
\* A sequence of no elements.
LEMMA ZeroIsNone == ASSUME NEW s, IsSequence(s), Len(s) = 0 PROVE s = <<>>
BY DEF IsSequence

\* The worker answers a request that is open, or one of a plug-in that was given up.
LEMMA PipeWorker ==
  ASSUME CrashInv, PipeInv, owner = "preview", WorkerNext, UNCHANGED loopVars PROVE PipeInv'
<1>1. UNCHANGED <<owner, loop, tap, taken, ring, call, host>>
  BY DEF WorkerNext, WorkerConnects, WorkerReceives, WorkerAnswers, WorkerExits, WorkerOnly, loopVars
<1>2. CASE UNCHANGED <<toWorker, toHub>>
  BY <1>1, <1>2 DEF PipeInv, Asked, Replied, Clear, Reply, can_process
<1>3. CASE WorkerAnswers
  <2> DEFINE f == Head(toWorker)
  <2>1. PICK answer \in Answers(f) : toHub' = toHub \o answer
    BY <1>3 DEF WorkerAnswers, Answers
  <2>2. toWorker # <<>> /\ toWorker' = Tail(toWorker)
    BY <1>3 DEF WorkerAnswers
  <2>3. IsSequence(toWorker) /\ IsSequence(toHub)
    BY DEF PipeInv
  <2>4. IsSequence(toWorker') /\ f = toWorker[1] /\ Len(toWorker') = Len(toWorker) - 1
    BY <2>2, <2>3, TailIsSeq
  <2> HIDE DEF f
  <2>5. IsSequence(answer) /\ Len(answer) \in Nat /\ \A i \in 1..Len(answer) : Fits(f, answer[i])
    BY AnswersFit
  <2>6. /\ IsSequence(toHub') /\ Len(toHub') = Len(toHub) + Len(answer) /\ Len(toHub) \in Nat
        /\ \A i \in 1..Len(toHub') : toHub'[i] = IF i <= Len(toHub) THEN toHub[i] ELSE answer[i - Len(toHub)]
    BY <2>1, <2>3, <2>5, ConcatIsSeq
  <2>7. CASE call.op \in {"handshake", "process"}
    <3>1. Asked /\ loop.request # call.id
      BY <2>2, <2>7 DEF PipeInv, Replied
    <3>2. f.id = call.id /\ f.block = call.block /\ Clear(call.id) /\ Len(toWorker) = 1
      BY <2>4, <3>1 DEF Asked
    <3>3. toWorker' = <<>>
      BY <2>4, <3>2, ZeroIsNone
    <3>4. \A i \in 1..Len(toHub') : i > Len(toHub) => Reply(toHub'[i])
      <4>1. TAKE i \in 1..Len(toHub')
      <4>2. HAVE i > Len(toHub)
      <4>3. i - Len(toHub) \in 1..Len(answer) /\ toHub'[i] = answer[i - Len(toHub)]
        BY <2>5, <2>6, <4>2
      <4>4. Fits(f, answer[i - Len(toHub)])
        BY <2>5, <4>3
      <4> QED
        BY <3>2, <4>3, <4>4 DEF Fits, Reply
    <3>5. \A i \in 1..Len(toHub') : i <= Len(toHub) => toHub'[i].id # call.id
      BY <2>6, <3>2 DEF Clear
    <3>6. Replied'
      <4>1. ASSUME NEW i \in 1..Len(toHub')
            PROVE  /\ toHub'[1].id = call.id => toHub'[i].id = call.id
                   /\ toHub'[i].id = call.id => Reply(toHub'[i])
        <5>1. i <= Len(toHub) \/ i > Len(toHub)
          BY <2>6
        <5>2. CASE i > Len(toHub)
          BY <3>4, <5>2 DEF Reply
        <5>3. CASE i <= Len(toHub)
          <6>1. 1 \in 1..Len(toHub') /\ 1 <= Len(toHub)
            BY <2>5, <2>6, <5>3
          <6> QED
            BY <3>5, <5>3, <6>1
        <5> QED
          BY <5>1, <5>2, <5>3
      <4> QED
        BY <1>1, <3>3, <4>1 DEF Replied, Reply
    <3> QED
      BY <1>1, <2>4, <2>6, <2>7, <3>1, <3>6 DEF PipeInv, can_process
  <2>8. CASE call.op \notin {"handshake", "process"}
    <3>1. call.op = "none" /\ ~can_process
      BY <2>2, <2>8 DEF PipeInv, CrashInv, CallPlaced
    <3> QED
      BY <1>1, <2>4, <2>6, <3>1 DEF PipeInv, can_process
  <2> QED
    BY <2>7, <2>8
<1> QED
  BY <1>2, <1>3 DEF WorkerNext, WorkerConnects, WorkerReceives, WorkerExits, KeepPipe

\* A step that leaves the pipe and the call alone.
LEMMA PipeQuiet ==
  ASSUME PipeInv, UNCHANGED <<toWorker, toHub, call, host, owner, taken>>, loop'.request = loop.request,
         IsSequence(ring'), tap'.frames \in Nat
  PROVE  PipeInv'
BY DEF PipeInv, Asked, Replied, Clear, Reply, can_process

\* Of a plug-in that was given up nothing is read any more.
LEMMA PipeGiven ==
  ASSUME owner = "preview", PipeInv, report_crash, call'.op = "none", UNCHANGED <<ring, tap, owner>>, loop'.request = loop.request,
         IsSequence(toHub'), IsSequence(toWorker')
  PROVE  PipeInv'
<1>1. ~can_process'
  BY CrashEnds
<1> QED
  BY <1>1 DEF PipeInv

\* A pipe that holds nothing.
LEMMA PipeClosed ==
  ASSUME owner = "preview", PipeInv, toWorker' = <<>>, toHub' = <<>>, call'.op \in {"none", "wait"},
         UNCHANGED <<ring, tap, owner>>, loop'.request = loop.request
  PROVE  PipeInv'
BY NoneIsSeq DEF PipeInv, Clear

\* The next number is another one.
LEMMA RequestMoves == ASSUME loop.request \in 1..MaxRequest PROVE Request \in 1..MaxRequest /\ Request # loop.request
BY SandboxAssumption DEF Request

\* A request goes out with its number, over a pipe that holds nothing of that number.
LEMMA PipeSend ==
  ASSUME owner = "preview", PipeInv, call.op = "none", can_process, UNCHANGED <<owner, ring, tap, taken>>,
         NEW op \in {"handshake", "process"}, NEW block, NEW frames, Send(op, loop.request, block, frames),
         op = "process" => block # taken /\ frames \in Nat,
         loop'.request = IF call'.op = "none" /\ op = "handshake" THEN loop.request ELSE Request
  PROVE  PipeInv'
<1>1. /\ IsSequence(toHub) /\ IsSequence(toWorker) /\ IsSequence(ring) /\ toWorker = <<>> /\ Clear(loop.request)
      /\ loop.request \in 1..MaxRequest /\ tap.frames \in Nat
  BY DEF PipeInv
<1>2. Request \in 1..MaxRequest /\ Request # loop.request
  BY <1>1, RequestMoves
<1>3. CASE report_crash /\ KeepPipe /\ call' = call
  <2>1. ~can_process'
    BY <1>3, CrashEnds
  <2> QED
    BY <1>1, <1>2, <1>3, <2>1 DEF PipeInv, KeepPipe
<1>4. CASE /\ toWorker' = Append(toWorker, Frame(IF op = "handshake" THEN "Hello" ELSE "ProcessBlock",
                                                 loop.request, block, frames))
           /\ Begin(op, loop.request, block, frames)
           /\ UNCHANGED toHub
  <2> DEFINE frame == Frame(IF op = "handshake" THEN "Hello" ELSE "ProcessBlock", loop.request, block, frames)
  <2>1. frame.id = loop.request /\ frame.block = block
    BY DEF Frame
  <2>2. toWorker' = Append(toWorker, frame)
    BY <1>4
  <2> HIDE DEF frame
  <2>3. IsSequence(toWorker') /\ Len(toWorker') = 1 /\ toWorker'[1] = frame
    <3>1. Len(toWorker) = 0
      BY <1>1
    <3>2. /\ IsSequence(toWorker') /\ Len(toWorker') = Len(toWorker) + 1 /\ toWorker'[Len(toWorker) + 1] = frame
      BY <1>1, <2>2, AppendIsSeq
    <3> QED
      BY <3>1, <3>2
  <2>4. call'.op = op /\ call'.id = loop.request /\ call'.block = block /\ call'.frames = frames
    BY <1>4 DEF Begin
  <2>5. Asked'
    BY <1>1, <1>4, <2>1, <2>3, <2>4 DEF Asked, Clear
  <2>6. loop'.request = Request
    BY <2>4
  <2> QED
    BY <1>1, <1>2, <1>4, <2>3, <2>4, <2>5, <2>6 DEF PipeInv
<1> QED
  BY <1>3, <1>4 DEF Send

\* An answer that is used was the last for its number but for repetitions.
LEMMA PipeAnswered ==
  ASSUME owner = "preview", PipeInv, AnswerUsed, call' = NoCall, UNCHANGED <<owner, tap>>,
         loop'.request = loop.request, IsSequence(ring')
  PROVE  PipeInv'
<1>1. /\ IsSequence(toHub) /\ toHub # <<>> /\ toHub' = Tail(toHub) /\ toWorker' = toWorker /\ IsSequence(toWorker)
      /\ call.op \in {"handshake", "process"} /\ Verdict(Head(toHub)) = "ok"
  BY DEF AnswerUsed, Answered, PipeInv
<1>2. /\ Head(toHub) = toHub[1] /\ IsSequence(toHub') /\ Len(toHub) \in Nat \ {0} /\ Len(toHub') = Len(toHub) - 1
      /\ \A i \in 1..Len(toHub') : toHub'[i] = toHub[i + 1]
  BY <1>1, TailIsSeq
<1>3. toHub[1].id = call.id
  BY <1>1, <1>2 DEF Verdict
<1>4. Replied /\ loop.request # call.id
  <2>1. ~Asked
    BY <1>2, <1>3 DEF Asked, Clear
  <2> QED
    BY <1>1, <2>1 DEF PipeInv
<1>5. \A i \in 1..Len(toHub) : toHub[i].id = call.id
  BY <1>3, <1>4 DEF Replied
<1>6. \A i \in 1..Len(toHub') : toHub'[i].id # loop'.request
  <2>1. TAKE i \in 1..Len(toHub')
  <2>2. i + 1 \in 1..Len(toHub) /\ toHub'[i] = toHub[i + 1]
    BY <1>2
  <2> QED
    BY <1>4, <1>5, <2>2
<1>7. call'.op = "none"
  BY DEF NoCall
<1>8. toWorker' = <<>>
  BY <1>1, <1>4 DEF Replied
<1> QED
  BY <1>1, <1>2, <1>6, <1>7, <1>8 DEF PipeInv, Clear
\* The frames that a block takes out of the ring, or leaves.
LEMMA PoppedIsSeq ==
  ASSUME NEW s, IsSequence(s), NEW n \in Nat, NEW t, t = IF Len(s) >= n THEN SubSeq(s, n + 1, Len(s)) ELSE s
  PROVE  IsSequence(t) /\ Len(t) <= Len(s)
<1>1. PICK S : s \in Seq(S)
  BY DEF IsSequence
<1>2. Len(s) \in Nat /\ \A i \in n + 1..Len(s) : s[i] \in S
  BY <1>1
<1>3. CASE Len(s) >= n
  <2>1. t = SubSeq(s, n + 1, Len(s))
    BY <1>3
  <2>2. t \in Seq(S) /\ Len(t) = IF n + 1 <= Len(s) THEN Len(s) - (n + 1) + 1 ELSE 0
    BY <1>2, <2>1, SubSeqProperties
  <2> QED
    BY <1>2, <2>2 DEF IsSequence
<1>4. CASE ~(Len(s) >= n)
  BY <1>2, <1>4
<1> QED
  BY <1>3, <1>4

\* What a turn adds to the ring is the block of the call, which is a new one.
Pushes ==
  Len(ring') > Len(ring) =>
    /\ \A i \in Len(ring) + 1..Len(ring') : ring'[i] = call.block
    /\ call.block # taken

\* A step that leaves the ring alone.
LEMMA NothingPushed == ASSUME owner = "preview", PipeInv, ring' = ring PROVE IsSequence(ring') /\ Pushes
<1>1. Len(ring) \in Nat /\ IsSequence(ring)
  BY AppendIsSeq DEF PipeInv
<1> QED
  BY <1>1 DEF Pushes

\* The turns of the loop.
LEMMA PipeTurn ==
  ASSUME CrashInv, ReadyInv, PipeInv, owner = "preview", TurnNext, owner' = owner
  PROVE  PipeInv' /\ Pushes
<1>1. /\ DOMAIN loop = {"pc", "requested", "launched", "request", "start", "processed", "failed"}
      /\ NoCall.op = "none" /\ IsSequence(toHub) /\ IsSequence(toWorker) /\ tap.frames \in Nat
  BY DEF CrashInv, CallPlaced, NoCall, PipeInv
<1>2. CASE RenderBlock
  <2>1. CASE UNCHANGED <<tap, ring>>
    <3>1. UNCHANGED <<toWorker, toHub, call, host, taken>> /\ loop'.request = loop.request
      BY <1>1, <1>2 DEF RenderBlock, sandboxVars
    <3> QED
      BY <1>1, <2>1, <3>1, NothingPushed, PipeQuiet
  <2>2. CASE \E n \in Sizes : tap' = [name |-> FreeName, frames |-> n] /\ ring' = Popped(n)
    <3>1. PICK n \in Sizes : tap' = [name |-> FreeName, frames |-> n] /\ ring' = Popped(n)
      BY <2>2
    <3>2. n \in Nat /\ tap'.frames = n
      BY <3>1, SandboxAssumption
    <3>3. IsSequence(ring)
      BY DEF PipeInv
    <3>4. IsSequence(ring') /\ Len(ring') <= Len(ring)
      BY <3>1, <3>2, <3>3, PoppedIsSeq DEF Popped
    <3>5. UNCHANGED <<toWorker, toHub, call, host, taken>> /\ loop'.request = loop.request
      BY <1>1, <1>2 DEF RenderBlock, sandboxVars
    <3>6. Len(ring) \in Nat /\ Len(ring') \in Nat
      BY <3>3, <3>4, AppendIsSeq
    <3> QED
      BY <3>2, <3>4, <3>5, <3>6, PipeQuiet DEF Pushes
  <2> QED
    BY <1>2, <2>1, <2>2 DEF RenderBlock
<1>3. CASE RenderNothing \/ LaneIdle \/ PublishStatus
  <2>1. UNCHANGED <<toWorker, toHub, call, host, taken, tap, ring>> /\ loop'.request = loop.request
    BY <1>1, <1>3 DEF RenderNothing, LaneIdle, PublishStatus, sandboxVars
  <2> QED
    BY <1>1, <2>1, NothingPushed, PipeQuiet
<1>4. CASE LaneConnected
  <2>1. call.op = "wait" /\ call' = NoCall /\ UNCHANGED <<toWorker, toHub, tap, ring>> /\ loop'.request = loop.request
    BY <1>1, <1>4 DEF LaneConnected, WaitEnds
  <2>2. toWorker = <<>> /\ toHub = <<>>
    BY <2>1 DEF PipeInv
  <2> QED
    BY <1>1, <2>1, <2>2, NothingPushed, PipeClosed
<1>5. CASE LaneNotConnected \/ BlockRefused
  <2>1. /\ report_crash /\ call'.op = "none" /\ UNCHANGED <<toWorker, toHub, tap, ring>> /\ loop'.request = loop.request
    BY <1>1, <1>5 DEF LaneNotConnected, BlockRefused, WaitEnds, Exchanging, GiveUpLane
  <2> QED
    BY <1>1, <2>1, NothingPushed, PipeGiven
<1>6. CASE HelloFails \/ BlockFails
  <2>1. /\ report_crash /\ call'.op = "none" /\ UNCHANGED <<toWorker, tap, ring>> /\ loop'.request = loop.request
        /\ toHub' = toHub \/ (toHub # <<>> /\ toHub' = Tail(toHub))
    <3>1. ExchangeFails /\ UNCHANGED <<tap, ring>> /\ loop'.request = loop.request
      BY <1>1, <1>6 DEF HelloFails, BlockFails, GiveUpLane
    <3>2. report_crash /\ call'.op = "none" /\ toWorker' = toWorker
      BY <1>1, <3>1 DEF ExchangeFails
    <3>3. toHub' = toHub \/ (toHub # <<>> /\ toHub' = Tail(toHub))
      BY <3>1 DEF ExchangeFails, Answered
    <3> QED
      BY <3>1, <3>2, <3>3
  <2>2. IsSequence(toHub')
    BY <1>1, <2>1, TailIsSeq
  <2> QED
    BY <1>1, <2>1, <2>2, NothingPushed, PipeGiven
<1>7. CASE RingRefuses
  <2>1. /\ report_crash /\ call'.op = "none" /\ UNCHANGED <<toWorker, tap, ring>> /\ loop'.request = loop.request
        /\ toHub # <<>> /\ toHub' = Tail(toHub)
    BY <1>1, <1>7 DEF RingRefuses, Answered, GiveUpLane
  <2>2. IsSequence(toHub')
    BY <1>1, <2>1, TailIsSeq
  <2> QED
    BY <1>1, <2>1, <2>2, NothingPushed, PipeGiven
<1>8. CASE SendHello
  <2>1. /\ Send("handshake", loop.request, 0, 0) /\ call.op = "none" /\ UNCHANGED <<tap, taken, ring>> /\ can_process
        /\ loop' = IF call'.op = "none" THEN GiveUpLane ELSE [loop EXCEPT !.request = Request]
    BY <1>8 DEF SendHello, At, ReadyInv
  <2>2. loop'.request = IF call'.op = "none" THEN loop.request ELSE Request
    BY <1>1, <2>1 DEF GiveUpLane
  <2>3. PipeInv'
    BY <2>1, <2>2, PipeSend
  <2> QED
    BY <2>1, <2>3, NothingPushed
<1>9. CASE SendBlock
  <2>1. /\ Send("process", loop.request, tap.name, tap.frames) /\ call.op = "none" /\ UNCHANGED <<tap, taken, ring>>
        /\ can_process /\ tap.name # taken
        /\ loop' = [loop EXCEPT !.request = Request,
                                !.pc = IF call'.op = "none" THEN "status" ELSE "block",
                                !.failed = @ \/ call'.op = "none"]
    BY <1>9 DEF SendBlock, Exchanging, Unread
  <2>2. loop'.request = Request
    BY <1>1, <2>1
  <2>3. PipeInv'
    BY <1>1, <2>1, <2>2, PipeSend
  <2> QED
    BY <2>1, <2>3, NothingPushed
<1>10. CASE HelloAnswered
  <2>1. AnswerUsed /\ call' = NoCall /\ UNCHANGED <<tap, ring>> /\ loop'.request = loop.request
    BY <1>1, <1>10 DEF HelloAnswered
  <2> QED
    BY <2>1, NothingPushed, PipeAnswered
<1>11. CASE BlockAnswered
  <2> DEFINE block == Head(toHub).block
             pushed == [i \in 1..call.frames |-> block]
  <2>1. /\ AnswerUsed /\ call' = NoCall /\ tap' = tap /\ loop'.request = loop.request
        /\ ring' = ring \o pushed /\ loop.pc = "block"
    BY <1>1, <1>11 DEF BlockAnswered, Progressed, At
  <2>2. call.op = "process" /\ toHub # <<>> /\ Verdict(Head(toHub)) = "ok"
    BY <2>1 DEF AnswerUsed, Answered, CrashInv, CallPlaced
  <2>3. call.block # taken /\ call.frames \in Nat /\ IsSequence(ring)
    BY <2>2 DEF PipeInv
  <2>4. pushed \in Seq({block}) /\ \A i \in 1..Len(pushed) : pushed[i] = block
    BY <2>3
  <2>5. block = call.block
    <3>1. Head(toHub) = toHub[1] /\ Len(toHub) \in Nat \ {0}
      BY <1>1, <2>2, TailIsSeq
    <3>2. toHub[1].id = call.id /\ toHub[1].type = "ProcessBlockResponse"
      BY <2>2, <3>1 DEF Verdict
    <3>3. ~Asked
      BY <3>1, <3>2 DEF Asked, Clear
    <3>4. Replied
      BY <2>2, <3>3 DEF PipeInv
    <3>5. Reply(toHub[1])
      BY <3>1, <3>2, <3>4 DEF Replied
    <3> QED
      BY <3>1, <3>2, <3>5 DEF Reply
  <2> HIDE DEF block, pushed
  <2>6. IsSequence(pushed)
    BY <2>4 DEF IsSequence
  <2>7. /\ IsSequence(ring') /\ Len(ring') = Len(ring) + Len(pushed) /\ Len(ring) \in Nat /\ Len(pushed) \in Nat
        /\ \A i \in 1..Len(ring') : ring'[i] = IF i <= Len(ring) THEN ring[i] ELSE pushed[i - Len(ring)]
    BY <2>1, <2>3, <2>6, ConcatIsSeq
  <2>8. \A i \in Len(ring) + 1..Len(ring') : ring'[i] = call.block
    <3>1. TAKE i \in Len(ring) + 1..Len(ring')
    <3>2. i - Len(ring) \in 1..Len(pushed) /\ i \in 1..Len(ring') /\ ~(i <= Len(ring))
      BY <2>7
    <3> QED
      BY <2>4, <2>5, <2>7, <3>2
  <2>9. PipeInv'
    BY <2>1, <2>7, PipeAnswered
  <2> QED
    BY <2>3, <2>8, <2>9 DEF Pushes
<1> QED
  BY <1>2, <1>3, <1>4, <1>5, <1>6, <1>7, <1>8, <1>9, <1>10, <1>11 DEF TurnNext

\* Every step; a client leaves the ring alone.
LEMMA PipeStep ==
  ASSUME CrashInv, ReadyInv, PipeInv, [LaneNext]_laneVars
  PROVE  PipeInv' /\ (owner = "preview" => Pushes) /\ (owner # "preview" => ring' = ring)
<1>1. owner' = owner
  BY OwnerStays
<1>2. CASE owner # "preview"
  <2>1. ring' = ring
    BY <1>2 DEF LaneNext, TurnNext, RenderBlock, RenderNothing, LaneConnected, LaneNotConnected, SendHello,
                HelloAnswered, HelloFails, LaneIdle, BlockRefused, SendBlock, BlockFails, BlockAnswered,
                RingRefuses, PublishStatus, LaunchLane, NotLaunched, EndLoop, Exchanging, At,
                ClientNext, ClientLaunch, ClientStop, ClientStart, ClientWait, ClientExchangeRefused,
                ClientSend, ClientAnswered, ClientWatches, Tick, Client, loopVars, laneVars
  <2> QED
    BY <1>1, <1>2, <2>1 DEF PipeInv
<1>3. CASE owner = "preview" /\ TurnNext
  BY <1>1, <1>3, PipeTurn
<1>4. CASE owner = "preview" /\ LaunchLane
  <2>1. /\ toWorker' = <<>> /\ toHub' = <<>> /\ UNCHANGED <<ring, tap>> /\ call'.op \in {"none", "wait"}
    <3>1. UNCHANGED <<tap, ring>>
      BY <1>4 DEF LaunchLane
    <3>2. call.op = "none"
      BY <1>4 DEF LaunchLane
    <3>3. CASE LaunchFails /\ call' = call
      BY <3>1, <3>2, <3>3 DEF LaunchFails, ClosePipe
    <3>4. CASE LaunchWorks /\ Begin("wait", 0, 0, 0)
      BY <3>1, <3>4 DEF LaunchWorks, Begin
    <3> QED
      BY <1>4, <3>3, <3>4 DEF LaunchLane
  <2>2. loop'.request = loop.request
    BY <1>4 DEF LaunchLane, CrashInv, CallPlaced
  <2> QED
    BY <1>1, <1>4, <2>1, <2>2, NothingPushed, PipeClosed
<1>5. CASE owner = "preview" /\ EndLoop
  <2>1. /\ toWorker' = <<>> /\ toHub' = <<>> /\ UNCHANGED <<ring, tap>> /\ call'.op \in {"none", "wait"}
        /\ loop'.request = loop.request
    BY <1>5 DEF EndLoop, StopSandbox, ClosePipe, CrashInv, CallPlaced, At
  <2> QED
    BY <1>1, <1>5, <2>1, NothingPushed, PipeClosed
<1>6. CASE owner = "preview" /\ WorkerNext /\ UNCHANGED loopVars
  <2>1. ring' = ring
    BY <1>6 DEF loopVars
  <2> QED
    BY <1>6, <2>1, NothingPushed, PipeWorker
<1>7. CASE owner = "preview" /\ UNCHANGED laneVars
  <2>1. UNCHANGED <<toWorker, toHub, call, host, owner, taken, ring, tap, loop>>
    BY <1>7 DEF laneVars, sandboxVars, loopVars
  <2>2. tap.frames \in Nat
    BY <1>7 DEF PipeInv
  <2> QED
    BY <1>7, <2>1, <2>2, NothingPushed, PipeQuiet
<1> QED
  BY <1>2, <1>3, <1>4, <1>5, <1>6, <1>7, NoClient DEF LaneNext

\* The pipe is empty at first.
LEMMA InitPipe == ASSUME LaneInit PROVE PipeInv
BY NoneIsSeq, SandboxAssumption DEF LaneInit, SandboxInit, PipeInv, Clear, NoLaneBlock, NoCall

\* What the loop pushes into the lane ring is the worker's answer to the block it read
\* from the tap in this exchange, and no block is pushed twice, whatever wrong or
\* repeated answers the worker gives (engine_preview.cpp:2213-2232).
THEOREM AnswersInTheirPlace == LaneSpec => LaneCarriesAnswers
<1> DEFINE LInv == CrashInv /\ ReadyInv /\ PipeInv
<1>1. LaneInit => LInv
  BY InitReady, InitCrash, InitPipe
<1>2. LInv /\ [LaneNext]_laneVars => LInv'
  BY ReadyStep, CrashStep, PipeStep
<1>3. LInv /\ [LaneNext]_laneVars => Pushes
  <2>1. SUFFICES ASSUME LInv, [LaneNext]_laneVars PROVE Pushes
    OBVIOUS
  <2>2. CASE owner # "preview"
    <3>1. ring' = ring
      BY <2>1, <2>2, PipeStep
    <3> QED
      BY <3>1 DEF Pushes
  <2> QED
    BY <2>1, <2>2, PipeStep
<1>4. LaneSpec => [](LInv)
  BY <1>1, <1>2, PTL DEF LaneSpec
<1>5. LaneSpec => [][Pushes]_laneVars
  BY <1>3, <1>4, PTL DEF LaneSpec
<1> QED
  BY <1>5 DEF LaneCarriesAnswers, Pushes
=============================================================================

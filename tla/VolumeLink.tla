------------------------------ MODULE VolumeLink ------------------------------
(***************************************************************************)
(* The opt-in link between the volume of the default Windows endpoint and  *)
(* that of output group "main".                                            *)
(*                                                                         *)
(* Windows calls OnNotify on its own threads for every change of the       *)
(* endpoint; the callback copies the change into a cell guarded by a       *)
(* sequence number, which is odd during the copy.  The host loop of the    *)
(* engine preview does the rest, one step after another (hpc): it rebinds  *)
(* to the default endpoint, takes the newest notification out of the cell, *)
(* drains the volume commands of the client, and writes the volume of the  *)
(* group back to the endpoint when it changed.                             *)
(*                                                                         *)
(* The endpoint is external: changes by the user, the delivery of          *)
(* notifications, the default device and the failures of COM calls are     *)
(* what Windows may do.  Budgets bounds how often such events happen.      *)
(***************************************************************************)
EXTENDS Integers, Sequences

CONSTANTS
  Endpoints, NoEndpoint,
  Levels,      \* dB values
  Ceiling,     \* safety_ceiling_db (0 dB in the code)
  DefaultLevel,\* requested_db of a fresh group (-60 dB)
  Callers,     \* Windows threads that may be inside OnNotify
  Attempts,    \* tries of WindowsVolumeCallback::read (4 in the code)
  NoState,     \* !have_last_engine_state
  Budgets      \* how many user, ui, fails and rebinds events there may be

Volumes == [db : Levels, mute : BOOLEAN]
States  == [db : Levels, mute : BOOLEAN, gen : Nat]
Notes   == [mute : BOOLEAN, ctx : {"user", "self"}]

\* The locals of a call that is not running.
NoCall == [pc |-> "idle", seen |-> 0, note |-> NoEndpoint]
NoRead == [first |-> 0, mute |-> FALSE, ctx |-> "user", tries |-> 0]

ASSUME VolumeLinkAssumption ==
  /\ Levels \subseteq Int /\ Ceiling \in Levels /\ DefaultLevel \in Levels
  /\ Attempts \in Nat \ {0}
  /\ NoEndpoint \notin Endpoints /\ NoState \notin States
  /\ Budgets \subseteq [{"user", "ui", "fails", "rebinds"} -> Nat]

VARIABLES
  ep, def,   \* each endpoint's level and mute; the default endpoint
  notes,     \* changes of the bound endpoint Windows has yet to report
  seq, cell, \* sequence_; the mute and context stored in the callback object
  cb,        \* each caller's step in OnNotify, sequence it loaded, its note
  claimed,   \* history: the notes that were stored, the k-th at sequence 2k
  bound, lastSeq, gen, \* the broker: endpoint_, last_callback_sequence_, generation_
  hpc,       \* the step of the host loop
  rd,        \* locals of read: first, mute, ctx and the attempts made
  pair,      \* locals of read_state and write: the endpoint's level and mute
  vol,       \* requested_db, mute and generation of group "main"
  origin,    \* history: who set vol last, "windows" or "ui"
  last,      \* last_engine_state
  waiting,   \* next_volume_write lies in the future
  commands,     \* volume commands in the control queue
  uiGen,     \* the client's _generation
  spent      \* how often the bounded events have happened

windows == <<ep, def, notes>>
callback == <<seq, cell, cb, claimed>>
broker == <<bound, lastSeq, gen>>
group == <<vol, origin, last, waiting>>
client == <<commands, uiGen>>
linkVars == <<windows, callback, broker, hpc, rd, pair, group, client, spent>>

Effective(db) == IF db < Ceiling THEN db ELSE Ceiling

\* One more event of a kind, if one of the budgets allows for it.
Spend(what) ==
  /\ spent' = [spent EXCEPT ![what] = @ + 1]
  /\ \E b \in Budgets : \A k \in DOMAIN spent : spent'[k] <= b[k]
MayFail == Spend("fails")

-----------------------------------------------------------------------------
(* Windows *)

\* A change of endpoint e; the bound endpoint reports it if it is one.
SetEndpoint(e, v, ctx) ==
  /\ ep' = [ep EXCEPT ![e] = v]
  /\ notes' = IF e = bound /\ v # ep[e]
              THEN Append(notes, [mute |-> v.mute, ctx |-> ctx]) ELSE notes
  /\ UNCHANGED def

UserChange(v) ==
  /\ Spend("user")
  /\ v # ep[def] /\ SetEndpoint(def, v, "user")
  /\ UNCHANGED <<callback, broker, hpc, rd, pair, group, client>>

SwitchDefault(e) ==
  /\ Spend("rebinds")
  /\ e # def /\ def' = e
  /\ UNCHANGED <<ep, notes, callback, broker, hpc, rd, pair, group, client>>

-----------------------------------------------------------------------------
(* WindowsVolumeCallback::OnNotify *)

Deliver(c) ==
  /\ cb[c].pc = "idle" /\ notes # <<>>
  /\ cb' = [cb EXCEPT ![c] = [pc |-> "claim", seen |-> seq, note |-> Head(notes)]]
  /\ notes' = Tail(notes)
  /\ UNCHANGED <<ep, def, seq, cell, claimed, broker, hpc, rd, pair, group, client, spent>>

Claim(c) ==
  /\ cb[c].pc = "claim"
  /\ seq = cb[c].seen /\ seq % 2 = 0
  /\ seq' = seq + 1 /\ claimed' = Append(claimed, cb[c].note)
  /\ cb' = [cb EXCEPT ![c].pc = "mute"]
  /\ UNCHANGED <<windows, cell, broker, hpc, rd, pair, group, client, spent>>

\* Another caller holds the cell, or has claimed it since: drop the change.
DropContended(c) ==
  /\ cb[c].pc = "claim"
  /\ seq # cb[c].seen \/ cb[c].seen % 2 = 1
  /\ cb' = [cb EXCEPT ![c] = NoCall]
  /\ UNCHANGED <<windows, seq, cell, claimed, broker, hpc, rd, pair, group, client, spent>>

StoreMute(c) ==
  /\ cb[c].pc = "mute"
  /\ cell' = [cell EXCEPT !.mute = cb[c].note.mute]
  /\ cb' = [cb EXCEPT ![c].pc = "context"]
  /\ UNCHANGED <<windows, seq, claimed, broker, hpc, rd, pair, group, client, spent>>

StoreContext(c) ==
  /\ cb[c].pc = "context"
  /\ cell' = [cell EXCEPT !.ctx = cb[c].note.ctx]
  /\ cb' = [cb EXCEPT ![c].pc = "release"]
  /\ UNCHANGED <<windows, seq, claimed, broker, hpc, rd, pair, group, client, spent>>

ReleaseCell(c) ==
  /\ cb[c].pc = "release"
  /\ seq' = cb[c].seen + 2
  /\ cb' = [cb EXCEPT ![c] = NoCall]
  /\ UNCHANGED <<windows, cell, claimed, broker, hpc, rd, pair, group, client, spent>>

OnNotify(c) == \/ Deliver(c) \/ Claim(c) \/ DropContended(c)
               \/ StoreMute(c) \/ StoreContext(c) \/ ReleaseCell(c)

-----------------------------------------------------------------------------
(* The host loop: bind to the default endpoint and read it *)

\* Unregistering the callback ends the reports of the old endpoint, except
\* those a caller has already entered OnNotify with.
Rebound(e) == bound' = e /\ lastSeq' = 0 /\ notes' = <<>>

\* Not due, or still the same endpoint.
KeepBinding ==
  /\ hpc = "rebind" /\ hpc' = "load"
  /\ UNCHANGED <<windows, callback, broker, rd, pair, group, client, spent>>

\* There is no default endpoint, or it cannot be activated.
LoseBinding ==
  /\ hpc = "rebind" /\ bound # NoEndpoint
  /\ Spend("rebinds")
  /\ Rebound(NoEndpoint) /\ hpc' = "load"
  /\ UNCHANGED <<ep, def, callback, gen, rd, pair, group, client>>

Bind ==
  /\ hpc = "rebind" /\ bound # def
  /\ Rebound(def) /\ hpc' = "readLevel"
  /\ UNCHANGED <<ep, def, callback, gen, rd, pair, group, client, spent>>

ReadLevel ==
  /\ hpc = "readLevel"
  /\ pair' = [pair EXCEPT !.db = ep[bound].db] /\ hpc' = "readMute"
  /\ UNCHANGED <<windows, callback, broker, rd, group, client, spent>>

\* apply_windows_notification: an older generation is stale, an equal one not.
Accepts(n) == n.gen >= vol.gen

\* Mutant: last_engine_state is not brought up to date.
ReadForgotten ==
  /\ hpc = "readMute"
  /\ gen' = gen + 1
  /\ LET n == [db |-> pair.db, mute |-> ep[bound].mute, gen |-> gen + 1] IN
     IF Accepts(n) THEN vol' = n /\ origin' = "windows" ELSE UNCHANGED <<vol, origin>>
  /\ hpc' = "load"
  /\ UNCHANGED <<windows, callback, bound, lastSeq, rd, pair, last, waiting, client, spent>>

\* read_state, and the engine takes the pair unless it is stale.
ReadMute ==
  /\ hpc = "readMute"
  /\ gen' = gen + 1
  /\ LET n == [db |-> pair.db, mute |-> ep[bound].mute, gen |-> gen + 1] IN
     IF Accepts(n) THEN vol' = n /\ last' = n /\ origin' = "windows"
     ELSE UNCHANGED <<vol, last, origin>>
  /\ hpc' = "load"
  /\ UNCHANGED <<windows, callback, bound, lastSeq, rd, pair, waiting, client, spent>>

FailRead ==
  /\ hpc \in {"readLevel", "readMute"} /\ MayFail /\ hpc' = "load"
  /\ UNCHANGED <<windows, callback, broker, rd, pair, group, client>>

-----------------------------------------------------------------------------
(* The host loop: WindowsVolumeBroker::poll and WindowsVolumeLinkV1::apply *)

SkipPoll ==
  /\ hpc = "load" /\ bound = NoEndpoint /\ hpc' = "drain"
  /\ UNCHANGED <<windows, callback, broker, rd, pair, group, client, spent>>

EndPoll == rd' = NoRead /\ hpc' = "drain"

\* An attempt failed: try again from the start, or give up.
TryAgain ==
  IF rd.tries + 1 < Attempts
  THEN rd' = [rd EXCEPT !.tries = @ + 1] /\ hpc' = "load"
  ELSE EndPoll

LoadSequence ==
  /\ hpc = "load" /\ bound # NoEndpoint
  /\ IF seq % 2 = 1 THEN TryAgain
     ELSE rd' = [rd EXCEPT !.first = seq] /\ hpc' = "copyMute"
  /\ UNCHANGED <<windows, callback, broker, pair, group, client, spent>>

CopyMute ==
  /\ hpc = "copyMute"
  /\ rd' = [rd EXCEPT !.mute = cell.mute] /\ hpc' = "copyContext"
  /\ UNCHANGED <<windows, callback, broker, pair, group, client, spent>>

CopyContext ==
  /\ hpc = "copyContext"
  /\ rd' = [rd EXCEPT !.ctx = cell.ctx] /\ hpc' = "recheck"
  /\ UNCHANGED <<windows, callback, broker, pair, group, client, spent>>

\* Mutant: the sequence is not compared again.
RecheckNothing ==
  /\ hpc = "recheck"
  /\ IF rd.first \in {0, lastSeq} THEN EndPoll ELSE hpc' = "level" /\ UNCHANGED rd
  /\ UNCHANGED <<windows, callback, broker, pair, group, client, spent>>

\* A copy during which the sequence stood still is whole; it is polled further
\* only if it is not the one taken last.
Recheck ==
  /\ hpc = "recheck"
  /\ IF seq # rd.first THEN TryAgain
     ELSE IF rd.first \in {0, lastSeq} THEN EndPoll
     ELSE hpc' = "level" /\ UNCHANGED rd
  /\ UNCHANGED <<windows, callback, broker, pair, group, client, spent>>

\* The level comes from the endpoint.  A change of Hibiki's own is ignored,
\* any other goes to the engine; last_engine_state follows in either case.
PollLevel ==
  /\ hpc = "level"
  /\ lastSeq' = rd.first /\ gen' = gen + 1
  /\ LET n == [db |-> ep[bound].db, mute |-> rd.mute, gen |-> gen + 1] IN
     IF rd.ctx # "self" /\ Accepts(n) THEN vol' = n /\ last' = n /\ origin' = "windows"
     ELSE last' = vol /\ UNCHANGED <<vol, origin>>
  /\ EndPoll
  /\ UNCHANGED <<windows, callback, bound, pair, waiting, client, spent>>

\* Mutant: the notification is consumed before its level is read.
FailConsumed ==
  /\ hpc = "level" /\ MayFail /\ EndPoll /\ lastSeq' = rd.first
  /\ UNCHANGED <<windows, callback, bound, gen, pair, group, client>>

\* Without a level the notification is not consumed.
FailLevel ==
  /\ hpc = "level" /\ MayFail /\ EndPoll
  /\ UNCHANGED <<windows, callback, broker, pair, group, client>>

-----------------------------------------------------------------------------
(* The host loop: drain the client's commands and write back *)

DrainCommand ==
  /\ hpc = "drain" /\ commands # <<>>
  /\ commands' = Tail(commands)
  /\ IF Accepts(Head(commands)) THEN vol' = Head(commands) /\ origin' = "ui"
     ELSE UNCHANGED <<vol, origin>>
  /\ UNCHANGED <<windows, callback, broker, hpc, rd, pair, last, waiting, uiGen, spent>>

\* The drain takes at most as many commands as the queue holds.
EndDrain ==
  /\ hpc = "drain" /\ commands = <<>> /\ hpc' = "write"
  /\ UNCHANGED <<windows, callback, broker, rd, pair, group, client, spent>>

\* Mutant: a change of the mute alone is not noticed.
WriteLevelDue == bound # NoEndpoint /\ last # NoState /\ ~waiting /\ vol.db # last.db

WriteDue == bound # NoEndpoint /\ last # NoState /\ ~waiting /\ vol # last

SkipWrite ==
  /\ hpc = "write" /\ ~WriteDue /\ hpc' = "rebind"
  /\ UNCHANGED <<windows, callback, broker, rd, pair, group, client, spent>>

SaveLevel ==
  /\ hpc = "write" /\ WriteDue
  /\ pair' = [pair EXCEPT !.db = ep[bound].db] /\ hpc' = "saveMute"
  /\ UNCHANGED <<windows, callback, broker, rd, group, client, spent>>

SaveMute ==
  /\ hpc = "saveMute"
  /\ pair' = [pair EXCEPT !.mute = ep[bound].mute] /\ hpc' = "setLevel"
  /\ UNCHANGED <<windows, callback, broker, rd, group, client, spent>>

SetLevel ==
  /\ hpc = "setLevel" /\ hpc' = "setMute"
  /\ SetEndpoint(bound, [ep[bound] EXCEPT !.db = Effective(vol.db)], "self")
  /\ UNCHANGED <<callback, broker, rd, pair, group, client, spent>>

SetMute ==
  /\ hpc = "setMute" /\ hpc' = "rebind"
  /\ SetEndpoint(bound, [ep[bound] EXCEPT !.mute = vol.mute], "self")
  /\ last' = vol
  /\ UNCHANGED <<callback, broker, rd, pair, vol, origin, waiting, client, spent>>

\* Nothing was changed yet; a device that is gone is unbound, too.
FailSave ==
  /\ hpc \in {"write", "saveMute"} /\ WriteDue /\ MayFail
  /\ waiting' = TRUE /\ hpc' = "rebind"
  /\ Rebound(NoEndpoint) \/ UNCHANGED <<bound, lastSeq, notes>>
  /\ UNCHANGED <<ep, def, callback, gen, rd, pair, vol, origin, last, client>>

FailSet ==
  /\ hpc \in {"setLevel", "setMute"} /\ MayFail /\ hpc' = "restoreLevel"
  /\ UNCHANGED <<windows, callback, broker, rd, pair, group, client>>

\* restore_and_verify.  Its result changes only which error is returned: a device
\* that is gone fails the restore too, so the write returns E_FAIL and the
\* endpoint stays bound.
RestoreLevel ==
  /\ hpc = "restoreLevel" /\ hpc' = "restoreMute"
  /\ \/ SetEndpoint(bound, [ep[bound] EXCEPT !.db = pair.db], "self") /\ UNCHANGED spent
     \/ MayFail /\ UNCHANGED windows
  /\ UNCHANGED <<callback, broker, rd, pair, group, client>>

RestoreMute ==
  /\ hpc = "restoreMute" /\ hpc' = "rebind" /\ waiting' = TRUE
  /\ \/ SetEndpoint(bound, [ep[bound] EXCEPT !.mute = pair.mute], "self") /\ UNCHANGED spent
     \/ MayFail /\ UNCHANGED windows
  /\ UNCHANGED <<callback, broker, rd, pair, vol, origin, last, client>>

\* 100 ms have passed since the failed write.
RetryDue ==
  /\ waiting /\ waiting' = FALSE
  /\ UNCHANGED <<windows, callback, broker, hpc, rd, pair, vol, origin, last, client, spent>>

-----------------------------------------------------------------------------
(* The client (EasyControlViewModel) *)

\* BuildVolumeCommand, acknowledged once it is queued.
UiCommand(v) ==
  /\ Spend("ui")
  /\ uiGen' = uiGen + 1
  /\ commands' = Append(commands, [db |-> v.db, mute |-> v.mute, gen |-> uiGen + 1])
  /\ UNCHANGED <<windows, callback, broker, hpc, rd, pair, group>>

\* ApplyVolumeSafetyState: adopt the volume of a status frame unless it is older.
UiRefresh ==
  /\ vol.gen > uiGen /\ uiGen' = vol.gen
  /\ UNCHANGED <<windows, callback, broker, hpc, rd, pair, group, commands, spent>>

-----------------------------------------------------------------------------
\* At the start the host binds to the default endpoint and takes its volume,
\* or it stays unbound with the volume of a fresh group.
LinkInit ==
  /\ ep \in [Endpoints -> Volumes] /\ def \in Endpoints
  /\ notes = <<>> /\ seq = 0 /\ cell = [mute |-> FALSE, ctx |-> "user"]
  /\ cb = [c \in Callers |-> NoCall]
  /\ claimed = <<>> /\ lastSeq = 0
  /\ \/ /\ bound = def /\ gen = 1
        /\ vol = [db |-> ep[def].db, mute |-> ep[def].mute, gen |-> 1] /\ last = vol
     \/ /\ bound = NoEndpoint /\ gen = 0
        /\ vol = [db |-> DefaultLevel, mute |-> FALSE, gen |-> 0] /\ last = NoState
  /\ hpc = "rebind" /\ rd = NoRead
  /\ pair = [db |-> DefaultLevel, mute |-> FALSE]
  /\ origin = "windows" /\ waiting = FALSE /\ commands = <<>> /\ uiGen = 0
  /\ spent = [user |-> 0, ui |-> 0, fails |-> 0, rebinds |-> 0]

Rebind == KeepBinding \/ LoseBinding \/ Bind \/ ReadLevel \/ ReadMute \/ FailRead

Poll == \/ SkipPoll \/ LoadSequence \/ CopyMute \/ CopyContext \/ Recheck
        \/ PollLevel \/ FailLevel

Write == \/ SkipWrite \/ SaveLevel \/ SaveMute \/ SetLevel \/ SetMute
         \/ FailSave \/ FailSet \/ RestoreLevel \/ RestoreMute

Host == Rebind \/ Poll \/ DrainCommand \/ EndDrain \/ Write

LinkNext ==
  \/ \E v \in Volumes : UserChange(v) \/ UiCommand(v)
  \/ \E e \in Endpoints : SwitchDefault(e)
  \/ \E c \in Callers : OnNotify(c)
  \/ Host \/ RetryDue \/ UiRefresh

LinkSpec == LinkInit /\ [][LinkNext]_linkVars

\* The loop keeps running, and binds when the 250 ms are over; Windows delivers
\* what it has to report; time passes.
LinkFairSpec ==
  /\ LinkSpec
  /\ WF_linkVars(Host) /\ SF_linkVars(Bind) /\ WF_linkVars(RetryDue)
  /\ \A c \in Callers : WF_linkVars(OnNotify(c))

-----------------------------------------------------------------------------
(* Properties *)

LinkTypeOK ==
  /\ ep \in [Endpoints -> Volumes] /\ def \in Endpoints
  /\ notes \in Seq(Notes)
  /\ seq \in Nat /\ cell \in [mute : BOOLEAN, ctx : {"user", "self"}]
  /\ cb \in [Callers -> [pc : {"idle", "claim", "mute", "context", "release"},
                         seen : Nat, note : Notes \cup {NoEndpoint}]]
  /\ claimed \in Seq(Notes)
  /\ bound \in Endpoints \cup {NoEndpoint} /\ lastSeq \in Nat /\ gen \in Nat
  /\ hpc \in {"rebind", "readLevel", "readMute", "load", "copyMute", "copyContext",
              "recheck", "level", "drain", "write", "saveMute", "setLevel", "setMute",
              "restoreLevel", "restoreMute"}
  /\ rd \in [first : Nat, mute : BOOLEAN, ctx : {"user", "self"}, tries : 0..Attempts - 1]
  /\ pair \in Volumes /\ vol \in States /\ origin \in {"windows", "ui"}
  /\ last \in States \cup {NoState} /\ waiting \in BOOLEAN
  /\ commands \in Seq(States) /\ uiGen \in Nat
  /\ spent \in [{"user", "ui", "fails", "rebinds"} -> Nat]

\* What poll takes out of the cell is one notification as Windows sent it, never
\* the mute of one with the context of another, however many callbacks and
\* polls overlap (WindowsVolumeCallback::read).
SnapshotWhole ==
  \A k \in 1..Len(claimed) :
    hpc = "level" /\ rd.first = 2 * k
      => rd.mute = claimed[k].mute /\ rd.ctx = claimed[k].ctx

\* A binding takes its notifications in the order they were stored, and none of
\* them twice.
PolledInOrder ==
  hpc = "level" => rd.first > lastSeq /\ rd.first <= 2 * Len(claimed)

\* Only a volume that came from the client is ever written to Windows: what
\* Windows reported is not echoed back, over rebinds, stale notifications and
\* failed writes (no feedback loop).
OnlyUiIsWritten ==
  hpc \in {"saveMute", "setLevel", "setMute", "restoreLevel", "restoreMute"} => origin = "ui"

\* The engine's volume is replaced only by one of an equal or newer generation,
\* although two counters, the broker's and the client's, number the changes.
GenerationNeverBack == [][vol'.gen >= vol.gen]_linkVars

\* The newest notification that found the cell free tells the mute there is.
\* OnNotify drops one that meets another in the cell, the newer of the two as
\* well; then the old mute stays in the engine until Windows reports again.
NewestStored ==
  claimed # <<>> => claimed[Len(claimed)].mute = ep[bound].mute

\* As long as the client sends nothing and the default endpoint stays, the engine
\* ends up with the level the user gave the endpoint, whichever notifications
\* are dropped between two callers, and with its mute if no drop hides that; no
\* poll that fails or gives up loses either (WindowsVolumeBroker::poll).
EngineFollowsWindows ==
  <>[](last # NoState /\ spent.ui + spent.rebinds = 0
         => /\ vol.db = ep[bound].db
            /\ NewestStored => vol.mute = ep[bound].mute)

\* As long as nobody else changes the endpoint and no call fails, the endpoint
\* ends up with what the client asked for last, limited to the ceiling.
WindowsFollowsUi ==
  <>[](origin = "ui" /\ last # NoState /\ spent.user + spent.rebinds + spent.fails = 0
         => /\ bound # NoEndpoint /\ ep[bound].mute = vol.mute
            /\ Effective(ep[bound].db) = Effective(vol.db))

-----------------------------------------------------------------------------
(* Statements of SPEC-0002, checked against the code *)

\* A change made in Windows is applied to the engine when it is polled.
ForeignChangeApplied ==
  [][hpc = "level" /\ lastSeq' # lastSeq /\ rd.ctx = "user" => vol'.mute = rd.mute]_linkVars

===============================================================================

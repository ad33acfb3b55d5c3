--------------------------------- MODULE JSONL ---------------------------------
(***************************************************************************)
(* The JSONL backend (store/jsonl/store.go): an engine whose mutations are *)
(* journalled as lines, written and fsynced before they are answered, and  *)
(* undone when that fails.  The file is what the operating system shows;   *)
(* disk holds every image a power failure may leave.  The writer lock lets *)
(* at most one process hold the file.                                      *)
(***************************************************************************)
EXTENDS Wire

CONSTANTS
  AppendTime,    \* observation times callers pass to Append
  CLLInput,      \* states callers pass to CommitCLL
  WitnessInput,  \* rows callers pass to CommitWitness
  Faults,        \* combinations of "kill", "power" and "rollback" that happen
  MaxLines,      \* bound: journal lines
  MaxImages      \* bound: unsynced images left by a failed rollback

ASSUME JournalAssumption ==
  /\ AppendTime \subseteq Time
  /\ CLLInput \subseteq State
  /\ WitnessInput \subseteq WitnessState
  /\ Faults \subseteq SUBSET {"kill", "power", "rollback"}
  /\ MaxLines \in Nat /\ MaxImages \in Nat

VARIABLES
  faults,    \* the faults that happen in this behaviour
  file,      \* journal content: complete lines, and whether a torn one follows
  disk,      \* the contents a power failure may reveal
  holder,    \* who holds the writer lock: "none", "store" (Open) or "init"
  entries,   \* the open store's engine
  state,
  pc,        \* step of the mutation holding Store.mu, "idle" if none does
  event,     \* the event it journals
  before,    \* what it goes back to: engine snapshot and journal lines
  log,       \* what replaying the file gives; always Replay(file.lines)
  acked,     \* history: the journal when a mutation last succeeded
  returned   \* history: every <<seq, entry>> an Append answered

engineVars == <<entries, state>>
opVars == <<pc, event, before>>
vars == <<faults, file, disk, log, holder, engineVars, opVars, acked, returned>>

-----------------------------------------------------------------------------
(* Journal events: wire conversion truncates times to the millisecond.     *)

InitEvent == [type |-> "cll.init"]
NoOp == [entries |-> << >>, state |-> New, lines |-> << >>]

AppendEvent(seq, entry) ==
  [type |-> "entry.append", seq |-> seq, entry |-> entry]

CommitEvent(size, bytes, delta) ==
  [type |-> "cll.commit", expectedSize |-> size, expectedCheckpoint |-> bytes,
   state |-> StateToWire(delta)]

WitnessEvent(attempts, w) ==
  [type |-> "witness.commit", expectedAttempts |-> attempts,
   witness |-> WitnessToWire(w)]

(* applyEvent: replay one event on an engine; ok turns FALSE on an event   *)
(* the engine does not accept.                                             *)
applyEvent(r, e) ==
  CASE e.type = "cll.init" ->
         [r EXCEPT !.ok = r.entries = << >> /\ r.state.size = 0]
    [] e.type = "entry.append" ->
         [r EXCEPT
            !.ok = /\ ~Present(r.entries, e.entry.value)
                   /\ e.seq = Len(r.entries) + 1 /\ e.seq <= MaxSeq,
            !.entries = Append(@, NewEntry(e.entry.value, e.entry.appendedAt))]
    [] e.type = "cll.commit" ->
         [r EXCEPT
            !.ok = DeltaOutcome(r.state, e.expectedSize, e.expectedCheckpoint,
                                e.state) = "ok",
            !.state = ApplyDelta(@, e.state)]
    [] e.type = "witness.commit" ->
         [r EXCEPT
            !.ok = WitnessOutcome(r.state, e.expectedAttempts, e.witness) = "ok",
            !.state = ApplyWitness(@, e.expectedAttempts, e.witness)]

(* replay: all complete lines in order, the first a cll.init; it stops at  *)
(* the first event it cannot apply.                                        *)
Replay(lines) ==
  LET r[i \in 0..Len(lines)] ==
        IF i = 0
        THEN [ok |-> lines # << >> => lines[1].type = "cll.init",
              entries |-> << >>, state |-> New]
        ELSE LET done == r[i - 1]
             IN  IF done.ok THEN applyEvent(done, lines[i]) ELSE done
  IN  r[Len(lines)]

-----------------------------------------------------------------------------
(* Opening and closing.                                                    *)

Image(lines) == [lines |-> lines, torn |-> FALSE]
Torn(lines) == [lines |-> lines, torn |-> TRUE]

Init ==
  /\ faults \in Faults
  /\ file = Image(<< >>) /\ disk = {file} /\ holder = "none"
  /\ log = Replay(file.lines)
  /\ entries = << >> /\ state = New
  /\ pc = "idle" /\ event = InitEvent /\ before = NoOp
  /\ acked = << >> /\ returned = {}

(* No process holds the journal any more; its engine is gone.              *)
Released ==
  /\ holder' = "none"
  /\ entries' = << >> /\ state' = New
  /\ pc' = "idle" /\ event' = InitEvent /\ before' = NoOp

(* Open: rejects a torn or uninitialized journal, replays a good one.      *)
Open ==
  /\ holder = "none" /\ ~file.torn /\ file.lines # << >>
  /\ log.ok
  /\ holder' = "store"
  /\ entries' = log.entries
  /\ state' = log.state
  /\ UNCHANGED <<file, disk, opVars, acked, returned>>

(* Init goes on to write the header line, as the writer.                   *)
WriteHeader == holder' = "init" /\ pc' = "write"

(* Init on a torn journal: truncate the tail and fsync, then write the     *)
(* header if nothing is left; or fail to fsync.                            *)
InitRepair ==
  /\ holder = "none" /\ file.torn /\ log.ok
  /\ file' = Image(file.lines)
  /\ \/ /\ disk' = {file'}
        /\ IF file.lines = << >> THEN WriteHeader ELSE UNCHANGED <<holder, pc>>
     \/ /\ disk' = disk \cup {file'}
        /\ UNCHANGED <<holder, pc>>
  /\ UNCHANGED <<engineVars, event, before, acked, returned>>

(* Init on an empty journal: write the header line.                        *)
InitHeader ==
  /\ holder = "none" /\ file = Image(<< >>)
  /\ WriteHeader
  /\ UNCHANGED <<file, disk, engineVars, event, before, acked, returned>>

Close ==
  /\ holder = "store" /\ pc = "idle"
  /\ Released
  /\ UNCHANGED <<file, disk, acked, returned>>

(* The process dies; the operating system keeps what it wrote.             *)
Kill ==
  /\ "kill" \in faults /\ holder # "none"
  /\ Released
  /\ UNCHANGED <<file, disk, acked, returned>>

PowerLoss ==
  /\ "power" \in faults
  /\ file' \in disk
  /\ disk' = {file'}
  /\ Released
  /\ UNCHANGED <<acked, returned>>

-----------------------------------------------------------------------------
(* Mutations: the engine first, then the journal, under Store.mu.          *)

(* The operation has changed the engine and goes on to journal e.          *)
Begin(e) ==
  /\ holder = "store" /\ pc = "idle" /\ Len(file.lines) < MaxLines
  /\ pc' = "write" /\ event' = e
  /\ before' = [entries |-> entries, state |-> state, lines |-> file.lines]
  /\ UNCHANGED <<file, disk, holder, acked, returned>>

BeginAppend(v, t) ==
  /\ ~Present(entries, v) /\ Len(entries) + 1 <= MaxSeq
  /\ entries' = Append(entries, NewEntry(v, t))
  /\ Begin(AppendEvent(Len(entries) + 1, NewEntry(v, t)))
  /\ UNCHANGED state

(* An idempotent Append answers from memory and writes nothing.            *)
AppendIdempotent(v) ==
  /\ holder = "store" /\ pc = "idle"
  /\ \E i \in 1..Len(entries) :
       /\ entries[i].value = v
       /\ returned' = returned \cup {<<i, entries[i]>>}
  /\ UNCHANGED <<file, disk, holder, engineVars, opVars, acked>>

BeginCommitCLL(expectedSize, expectedBytes, next) ==
  /\ CLLOutcome(state, expectedSize, expectedBytes, next) = "ok"
  /\ state' = ApplyCLL(state, next)
  /\ Begin(CommitEvent(expectedSize, expectedBytes, DeltaSince(state, state')))
  /\ UNCHANGED entries

BeginCommitWitness(expectedAttempts, next) ==
  /\ WitnessOutcome(state, expectedAttempts, next) = "ok"
  /\ state' = ApplyWitness(state, expectedAttempts, next)
  /\ Begin(WitnessEvent(expectedAttempts, next))
  /\ UNCHANGED entries

(* Fault: the engine keeps the mutation that was not journalled.           *)
RestoreNothing ==
  /\ pc' = "idle" /\ event' = InitEvent /\ before' = NoOp
  /\ UNCHANGED engineVars

(* The operation fails; the engine goes back to its snapshot.              *)
Restore ==
  /\ entries' = before.entries /\ state' = before.state
  /\ pc' = "idle" /\ event' = InitEvent /\ before' = NoOp

(* A failed Init closes the file; a failed mutation leaves the store open. *)
Failed == IF holder = "init" THEN Released ELSE Restore /\ UNCHANGED holder

(* The event cannot be encoded within the size limit: nothing is written.  *)
Unencodable ==
  /\ pc = "write" /\ holder = "store" /\ ~file.torn
  /\ Failed
  /\ UNCHANGED <<file, disk, acked, returned>>

(* A write stops short of the whole line.                                  *)
WriteSome ==
  /\ pc = "write" /\ ~file.torn
  /\ file' = Torn(before.lines)
  /\ disk' = disk \cup {file'}
  /\ UNCHANGED <<holder, engineVars, opVars, acked, returned>>

(* The last byte of the line is written.                                   *)
WriteLine ==
  /\ pc = "write"
  /\ file' = Image(Append(before.lines, event))
  /\ disk' = disk \cup {Torn(before.lines), file'}
  /\ pc' = "sync"
  /\ UNCHANGED <<holder, engineVars, event, before, acked, returned>>

(* A write or the fsync answers an error.                                  *)
WriteOrSyncFails ==
  /\ pc \in {"write", "sync"}
  /\ pc' = "rollback"
  /\ UNCHANGED <<file, disk, holder, engineVars, event, before, acked, returned>>

(* Fault: the mutation is answered without an fsync.                       *)
SyncSkipped ==
  /\ pc = "sync"
  /\ acked' = file.lines
  /\ returned' = IF event.type = "entry.append"
                 THEN returned \cup {<<event.seq, event.entry>>} ELSE returned
  /\ IF holder = "init" THEN Released
     ELSE /\ pc' = "idle" /\ event' = InitEvent /\ before' = NoOp
          /\ UNCHANGED <<holder, engineVars>>
  /\ UNCHANGED <<file, disk>>

(* The fsync succeeds and with it the operation; Init then closes.         *)
SyncSucceeds ==
  /\ pc = "sync"
  /\ disk' = {file}
  /\ acked' = file.lines
  /\ returned' = IF event.type = "entry.append"
                 THEN returned \cup {<<event.seq, event.entry>>} ELSE returned
  /\ IF holder = "init" THEN Released
     ELSE /\ pc' = "idle" /\ event' = InitEvent /\ before' = NoOp
          /\ UNCHANGED <<holder, engineVars>>
  /\ UNCHANGED file

(* Fault: rollback does not truncate.                                      *)
RollbackUntruncated ==
  /\ pc = "rollback"
  /\ disk' = {file}
  /\ Failed
  /\ UNCHANGED <<file, acked, returned>>

(* rollback: truncate to the previous end and fsync; the operation fails,  *)
(* the store stays usable.                                                 *)
Rollback ==
  /\ pc = "rollback"
  /\ file' = Image(before.lines)
  /\ disk' = {file'}
  /\ Failed
  /\ UNCHANGED <<acked, returned>>

(* Truncate, fsync or both fail: the store closes itself.                  *)
RollbackFails ==
  /\ "rollback" \in faults /\ pc = "rollback" /\ Cardinality(disk) <= MaxImages
  /\ \E truncated, synced \in BOOLEAN :
       /\ ~(truncated /\ synced)
       /\ file' = IF truncated THEN Image(before.lines) ELSE file
       /\ disk' = IF synced THEN {file'} ELSE disk \cup {file'}
  /\ Released
  /\ UNCHANGED <<acked, returned>>

Step ==
  \/ Open \/ InitRepair \/ InitHeader \/ Close \/ Kill \/ PowerLoss
  \/ \E v \in Value, t \in AppendTime : BeginAppend(v, t)
  \/ \E v \in Value : AppendIdempotent(v)
  \/ \E size \in {MMRSize[n] : n \in 0..MaxSeq},
        bytes \in {s.checkpoint.bytes : s \in CLLInput},
        next \in CLLInput : BeginCommitCLL(size, bytes, next)
  \/ \E attempts \in {w.attempts : w \in WitnessInput}, next \in WitnessInput :
       BeginCommitWitness(attempts, next)
  \/ Unencodable \/ WriteSome \/ WriteLine \/ WriteOrSyncFails
  \/ SyncSucceeds \/ Rollback \/ RollbackFails

Next == Step /\ log' = Replay(file'.lines) /\ UNCHANGED faults

Spec == Init /\ [][Next]_vars

-----------------------------------------------------------------------------
(* All images of the journal a process may find when it opens it.          *)
Images == {file} \cup (IF "power" \in faults THEN disk ELSE {})

(* Whenever the process is killed or the power fails, even inside Init or  *)
(* a rollback, the complete lines left behind replay without an error.     *)
EveryImageReplays == \A c \in Images : Replay(c.lines).ok

(* Every image keeps, in order, every event whose mutation was answered    *)
(* with success.                                                           *)
AcknowledgedEventsSurvive ==
  \A c \in Images : /\ Len(acked) <= Len(c.lines)
                     /\ SubSeq(c.lines, 1, Len(acked)) = acked

(* What Append answers, inserted or idempotent, is the durable entry: it   *)
(* is in every image.                                                      *)
ReturnedEntriesDurable ==
  \A c \in Images, r \in returned :
    LET kept == Replay(c.lines).entries
    IN  r[1] \in 1..Len(kept) /\ kept[r[1]] = r[2]

(* A crash finds no more than the process before it saw: either no power   *)
(* failure happens or nothing else does that leaves a line unsynced.       *)
Synced == "power" \in faults => faults = {"power"}

(* The log a client sees: a mutation takes effect when it is answered, or  *)
(* when the process that never answered it is gone.                        *)
Visible ==
  CASE holder # "store" -> log
    [] holder = "store" /\ pc = "idle" -> [entries |-> entries, state |-> state]
    [] OTHER -> before

(* The engine, called with times as the journal stores them, having        *)
(* answered an Append of every entry it holds.                             *)
Contract == INSTANCE Engine WITH
  entries <- Visible.entries,
  state <- StateToWire(Visible.state),
  returned <- {<<i, Visible.entries[i]>> : i \in 1..Len(Visible.entries)},
  CLLInput <- {StateToWire(s) : s \in CLLInput},
  WitnessInput <- {WitnessToWire(w) : w \in WitnessInput}

(* Through failed writes, rollbacks, crashes and reopening, the journalled *)
(* store behaves as the in-memory engine that never fails: a mutation that *)
(* is not answered happens completely or not at all.                       *)
ImplementsEngine ==
  /\ Synced => Contract!Init
  /\ [][Synced => Contract!Next \/ UNCHANGED Contract!vars]_vars
=============================================================================

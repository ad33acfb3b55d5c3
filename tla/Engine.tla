-------------------------------- MODULE Engine --------------------------------
(***************************************************************************)
(* The cll.Backend contract as backend.Engine implements it: one atomic    *)
(* action per mutating operation, called by anyone with any arguments.     *)
(* The memory backend is this engine behind a mutex; the JSONL backend is  *)
(* shown to implement it (module JSONL).  An operation that answers an     *)
(* error changes nothing and is a stuttering step.                         *)
(***************************************************************************)
EXTENDS Backend

CONSTANTS
  AppendTime,   \* observation times callers pass to Append
  CLLInput,     \* states callers pass to CommitCLL
  WitnessInput  \* rows callers pass to CommitWitness

ASSUME InputAssumption ==
  /\ AppendTime \subseteq Time
  /\ CLLInput \subseteq State
  /\ WitnessInput \subseteq WitnessState

VARIABLES
  entries,   \* Engine.entries; Engine.byValue is its inverse
  state,     \* Engine.state
  returned   \* history: every <<seq, entry>> an Append ever answered

vars == <<entries, state, returned>>

Init ==
  /\ entries = << >>
  /\ state = New
  /\ returned = {}

(* Append of a value the log does not hold: the next dense sequence, up to *)
(* the portable bound (beyond it: ErrInvalid).                             *)
AppendInserted(v, t) ==
  /\ ~Present(entries, v)
  /\ Len(entries) + 1 <= MaxSeq
  /\ entries' = Append(entries, NewEntry(v, t))
  /\ returned' = returned \cup {<<Len(entries) + 1, NewEntry(v, t)>>}
  /\ UNCHANGED state

(* Append of a value the log holds: the original entry is returned.        *)
AppendIdempotent(v) ==
  /\ \E i \in 1..Len(entries) :
       /\ entries[i].value = v
       /\ returned' = returned \cup {<<i, entries[i]>>}
  /\ UNCHANGED <<entries, state>>

CommitCLL(expectedSize, expectedBytes, next) ==
  /\ CLLOutcome(state, expectedSize, expectedBytes, next) = "ok"
  /\ state' = ApplyCLL(state, next)
  /\ UNCHANGED <<entries, returned>>

CommitWitness(expectedAttempts, next) ==
  /\ WitnessOutcome(state, expectedAttempts, next) = "ok"
  /\ state' = ApplyWitness(state, expectedAttempts, next)
  /\ UNCHANGED <<entries, returned>>

Next ==
  \/ \E v \in Value, t \in AppendTime : AppendInserted(v, t)
  \/ \E v \in Value : AppendIdempotent(v)
  \/ \E size \in {MMRSize[n] : n \in 0..MaxSeq},
        bytes \in {s.checkpoint.bytes : s \in CLLInput},
        next \in CLLInput : CommitCLL(size, bytes, next)
  \/ \E attempts \in {w.attempts : w \in WitnessInput}, next \in WitnessInput :
       CommitWitness(attempts, next)

Spec == Init /\ [][Next]_vars

-----------------------------------------------------------------------------
(* Every variable holds a value of its Go type.                            *)
TypeOK ==
  /\ entries \in Seq(Entry)
  /\ state \in State
  /\ returned \subseteq (1..MaxSeq) \X Entry

(* The log holds each identity once, within the portable sequence range:   *)
(* byValue and entries never disagree, so Replace accepts the entries.     *)
EntriesUnique ==
  /\ Len(entries) <= MaxSeq
  /\ \A i, j \in 1..Len(entries) :
       entries[i].value = entries[j].value => i = j

(* Whatever was committed, by whomever, passes the validation a reopened   *)
(* backend applies to stored state (Replace, loadState): in particular     *)
(* merging stale witness rows never yields two rows for one key.           *)
StoredStateValid == validateState(state)

(* An entry Append has answered, inserted or idempotent, is the log's      *)
(* entry at that sequence for ever after, original timestamp included.     *)
ReturnedEntriesStay ==
  \A r \in returned : r[1] \in 1..Len(entries) /\ entries[r[1]] = r[2]

(* A commit only extends the MMR, never removes the checkpoint, moves it   *)
(* back or replaces it at a size it already covers.                        *)
MMRAndCheckpointAdvance ==
  [][/\ prefixEqual(state.nodes, state'.nodes)
     /\ state'.checkpoint.size >= state.checkpoint.size
     /\ state'.checkpoint.indexedSeq >= state.checkpoint.indexedSeq
     /\ state'.checkpoint.size = state.checkpoint.size =>
          state'.checkpoint = state.checkpoint]_vars

(* No step drops a witness row or rebinds it to another checkpoint, and a  *)
(* step that changes a row's delivery state (CommitWitness) changes that   *)
(* row only: stale rows inside a CommitCLL never overwrite delivery state. *)
DeliveryStateOwned ==
  [][\A v \in state.witnesses :
       \E w \in state'.witnesses :
         /\ WitnessKey(w) = WitnessKey(v)
         /\ w.checkpoint = v.checkpoint
         /\ w # v => /\ state' = [state EXCEPT !.witnesses = (@ \ {v}) \cup {w}]
                     /\ entries' = entries]_vars

(* Replaying the journal delta of a commit (DeltaSince, CommitCLLDelta)    *)
(* from the state before it is accepted and gives the state the live       *)
(* commit installed.                                                       *)
DeltaReplaysCommit ==
  \A next \in CLLInput :
    LET size  == state.size
        bytes == state.checkpoint.bytes
        after == ApplyCLL(state, next)
        delta == DeltaSince(state, after)
    IN  CLLOutcome(state, size, bytes, next) = "ok" =>
          /\ DeltaOutcome(state, size, bytes, delta) = "ok"
          /\ ApplyDelta(state, delta) = after
=============================================================================

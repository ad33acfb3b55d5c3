----------------------------- MODULE EngineProofs -----------------------------
(***************************************************************************)
(* The storage contract, for any log length, any identities and witnesses, *)
(* and any states and rows that callers pass.                              *)
(***************************************************************************)
EXTENDS Engine, BackendProofs

-----------------------------------------------------------------------------
(* Facts about the operators.                                              *)

(* What Append inserts is an entry of the value.                           *)
LEMMA NewEntryFacts ==
  ASSUME NEW v \in Value, NEW t \in AppendTime
  PROVE  NewEntry(v, t) \in Entry /\ NewEntry(v, t).value = v
  BY NormalizedTime, InputAssumption DEF NewEntry, Entry

-----------------------------------------------------------------------------
(* The invariant.                                                          *)

(* Together inductive: what Append answers stays because entries are only  *)
(* added at the end, and a merge of witness rows is valid because both     *)
(* sides are.                                                              *)
IInv == TypeOK /\ EntriesUnique /\ StoredStateValid /\ ReturnedEntriesStay

(* A new engine satisfies it.                                              *)
LEMMA InitIInv == ASSUME Init PROVE IInv
  BY NewState, SeqAssumption
  DEF Init, IInv, TypeOK, EntriesUnique, StoredStateValid, ReturnedEntriesStay

(* Inserting an absent value keeps the log unique and what was answered.   *)
LEMMA AppendInsertedIInv ==
  ASSUME IInv, NEW v \in Value, NEW t \in AppendTime, AppendInserted(v, t)
  PROVE  IInv'
<1> DEFINE e == NewEntry(v, t)
<1>1. e \in Entry /\ e.value = v
  BY NewEntryFacts
<1>2. /\ entries' = Append(entries, e) /\ state' = state
      /\ returned' = returned \cup {<<Len(entries) + 1, e>>}
      /\ ~Present(entries, v) /\ Len(entries) + 1 <= MaxSeq
      /\ entries \in Seq(Entry)
  BY DEF AppendInserted, IInv, TypeOK
<1> HIDE DEF e
<1>3. /\ entries' \in Seq(Entry) /\ Len(entries') = Len(entries) + 1
      /\ \A i \in 1..Len(entries) : entries'[i] = entries[i]
      /\ entries'[Len(entries) + 1] = e
  BY <1>1, <1>2
<1>4. TypeOK'
  <2>1. <<Len(entries) + 1, e>> \in (1..MaxSeq) \X Entry
    BY <1>1, <1>2, SeqAssumption
  <2> QED BY <1>2, <1>3, <2>1 DEF IInv, TypeOK
<1>5. EntriesUnique'
  <2>1. \A i \in 1..Len(entries) : entries[i].value # e.value
    BY <1>1, <1>2 DEF Present
  <2>2. \A i \in 1..Len(entries') : i \in 1..Len(entries) \/ i = Len(entries) + 1
    BY <1>2, <1>3
  <2> QED BY <1>2, <1>3, <2>1, <2>2 DEF IInv, EntriesUnique
<1>6. StoredStateValid'
  BY <1>2 DEF IInv, StoredStateValid
<1>7. ReturnedEntriesStay'
  <2> SUFFICES ASSUME NEW r \in returned'
               PROVE  r[1] \in 1..Len(entries') /\ entries'[r[1]] = r[2]
    BY DEF ReturnedEntriesStay
  <2>1. CASE r \in returned
    <3>1. r[1] \in 1..Len(entries) /\ entries[r[1]] = r[2]
      BY <2>1 DEF IInv, ReturnedEntriesStay
    <3> QED BY <1>2, <1>3, <3>1
  <2>2. CASE r = <<Len(entries) + 1, e>>
    BY <1>2, <1>3, <2>2
  <2> QED BY <1>2, <2>1, <2>2
<1> QED BY <1>4, <1>5, <1>6, <1>7 DEF IInv

(* Answering a stored entry again changes nothing else.                    *)
LEMMA AppendIdempotentIInv ==
  ASSUME IInv, NEW v \in Value, AppendIdempotent(v)
  PROVE  IInv'
<1>1. PICK i \in 1..Len(entries) : returned' = returned \cup {<<i, entries[i]>>}
  BY DEF AppendIdempotent
<1>2. entries' = entries /\ state' = state
  BY DEF AppendIdempotent
<1>3. entries \in Seq(Entry) /\ Len(entries) <= MaxSeq
  BY DEF IInv, TypeOK, EntriesUnique
<1>4. <<i, entries[i]>> \in (1..MaxSeq) \X Entry
  BY <1>3, SeqAssumption
<1>5. TypeOK'
  BY <1>1, <1>2, <1>4 DEF IInv, TypeOK
<1>6. ReturnedEntriesStay'
  BY <1>1, <1>2 DEF IInv, ReturnedEntriesStay
<1> QED BY <1>2, <1>5, <1>6 DEF IInv, EntriesUnique, StoredStateValid

(* A commit of any caller.                                                 *)
LEMMA CommitCLLIInv ==
  ASSUME IInv, NEW size, NEW bytes, NEW next \in CLLInput,
         CommitCLL(size, bytes, next)
  PROVE  IInv'
<1>1. /\ CLLOutcome(state, size, bytes, next) = "ok"
      /\ state' = ApplyCLL(state, next)
      /\ entries' = entries /\ returned' = returned
  BY DEF CommitCLL
<1>2. state \in State /\ next \in State /\ validateState(state)
  BY InputAssumption DEF IInv, TypeOK, StoredStateValid
<1>3. validateState(next)
  BY <1>1, CLLAccepted
<1>4. state' \in State /\ validateState(state')
  BY <1>1, <1>2, <1>3, ApplyCLLFields, ApplyCLLValid
<1> QED BY <1>1, <1>4
        DEF IInv, TypeOK, EntriesUnique, StoredStateValid, ReturnedEntriesStay

(* A witness commit of any caller.                                         *)
LEMMA CommitWitnessIInv ==
  ASSUME IInv, NEW attempts, NEW next \in WitnessInput,
         CommitWitness(attempts, next)
  PROVE  IInv'
<1>1. /\ WitnessOutcome(state, attempts, next) = "ok"
      /\ state' = ApplyWitness(state, attempts, next)
      /\ entries' = entries /\ returned' = returned
  BY DEF CommitWitness
<1>2. state \in State /\ next \in WitnessState /\ validateState(state)
  BY InputAssumption DEF IInv, TypeOK, StoredStateValid
<1>3. state' \in State /\ validateState(state')
  BY <1>1, <1>2, ApplyWitnessFacts
<1> QED BY <1>1, <1>3
        DEF IInv, TypeOK, EntriesUnique, StoredStateValid, ReturnedEntriesStay

(* Every step keeps the invariant.                                         *)
LEMMA NextIInv == ASSUME IInv, [Next]_vars PROVE IInv'
<1>1. CASE \E v \in Value, t \in AppendTime : AppendInserted(v, t)
  BY <1>1, AppendInsertedIInv
<1>2. CASE \E v \in Value : AppendIdempotent(v)
  BY <1>2, AppendIdempotentIInv
<1>3. CASE \E size \in {MMRSize[n] : n \in 0..MaxSeq},
              bytes \in {s.checkpoint.bytes : s \in CLLInput},
              next \in CLLInput : CommitCLL(size, bytes, next)
  BY <1>3, CommitCLLIInv
<1>4. CASE \E attempts \in {w.attempts : w \in WitnessInput},
              next \in WitnessInput : CommitWitness(attempts, next)
  BY <1>4, CommitWitnessIInv
<1>5. CASE UNCHANGED vars
  BY <1>5 DEF vars, IInv, TypeOK, EntriesUnique, StoredStateValid,
              ReturnedEntriesStay
<1> QED BY <1>1, <1>2, <1>3, <1>4, <1>5 DEF Next

(* The invariant holds of every engine.                                    *)
THEOREM Invariance == Spec => []IInv
  BY InitIInv, NextIInv, PTL DEF Spec

(* The log holds each identity once, whatever callers append.              *)
THEOREM UniqueEntries == Spec => []EntriesUnique
  BY Invariance, PTL DEF IInv

(* Every state any callers can commit passes the validation of a reopened  *)
(* backend.                                                                *)
THEOREM ValidState == Spec => []StoredStateValid
  BY Invariance, PTL DEF IInv

(* An answered entry stays the log's entry at its sequence.                *)
THEOREM AnswersStay == Spec => []ReturnedEntriesStay
  BY Invariance, PTL DEF IInv

-----------------------------------------------------------------------------
(* What a step may never do.                                               *)

(* An accepted commit moves the checkpoint forward or leaves it.           *)
LEMMA CheckpointMoves ==
  ASSUME NEW s \in State, NEW next \in State, validateState(s),
         validateState(next), CheckpointAdvances(s, next)
  PROVE  /\ next.checkpoint.size >= s.checkpoint.size
         /\ next.checkpoint.indexedSeq >= s.checkpoint.indexedSeq
         /\ next.checkpoint.size = s.checkpoint.size =>
              next.checkpoint = s.checkpoint
<1>1. /\ next.checkpoint.size \in Nat /\ next.checkpoint.indexedSeq \in Nat
      /\ s.checkpoint.size \in Nat /\ s.checkpoint.indexedSeq \in Nat
  BY DEF State, CheckpointState
<1>2. CASE s.checkpoint = NoCheckpoint
  <2>1. s.checkpoint.size = 0 /\ s.checkpoint.indexedSeq = 0
    BY <1>2 DEF NoCheckpoint
  <2>2. next.checkpoint = NoCheckpoint \/ 0 < next.checkpoint.size
    BY DEF validateState, validateStateMetadata, ValidCheckpoint
  <2> QED BY <1>1, <1>2, <2>1, <2>2
<1>3. CASE s.checkpoint # NoCheckpoint
  BY <1>3 DEF CheckpointAdvances
<1> QED BY <1>2, <1>3

(* One step of the engine, as MMRAndCheckpointAdvance describes it.        *)
LEMMA StepAdvances ==
  ASSUME IInv, [Next]_vars
  PROVE  /\ prefixEqual(state.nodes, state'.nodes)
         /\ state'.checkpoint.size >= state.checkpoint.size
         /\ state'.checkpoint.indexedSeq >= state.checkpoint.indexedSeq
         /\ state'.checkpoint.size = state.checkpoint.size =>
              state'.checkpoint = state.checkpoint
<1>1. state \in State /\ validateState(state)
  BY DEF IInv, TypeOK, StoredStateValid
<1>2. /\ state.nodes \in Seq(Value)
      /\ state.checkpoint.size \in Nat /\ state.checkpoint.indexedSeq \in Nat
  BY <1>1 DEF State, CheckpointState
<1>3. prefixEqual(state.nodes, state.nodes)
  BY <1>2 DEF prefixEqual
<1>4. CASE \E size \in {MMRSize[n] : n \in 0..MaxSeq},
              bytes \in {s.checkpoint.bytes : s \in CLLInput},
              next \in CLLInput : CommitCLL(size, bytes, next)
  <2>1. PICK size \in {MMRSize[n] : n \in 0..MaxSeq},
             bytes \in {s.checkpoint.bytes : s \in CLLInput},
             next \in CLLInput : CommitCLL(size, bytes, next)
    BY <1>4
  <2>2. /\ CLLOutcome(state, size, bytes, next) = "ok"
        /\ state' = ApplyCLL(state, next) /\ next \in State
    BY <2>1, InputAssumption DEF CommitCLL
  <2>3. /\ AppendOnly(state, next) /\ CheckpointAdvances(state, next)
        /\ validateState(next)
    BY <2>2, CLLAccepted
  <2>4. state'.nodes = next.nodes /\ state'.checkpoint = next.checkpoint
    BY <1>1, <2>2, ApplyCLLFields
  <2>5. prefixEqual(state.nodes, next.nodes)
    BY <2>3 DEF AppendOnly
  <2> QED BY <1>1, <2>2, <2>3, <2>4, <2>5, CheckpointMoves
<1>5. CASE \E attempts \in {w.attempts : w \in WitnessInput},
              next \in WitnessInput : CommitWitness(attempts, next)
  <2>1. PICK attempts \in {w.attempts : w \in WitnessInput},
             next \in WitnessInput : CommitWitness(attempts, next)
    BY <1>5
  <2>2. state'.nodes = state.nodes /\ state'.checkpoint = state.checkpoint
    BY <1>1, <2>1, ApplyWitnessFacts, InputAssumption DEF CommitWitness
  <2> QED BY <1>2, <1>3, <2>2
<1>6. CASE state' = state
  BY <1>2, <1>3, <1>6
<1>7. CASE \E v \in Value, t \in AppendTime : AppendInserted(v, t)
  BY <1>6, <1>7 DEF AppendInserted
<1>8. CASE \E v \in Value : AppendIdempotent(v)
  BY <1>6, <1>8 DEF AppendIdempotent
<1> QED BY <1>4, <1>5, <1>6, <1>7, <1>8 DEF Next, vars

(* No caller can shorten or rewrite the tree, or move a checkpoint back.   *)
THEOREM Advances == Spec => MMRAndCheckpointAdvance
<1>1. IInv /\ [Next]_vars =>
        [/\ prefixEqual(state.nodes, state'.nodes)
         /\ state'.checkpoint.size >= state.checkpoint.size
         /\ state'.checkpoint.indexedSeq >= state.checkpoint.indexedSeq
         /\ state'.checkpoint.size = state.checkpoint.size =>
              state'.checkpoint = state.checkpoint]_vars
  BY StepAdvances
<1> QED BY <1>1, Invariance, PTL DEF Spec, MMRAndCheckpointAdvance

(* One step of the engine, as DeliveryStateOwned describes it.             *)
LEMMA StepOwnsDelivery ==
  ASSUME IInv, [Next]_vars, NEW v \in state.witnesses
  PROVE  \E w \in state'.witnesses :
           /\ WitnessKey(w) = WitnessKey(v)
           /\ w.checkpoint = v.checkpoint
           /\ w # v => /\ state' = [state EXCEPT !.witnesses = (@ \ {v}) \cup {w}]
                       /\ entries' = entries
<1>1. state \in State /\ validateState(state)
  BY DEF IInv, TypeOK, StoredStateValid
<1>2. CASE v \in state'.witnesses
  BY <1>2
<1>3. CASE \E size \in {MMRSize[n] : n \in 0..MaxSeq},
              bytes \in {s.checkpoint.bytes : s \in CLLInput},
              next \in CLLInput : CommitCLL(size, bytes, next)
  <2>1. PICK size \in {MMRSize[n] : n \in 0..MaxSeq},
             bytes \in {s.checkpoint.bytes : s \in CLLInput},
             next \in CLLInput : CommitCLL(size, bytes, next)
    BY <1>3
  <2>2. state' = ApplyCLL(state, next) /\ next \in State
    BY <2>1, InputAssumption DEF CommitCLL
  <2>3. state.witnesses \subseteq state'.witnesses
    BY <1>1, <2>2, ApplyCLLFields
  <2> QED BY <1>2, <2>3
<1>4. CASE \E attempts \in {w.attempts : w \in WitnessInput},
              next \in WitnessInput : CommitWitness(attempts, next)
  <2>1. PICK attempts \in {w.attempts : w \in WitnessInput},
             next \in WitnessInput : CommitWitness(attempts, next)
    BY <1>4
  <2>2. /\ state' = ApplyWitness(state, attempts, next) /\ entries' = entries
        /\ state'.witnesses =
             (state.witnesses \ Replaced(state, attempts, next)) \cup {next}
    BY <1>1, <2>1, ApplyWitnessFacts, InputAssumption DEF CommitWitness
  <2>3. CASE v \notin Replaced(state, attempts, next)
    BY <1>2, <2>2, <2>3
  <2>4. CASE v \in Replaced(state, attempts, next)
    <3>1. UniqueKeys(state.witnesses)
      BY <1>1 DEF validateState, validateStateMetadata
    <3>2. /\ Replaced(state, attempts, next) = {v}
          /\ WitnessKey(v) = WitnessKey(next) /\ v.checkpoint = next.checkpoint
      BY <2>4, <3>1, ReplacedRow
    <3>3. state' = [state EXCEPT !.witnesses = (@ \ {v}) \cup {next}]
      BY <2>2, <3>2 DEF ApplyWitness
    <3> QED BY <2>2, <3>2, <3>3
  <2> QED BY <2>3, <2>4
<1>5. CASE state' = state
  BY <1>2, <1>5
<1>6. CASE \E x \in Value, t \in AppendTime : AppendInserted(x, t)
  BY <1>5, <1>6 DEF AppendInserted
<1>7. CASE \E x \in Value : AppendIdempotent(x)
  BY <1>5, <1>7 DEF AppendIdempotent
<1> QED BY <1>3, <1>4, <1>5, <1>6, <1>7 DEF Next, vars

(* Stale rows inside a commit never overwrite delivery state, and no row   *)
(* is ever lost.                                                           *)
THEOREM DeliveryOwned == Spec => DeliveryStateOwned
<1>1. IInv /\ [Next]_vars =>
        [\A v \in state.witnesses :
           \E w \in state'.witnesses :
             /\ WitnessKey(w) = WitnessKey(v)
             /\ w.checkpoint = v.checkpoint
             /\ w # v => /\ state' = [state EXCEPT !.witnesses = (@ \ {v}) \cup {w}]
                         /\ entries' = entries]_vars
  BY StepOwnsDelivery
<1> QED BY <1>1, Invariance, PTL DEF Spec, DeliveryStateOwned

-----------------------------------------------------------------------------
(* The journal delta of a commit.                                          *)

(* Whatever commit any caller makes, its journal delta replays to the      *)
(* state the commit installed.                                             *)
THEOREM DeltasReplay == Spec => []DeltaReplaysCommit
<1>1. IInv => DeltaReplaysCommit
  BY DeltaAccepted, InputAssumption
  DEF IInv, TypeOK, StoredStateValid, DeltaReplaysCommit
<1> QED BY <1>1, Invariance, PTL
=============================================================================

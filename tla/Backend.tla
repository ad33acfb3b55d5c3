------------------------------- MODULE Backend -------------------------------
(***************************************************************************)
(* The storage transition rules every cll-go backend shares                *)
(* (internal/backend/engine.go), as operators on values.                   *)
(*                                                                         *)
(* Data abstraction.  A flat MMR node list is represented by the sequence  *)
(* of leaves it is built over: MMRSize[n] is the number of nodes over n    *)
(* leaves, and a node list is a prefix of another exactly when its leaf    *)
(* sequence is (module MMR checks both facts on the tree code).  A         *)
(* checkpoint's peaks and root are likewise the leaf sequence they commit  *)
(* to.  Checkpoint bytes are the signed statement they encode; the backend *)
(* only compares them.  A receipt is represented by the checkpoint bytes   *)
(* it attests.  Times are instants counted from Go's zero time, Milli of   *)
(* them to a millisecond.  Operational error text is left out.             *)
(***************************************************************************)
EXTENDS Integers, Sequences, FiniteSets

CONSTANTS
  Value,      \* 32-byte identities
  WitnessID,  \* identifiers of configured witnesses
  NoBytes,    \* absent (nil), empty or over-long bytes
  MaxSeq,     \* cll.MaxPortableInteger, the largest entry sequence
  MMRSize,    \* number of MMR nodes over 0..MaxSeq leaves
  Milli       \* instants per millisecond

ASSUME SeqAssumption == MaxSeq \in Nat
ASSUME MilliAssumption == Milli \in Nat \ {0}
ASSUME MMRSizeAssumption ==
  /\ MMRSize \in [0..MaxSeq -> Nat]
  /\ MMRSize[0] = 0
  /\ \A m, n \in 0..MaxSeq : m < n => MMRSize[m] < MMRSize[n]

-----------------------------------------------------------------------------
(* The records of package cll.                                             *)

Time == Nat

(* A signed checkpoint statement: the claims of one log and one key.       *)
Bytes ==
  [logSize : Nat, root : Seq(Value), prevSize : Nat, prevRoot : Seq(Value),
   issuedAt : Time]

ASSUME NoBytesAssumption == NoBytes \notin Bytes

(* The nil *time.Time of State.FirstPendingAt.                             *)
NoTime == -1

(* One dense log entry; its sequence number is its index in the log.       *)
Entry == [value : Value, appendedAt : Time]

WitnessState ==
  [id : WitnessID, size : Nat, checkpoint : Bytes \cup {NoBytes},
   attempts : Nat, nextAttemptAt : Time, receipt : Bytes \cup {NoBytes},
   permanent : BOOLEAN]

CheckpointState ==
  [bytes : Bytes \cup {NoBytes}, size : Nat, indexedSeq : Nat,
   peaks : Seq(Value)]

(* The nil *CheckpointState.                                               *)
NoCheckpoint ==
  [bytes |-> NoBytes, size |-> 0, indexedSeq |-> 0, peaks |-> << >>]

State ==
  [size : Nat, nodes : Seq(Value), indexedSeq : Nat,
   firstPendingAt : Time \cup {NoTime}, checkpoint : CheckpointState,
   witnesses : SUBSET WitnessState]

(* The state of a freshly created engine.                                  *)
New ==
  [size |-> 0, nodes |-> << >>, indexedSeq |-> 0, firstPendingAt |-> NoTime,
   checkpoint |-> NoCheckpoint, witnesses |-> {}]

-----------------------------------------------------------------------------
(* Comparisons and validation.                                             *)

(* portable.NormalizeTime: truncate to the millisecond.                    *)
NormalizeTime(t) == Milli * (t \div Milli)

(* Fault: the expected checkpoint is not compared.                         *)
sameOptionalIgnored(checkpoint, expected) == TRUE

(* sameOptional: the stored checkpoint bytes are exactly the expected      *)
(* ones; nil matches only nil.                                             *)
sameOptional(checkpoint, expected) == checkpoint.bytes = expected

prefixEqual(prefix, values) ==
  /\ Len(prefix) <= Len(values)
  /\ \A i \in 1..Len(prefix) : prefix[i] = values[i]

WitnessKey(w) == <<w.id, w.size>>

UniqueKeys(rows) ==
  \A v, w \in rows : WitnessKey(v) = WitnessKey(w) => v = w

validateWitness(w) == w.size # 0 /\ w.checkpoint # NoBytes

(* The checkpoint part of validateStateMetadata.                           *)
ValidCheckpoint(s) ==
  \/ s.checkpoint = NoCheckpoint
  \/ /\ s.checkpoint.bytes # NoBytes
     /\ 0 < s.checkpoint.size /\ s.checkpoint.size <= s.size
     /\ s.checkpoint.indexedSeq <= s.indexedSeq

(* validateStateMetadata, for a state whose node list has nodeCount nodes: *)
(* the MMR is complete and over exactly IndexedSeq leaves.                 *)
validateStateMetadata(s, nodeCount) ==
  /\ s.size = nodeCount
  /\ s.indexedSeq \in 0..MaxSeq /\ MMRSize[s.indexedSeq] = s.size
  /\ ValidCheckpoint(s)
  /\ \A w \in s.witnesses : validateWitness(w)
  /\ UniqueKeys(s.witnesses)

validateState(s) ==
  /\ Len(s.nodes) \in 0..MaxSeq
  /\ validateStateMetadata(s, MMRSize[Len(s.nodes)])

-----------------------------------------------------------------------------
(* CommitCLL.                                                              *)

(* The compare half of the compare-and-set.                                *)
ExpectedMatches(current, expectedSize, expectedBytes) ==
  /\ current.size = expectedSize
  /\ sameOptional(current.checkpoint, expectedBytes)

AppendOnly(current, next) ==
  /\ next.size >= current.size
  /\ next.indexedSeq >= current.indexedSeq
  /\ prefixEqual(current.nodes, next.nodes)

(* The checkpoint clauses of validateCLLTransition: never removed, never   *)
(* backward, never changed at an already used size.                        *)
CheckpointAdvances(current, next) ==
  current.checkpoint # NoCheckpoint =>
    /\ next.checkpoint # NoCheckpoint
    /\ next.checkpoint.size >= current.checkpoint.size
    /\ next.checkpoint.indexedSeq >= current.checkpoint.indexedSeq
    /\ next.checkpoint.size = current.checkpoint.size =>
         next.checkpoint = current.checkpoint

(* The witness clause of validateCLLTransition: a repeated key keeps its   *)
(* checkpoint bytes.                                                       *)
WitnessesKept(current, next) ==
  \A v \in current.witnesses, w \in next.witnesses :
    WitnessKey(v) = WitnessKey(w) => v.checkpoint = w.checkpoint

(* Fault: rows are added without looking for their key.                    *)
AddedWitnessesUnfiltered(current, next) == next.witnesses

(* The rows of next whose keys current does not have.                      *)
AddedWitnesses(current, next) ==
  {w \in next.witnesses :
     \A v \in current.witnesses : WitnessKey(v) # WitnessKey(w)}

(* The result of validateCLLTransition: an error class or "ok".            *)
validateCLLTransition(current, next) ==
  IF next.indexedSeq < current.indexedSeq THEN "invalid"
  ELSE IF CheckpointAdvances(current, next) /\ WitnessesKept(current, next)
       THEN "ok"
       ELSE "contention"

(* The error class ApplyCLL answers, or "ok".                              *)
CLLOutcome(current, expectedSize, expectedBytes, next) ==
  CASE ~ExpectedMatches(current, expectedSize, expectedBytes) -> "contention"
    [] /\ ExpectedMatches(current, expectedSize, expectedBytes)
       /\ ~(validateState(next) /\ AppendOnly(current, next)) -> "invalid"
    [] OTHER -> validateCLLTransition(current, next)

(* Fault: the committer's rows replace the stored ones.                    *)
ApplyCLLOverwriting(current, next) ==
  [next EXCEPT !.witnesses = @ \cup AddedWitnesses(next, current)]

(* Fault: the rows next adds are forgotten.                                *)
ApplyCLLForgetting(current, next) ==
  [next EXCEPT !.witnesses = current.witnesses]

(* The state ApplyCLL installs: next's header and nodes, current's witness *)
(* rows as they are, and the rows next adds.                               *)
ApplyCLL(current, next) ==
  [next EXCEPT !.witnesses = current.witnesses \cup AddedWitnesses(current, next)]

(* Fault: the delta starts one leaf late.                                  *)
DeltaSinceLate(before, current) ==
  [current EXCEPT
     !.nodes = SubSeq(current.nodes, Len(before.nodes) + 2, Len(current.nodes)),
     !.witnesses = AddedWitnesses(before, current)]

(* DeltaSince: what the commit from before to current added, under         *)
(* current's header.                                                       *)
DeltaSince(before, current) ==
  [current EXCEPT
     !.nodes = SubSeq(current.nodes, Len(before.nodes) + 1, Len(current.nodes)),
     !.witnesses = AddedWitnesses(before, current)]

(* CommitCLLDelta: the error class a journal delta meets on replay, or     *)
(* "ok".                                                                   *)
DeltaOutcome(current, expectedSize, expectedBytes, delta) ==
  LET leaves == Len(current.nodes) + Len(delta.nodes) IN
  CASE ~ExpectedMatches(current, expectedSize, expectedBytes) -> "contention"
    [] /\ ExpectedMatches(current, expectedSize, expectedBytes)
       /\ ~(/\ leaves \in 0..MaxSeq
            /\ delta.size = MMRSize[leaves]
            /\ validateStateMetadata(delta, delta.size)) -> "invalid"
    [] OTHER -> validateCLLTransition(current, delta)

(* The state CommitCLLDelta installs.                                      *)
ApplyDelta(current, delta) ==
  [delta EXCEPT
     !.nodes = current.nodes \o delta.nodes,
     !.witnesses = current.witnesses \cup AddedWitnesses(current, delta)]

-----------------------------------------------------------------------------
(* CommitWitness and the witness queries.                                  *)

(* Fault: the attempt count is not compared.                               *)
ReplacedUnchecked(current, expectedAttempts, next) ==
  {w \in current.witnesses :
     WitnessKey(w) = WitnessKey(next) /\ w.checkpoint = next.checkpoint}

(* The row a witness commit replaces.                                      *)
Replaced(current, expectedAttempts, next) ==
  {w \in current.witnesses :
     /\ WitnessKey(w) = WitnessKey(next)
     /\ w.attempts = expectedAttempts
     /\ w.checkpoint = next.checkpoint}

(* The error class ApplyWitness answers, or "ok".                          *)
WitnessOutcome(current, expectedAttempts, next) ==
  IF ~validateWitness(next) THEN "invalid"
  ELSE IF Replaced(current, expectedAttempts, next) = {} THEN "contention"
  ELSE "ok"

ApplyWitness(current, expectedAttempts, next) ==
  [current EXCEPT
     !.witnesses = (@ \ Replaced(current, expectedAttempts, next)) \cup {next}]

(* Fault: a row is due only after its time.                                *)
IsDueStrictly(w, now) ==
  w.receipt = NoBytes /\ ~w.permanent /\ w.nextAttemptAt < now

(* A row PendingWitnesses may return at now.                               *)
IsDue(w, now) ==
  /\ w.receipt = NoBytes
  /\ ~w.permanent
  /\ w.nextAttemptAt <= now

(* The order of PendingWitnesses; witness identifiers are numbered in      *)
(* their string order.                                                     *)
Before(v, w) == v.size < w.size \/ (v.size = w.size /\ v.id < w.id)

(* PendingWitnesses: the first limit due rows in that order.               *)
PendingWitnesses(s, now, limit) ==
  LET due == {w \in s.witnesses : IsDue(w, now)}
  IN  {w \in due : Cardinality({v \in due : Before(v, w)}) < limit}

-----------------------------------------------------------------------------
(* Append and ScanEntries.                                                 *)

Present(entries, v) == \E i \in 1..Len(entries) : entries[i].value = v

(* The entry Append inserts for a value observed at time t.                *)
NewEntry(v, t) == [value |-> v, appendedAt |-> NormalizeTime(t)]

(* ScanEntries: at most limit entries after afterSeq.                      *)
ScanEntries(entries, afterSeq, limit) ==
  SubSeq(entries, afterSeq + 1,
         IF afterSeq + limit > Len(entries) THEN Len(entries)
                                            ELSE afterSeq + limit)
=============================================================================

------------------------------ MODULE MCEngine ------------------------------
(* Small instance of Engine: arbitrary callers of every store operation.   *)
EXTENDS Engine

CONSTANTS a, b, c

(* Two different statements for the log of one entry.                      *)
Statement(time) ==
  [logSize |-> 1, root |-> <<a>>, prevSize |-> 0, prevRoot |-> << >>,
   issuedAt |-> time]
b1 == Statement(1)
b2 == Statement(2)

MCMMRSize == [n \in 0..2 |-> <<0, 1, 3>>[n + 1]]

Row(size, bytes, attempts, receipt) ==
  [id |-> 1, size |-> size, checkpoint |-> bytes, attempts |-> attempts,
   nextAttemptAt |-> 0, receipt |-> receipt, permanent |-> FALSE]

(* Rows a caller of CommitCLL may carry, fresh or stale.                   *)
CommitRows ==
  {Row(1, b1, 0, NoBytes), Row(1, b2, 0, NoBytes), Row(1, b1, 1, NoBytes),
   Row(3, b1, 0, NoBytes)}

Checkpoint(bytes, size, seq, peaks) ==
  [bytes |-> bytes, size |-> size, indexedSeq |-> seq, peaks |-> peaks]

Checkpoints ==
  {NoCheckpoint, Checkpoint(b1, 1, 1, <<a>>), Checkpoint(b2, 1, 1, <<a>>),
   Checkpoint(b1, 1, 1, << >>), Checkpoint(b2, 3, 2, << >>),
   Checkpoint(b2, 3, 1, << >>)}

(* Proposed states: node lists over up to two leaves, with a matching or a *)
(* mismatching cursor.                                                     *)
MCCLLInput ==
  {[size |-> MMRSize[Len(n[1])], nodes |-> n[1], indexedSeq |-> n[2],
    firstPendingAt |-> 0, checkpoint |-> k, witnesses |-> w] :
     n \in {<<<< >>, 0>>, <<<<a>>, 1>>, <<<<b>>, 1>>, <<<<a, b>>, 2>>,
            <<<<a, b>>, 1>>},
     k \in Checkpoints,
     w \in {r \in SUBSET CommitRows : Cardinality(r) <= 2}}

MCWitnessInput ==
  {Row(1, cp, n, r) : cp \in {b1, b2}, n \in 0..1, r \in {NoBytes, b1}}
=============================================================================

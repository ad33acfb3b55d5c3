----------------------------- MODULE MCRelational -----------------------------
(* A log of up to two entries with one checkpoint and one witness, as the  *)
(* SQL backends are model-checked with, and the calls clients make on it.  *)
EXTENDS Relational

CONSTANTS a, b

MCMMRSize == [n \in 0..2 |-> <<0, 1, 3>>[n + 1]]

Statement ==
  [logSize |-> 1, root |-> <<a>>, prevSize |-> 0, prevRoot |-> << >>,
   issuedAt |-> 2]

Row(attempts, next, receipt) ==
  [id |-> 1, size |-> 1, checkpoint |-> Statement, attempts |-> attempts,
   nextAttemptAt |-> next, receipt |-> receipt, permanent |-> FALSE]

Indexed(leaves, first, checkpoint, rows) ==
  [size |-> MMRSize[Len(leaves)], nodes |-> leaves, indexedSeq |-> Len(leaves),
   firstPendingAt |-> first, checkpoint |-> checkpoint, witnesses |-> rows]

Checkpoint ==
  [bytes |-> Statement, size |-> 1, indexedSeq |-> 1, peaks |-> <<a>>]

(* Index an entry; index and checkpoint it.                                *)
Pending == Indexed(<<a>>, 3, NoCheckpoint, {})
First == Indexed(<<a>>, NoTime, Checkpoint, {Row(0, 3, NoBytes)})

(* Index another entry under that checkpoint, with a stale witness row.    *)
Second == Indexed(<<a, b>>, 3, Checkpoint, {Row(0, 3, NoBytes)})

MCCLLInput == {Pending, First, Second}

MCWitnessInput == {Row(0, 3, NoBytes), Row(1, 3, NoBytes), Row(1, 3, Statement)}

Append1(v) == [op |-> "append", value |-> v, time |-> 3]
Commit1(size, bytes, next) ==
  [op |-> "commitCLL", size |-> size, bytes |-> bytes, next |-> next]
Witness1(attempts, next) ==
  [op |-> "commitWitness", attempts |-> attempts, next |-> next]

Indexing == {Commit1(0, NoBytes, First), Commit1(1, Statement, Second)}
=============================================================================

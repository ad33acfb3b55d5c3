------------------------------- MODULE MCJSONL -------------------------------
(* Small instances of JSONL: one entry log, one checkpoint, one witness.   *)
EXTENDS JSONL

CONSTANTS a, b

Statement ==
  [logSize |-> 1, root |-> <<a>>, prevSize |-> 0, prevRoot |-> << >>,
   issuedAt |-> 2]

MCMMRSize == [n \in 0..2 |-> <<0, 1, 3>>[n + 1]]

Row(attempts, next, receipt) ==
  [id |-> 1, size |-> 1, checkpoint |-> Statement, attempts |-> attempts,
   nextAttemptAt |-> next, receipt |-> receipt, permanent |-> FALSE]

Indexed(leaves, first, checkpoint, rows) ==
  [size |-> MMRSize[Len(leaves)], nodes |-> leaves, indexedSeq |-> Len(leaves),
   firstPendingAt |-> first, checkpoint |-> checkpoint, witnesses |-> rows]

Checkpoint ==
  [bytes |-> Statement, size |-> 1, indexedSeq |-> 1, peaks |-> <<a>>]

(* Index an entry; index and checkpoint it.                                *)
MCOneEntry ==
  {Indexed(<<a>>, 3, NoCheckpoint, {}),
   Indexed(<<a>>, NoTime, Checkpoint, {Row(0, 3, NoBytes)})}

(* And index another one under that checkpoint, with a stale witness row.  *)
MCTwoEntries ==
  MCOneEntry \cup {Indexed(<<a, b>>, 3, Checkpoint, {Row(0, 3, NoBytes)})}

MCWitnessInput == {Row(1, 3, NoBytes), Row(1, 3, Statement), Row(0, 2, NoBytes)}

(* A client that appends a before b.                                       *)
OrderedSpec ==
  Init /\ [][Next /\ (entries' # << >> => entries'[1].value = a)]_vars
=============================================================================

------------------------------ MODULE SQLiteEngine ------------------------------
(***************************************************************************)
(* The SQLite backend implements the engine.                               *)
(***************************************************************************)
EXTENDS SQLite

(* The engine with the committed rows as its log and state, having         *)
(* answered an Append of every entry it holds.                             *)
Contract == INSTANCE Engine WITH
  entries <- EntriesOf(db.entries),
  state <- StateOf(db),
  returned <- {<<r.seq, entryFromRow(r)>> : r \in db.entries},
  CLLInput <- {StateToWire(s) : s \in CLLInput},
  WitnessInput <- {WitnessToWire(w) : w \in WitnessInput}

(* Transactions of several processes, aborted, killed or with their COMMIT *)
(* unanswered, change the log only as single engine operations would.      *)
ImplementsEngine == Contract!Spec
=============================================================================

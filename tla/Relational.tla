------------------------------ MODULE Relational ------------------------------
(***************************************************************************)
(* The four tables the SQL backends keep a log in, and the statements they *)
(* run on them.  A table is the set of its rows for one log.  As in        *)
(* Backend an MMR node list is the sequence of its leaves, so a row of     *)
(* cll_nodes holds one leaf at its position.                               *)
(***************************************************************************)
EXTENDS Wire, FiniteSetsExt

(* The schema.  A witness row repeats key and attempts beside the JSON.    *)
EntryRow == [seq : Nat, value : Value, appendedAt : Time]
NodeRow == [position : Nat, node : Value]
WitnessRow ==
  [id : WitnessID, size : Nat, attempts : Nat, witness : WitnessState]

Tables ==
  [meta : SUBSET State, entries : SUBSET EntryRow, nodes : SUBSET NodeRow,
   witnesses : SUBSET WitnessRow]

NoRows == [meta |-> {}, entries |-> {}, nodes |-> {}, witnesses |-> {}]

(* Primary key and WHERE clause compare identifiers exactly.  Of MySQL     *)
(* that assumes a collation of the server that tells apart the identifiers *)
(* in use, those of logs (one table is the rows of one log) included.      *)
RowKey(r) == <<r.id, r.size>>

(* MarshalWitness and the columns it is indexed by.                        *)
RowOf(w) ==
  [id |-> w.id, size |-> w.size, attempts |-> w.attempts,
   witness |-> WitnessToWire(w)]

-----------------------------------------------------------------------------
(* Reading.                                                                *)

(* validateEntries: the sequence numbers read are 1, 2, 3...               *)
validateEntries(entries) ==
  /\ {r.seq : r \in entries} = 1..Cardinality(entries)
  /\ Cardinality(entries) <= MaxSeq

(* The rows a SELECT ... ORDER BY seq LIMIT limit returns.                 *)
OrderedBySeq(rows, limit) ==
  [i \in 1..Min({limit, Cardinality(rows)}) |->
     CHOOSE r \in rows : Cardinality({q \in rows : q.seq < r.seq}) = i - 1]

(* entryFromRow.                                                           *)
entryFromRow(r) == [value |-> r.value, appendedAt |-> r.appendedAt]

(* The log the entry rows hold.                                            *)
EntriesOf(entries) ==
  LET rows == OrderedBySeq(entries, Cardinality(entries))
  IN  [i \in DOMAIN rows |-> entryFromRow(rows[i])]

(* The state loadState puts together from one header row, the node rows by *)
(* position and the JSON of the witness rows.                              *)
Assembled(meta, nodes, witnesses) ==
  LET header == CHOOSE m \in meta : TRUE
  IN  [header EXCEPT
         !.nodes = [i \in 1..Cardinality(nodes) |->
                      (CHOOSE r \in nodes : r.position = i - 1).node],
         !.witnesses = {r.witness : r \in witnesses}]

(* loadWireWitnesses: columns and JSON agree.                              *)
IndexAgrees(witnesses) ==
  \A r \in witnesses :
    r.id = r.witness.id /\ r.size = r.witness.size
      /\ r.attempts = r.witness.attempts

(* loadState answers a state, not ErrCorrupt.                              *)
Loadable(meta, nodes, witnesses) ==
  /\ meta # {}
  /\ {r.position : r \in nodes} = 0..(Cardinality(nodes) - 1)
  /\ IndexAgrees(witnesses)
  /\ StateFromWire(Assembled(meta, nodes, witnesses))

(* The state in tables t; a log without its cll_meta row has none yet.     *)
StateOf(t) ==
  IF t.meta = {} THEN New ELSE Assembled(t.meta, t.nodes, t.witnesses)

-----------------------------------------------------------------------------
(* Writing.  A transaction's writes are rows it inserts, the cll_meta row  *)
(* it replaces and the witness rows it updates.                            *)

NoWrites ==
  [meta |-> {}, entries |-> {}, nodes |-> {}, inserted |-> {}, updated |-> {}]

(* SELECT MAX(seq), plus one.                                              *)
NextSeq(entries) == Max({0} \cup {r.seq : r \in entries}) + 1

(* The INSERT of Append.                                                   *)
EntryWrites(seq, v, t) ==
  [NoWrites EXCEPT !.entries =
     {[seq |-> seq, value |-> v, appendedAt |-> NormalizeTime(t)]}]

(* Fault: rows that exist are written again.                               *)
CLLWritesAll(current, updated) ==
  [NoWrites EXCEPT
     !.meta = {MarshalMetadata(updated)},
     !.nodes = {[position |-> i - 1, node |-> updated.nodes[i]] :
                  i \in (Len(current.nodes) + 1)..Len(updated.nodes)},
     !.updated = {RowOf(w) : w \in updated.witnesses}]

(* The statements of CommitCLL: UPDATE the metadata, INSERT the nodes and  *)
(* the witness rows current does not have.                                 *)
CLLWrites(current, updated) ==
  [NoWrites EXCEPT
     !.meta = {MarshalMetadata(updated)},
     !.nodes = {[position |-> i - 1, node |-> updated.nodes[i]] :
                  i \in (Len(current.nodes) + 1)..Len(updated.nodes)},
     !.inserted = {RowOf(w) : w \in AddedWitnesses(current, updated)}]

(* The UPDATE of CommitWitness, which expects attempts.                    *)
WitnessWrites(attempts, w) == [NoWrites EXCEPT !.updated = {RowOf(w)}]

(* An INSERT of w meets a primary or unique key that t already has.        *)
Collides(t, w) ==
  \/ \E q \in t.entries, r \in w.entries : q.seq = r.seq \/ q.value = r.value
  \/ \E q \in t.nodes, r \in w.nodes : q.position = r.position
  \/ \E q \in t.witnesses, r \in w.inserted : RowKey(q) = RowKey(r)

(* The rows the UPDATE of CommitWitness finds: its key, at the attempts    *)
(* expected.                                                               *)
Matched(t, attempts, w) ==
  {q \in t.witnesses :
     q.attempts = attempts /\ \E r \in w.updated : RowKey(q) = RowKey(r)}

(* The tables once the writes are committed.                               *)
Installed(t, w) ==
  [meta |-> IF w.meta = {} THEN t.meta ELSE w.meta,
   entries |-> t.entries \cup w.entries,
   nodes |-> t.nodes \cup w.nodes,
   witnesses |-> {q \in t.witnesses :
                    \A r \in w.updated : RowKey(q) # RowKey(r)}
                 \cup w.updated \cup w.inserted]
=============================================================================

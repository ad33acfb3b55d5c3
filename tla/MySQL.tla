-------------------------------- MODULE MySQL --------------------------------
(***************************************************************************)
(* The MySQL backend (store/mysql/store.go): several processes, each with  *)
(* a handle of its own, run its operations as transactions statement by    *)
(* statement.  InnoDB, modelled from how the store uses it: a nonlocking   *)
(* SELECT reads the snapshot taken by the first one of its transaction; a  *)
(* locking SELECT, INSERT or UPDATE works on the latest committed rows and *)
(* waits for the transaction that holds them; a lock wait may end in an    *)
(* error; a transaction's writes become visible together.  This is         *)
(* REPEATABLE READ, which loads ask for and which writes, asking for no    *)
(* level, get where the server has its default.                            *)
(***************************************************************************)
EXTENDS Relational

CONSTANTS
  Client,        \* processes using the log
  NoClient,      \* nobody holds the metadata row
  Calls,         \* the operations each process may call
  AppendTime,    \* observation times passed to Append
  CLLInput,      \* states passed to CommitCLL
  WitnessInput,  \* rows passed to CommitWitness
  MaxInFlight    \* bound: calls in flight at a time

(* Operations and their arguments.                                         *)
Call ==
  [op : {"init", "open", "close", "load"}]
    \cup [op : {"append"}, value : Value, time : AppendTime]
    \cup [op : {"commitCLL"}, size : Nat, bytes : Bytes \cup {NoBytes},
          next : CLLInput]
    \cup [op : {"commitWitness"}, attempts : Nat, next : WitnessInput]

ASSUME CallAssumption ==
  /\ NoClient \notin Client
  /\ AppendTime \subseteq Time
  /\ CLLInput \subseteq State
  /\ WitnessInput \subseteq WitnessState
  /\ \A c \in Client : Calls[c] \subseteq Call
  /\ MaxInFlight \in Nat

VARIABLES
  schema,    \* how many of the four tables exist
  db,        \* committed rows
  locker,    \* whose transaction holds the log's cll_meta row
  pc,        \* next statement of each process; "closed" or "idle" if none
  call,      \* the operation it is in
  tx,        \* its transaction
  returned,  \* history: every <<seq, entry>> an Append answered
  seen       \* history: the states stored since a load began

clientVars == <<pc, call, tx>>
vars == <<schema, db, locker, clientVars, returned, seen>>

(* A transaction: its snapshot, from the first nonlocking SELECT to the    *)
(* last, the rows read, and its writes.                                    *)
NoTx ==
  [view |-> {}, meta |-> {}, entries |-> {}, nodes |-> {}, witnesses |-> {},
   writes |-> NoWrites]

NoCall == [op |-> "none"]

Init ==
  /\ schema = 0
  /\ db = NoRows
  /\ locker = NoClient
  /\ pc = [c \in Client |-> "closed"]
  /\ call = [c \in Client |-> NoCall]
  /\ tx = [c \in Client |-> NoTx]
  /\ returned = {}
  /\ seen = [c \in Client |-> {}]

-----------------------------------------------------------------------------
(* Beginning and ending.                                                   *)

Goes(c, label) == pc' = [pc EXCEPT ![c] = label]

(* Process c starts an operation: the handle is open and BEGIN succeeds.   *)
Begins(c, k, label) ==
  /\ Goes(c, label)
  /\ call' = [call EXCEPT ![c] = k]
  /\ UNCHANGED <<schema, db, locker, tx, returned>>

(* The call of c is over: COMMIT or ROLLBACK gives up its row locks.       *)
Ends(c, label) ==
  /\ Goes(c, label)
  /\ call' = [call EXCEPT ![c] = NoCall]
  /\ tx' = [tx EXCEPT ![c] = NoTx]
  /\ locker' = IF locker = c THEN NoClient ELSE locker

Opening == {"init", "open"}

(* Where a call that fails leaves the handle.                              *)
Fails(c) == Ends(c, IF call[c].op \in Opening THEN "closed" ELSE "idle")

(* The first statement of an operation's transaction.                      *)
FirstStatement(op) ==
  CASE op = "init" -> "create"
    [] op = "open" -> "entries"
    [] op = "load" -> "meta"
    [] op \in {"append", "commitCLL"} -> "lock"
    [] op = "commitWitness" -> "witness"

StartCall(c) ==
  /\ Cardinality({d \in Client : call[d] # NoCall}) < MaxInFlight
  /\ \E k \in Calls[c] :
       /\ k.op # "close"
       /\ pc[c] = IF k.op \in Opening THEN "closed" ELSE "idle"
       /\ Begins(c, k, FirstStatement(k.op))

(* Close: waits for the operations on the handle, so none is in flight.    *)
Close(c) ==
  /\ pc[c] = "idle" /\ [op |-> "close"] \in Calls[c]
  /\ Goes(c, "closed")
  /\ UNCHANGED <<schema, db, locker, call, tx, returned>>

(* A statement, the connection or the process fails, or a lock wait ends   *)
(* with error 1205 or 1213: the transaction is rolled back.                *)
Abort(c) ==
  /\ pc[c] \notin {"closed", "idle"}
  /\ Fails(c)
  /\ UNCHANGED <<schema, db, returned>>

-----------------------------------------------------------------------------
(* Provisioning: autocommitted statements.                                 *)

(* The CREATE TABLE IF NOT EXISTS statements of Init, in order, all of     *)
(* them or up to the one that fails.                                       *)
CreateTables(c) ==
  /\ pc[c] = "create"
  /\ \E n \in schema..4 :
       /\ schema' = n
       /\ IF n = 4 THEN Goes(c, "insert log") /\ UNCHANGED <<locker, call, tx>>
                   ELSE Fails(c)
  /\ UNCHANGED <<db, returned>>

(* INSERT IGNORE INTO cll_meta: an existing row is waited for and kept.    *)
InsertLog(c) ==
  /\ pc[c] = "insert log" /\ locker = NoClient
  /\ db' = IF db.meta # {} THEN db
           ELSE [db EXCEPT !.meta = {MarshalMetadata(New)}]
  /\ Goes(c, "entries")
  /\ UNCHANGED <<schema, locker, call, tx, returned>>

(* validateEntries of Open and Init; it fails without the tables.          *)
ValidateEntries(c) ==
  /\ pc[c] = "entries"
  /\ IF schema = 4 /\ validateEntries(db.entries)
     THEN Goes(c, "meta") /\ UNCHANGED <<locker, call, tx>>
     ELSE Fails(c)
  /\ UNCHANGED <<schema, db, returned>>

-----------------------------------------------------------------------------
(* Statements inside a transaction.                                        *)

(* Fault: READ COMMITTED, every SELECT reads what is committed by then.    *)
ViewLatest(c) == db

(* The rows a nonlocking SELECT of c reads.                                *)
View(c) == IF tx[c].view = {} THEN db ELSE CHOOSE t \in tx[c].view : TRUE

(* c reads rows of a table into its transaction, and goes on.              *)
Reads(c, table, rows, label) ==
  /\ tx' = [tx EXCEPT ![c] = [@ EXCEPT !.view = {View(c)}, ![table] = rows]]
  /\ Goes(c, label)
  /\ UNCHANGED <<schema, db, locker, call, returned>>

(* Fault: the snapshot is taken before the lock is.                        *)
LockMetadataLate(c) ==
  /\ pc[c] = "lock"
  /\ \/ /\ tx[c].view = {}
        /\ tx' = [tx EXCEPT ![c].view = {db}]
        /\ UNCHANGED <<pc, locker>>
     \/ /\ tx[c].view # {} /\ locker = NoClient
        /\ locker' = c
        /\ tx' = [tx EXCEPT ![c].meta = db.meta]
        /\ Goes(c, IF call[c].op = "append" THEN "entry" ELSE "nodes")
  /\ UNCHANGED <<schema, db, call, returned>>

(* SELECT state FROM cll_meta ... FOR UPDATE, of lockMetadata and of       *)
(* loadState under CommitCLL: the latest row, and its lock, or an error    *)
(* where there is none.                                                    *)
LockMetadata(c) ==
  /\ pc[c] = "lock" /\ locker = NoClient
  /\ IF db.meta = {}
     THEN Fails(c)
     ELSE /\ locker' = c
          /\ tx' = [tx EXCEPT ![c].meta = db.meta]
          /\ Goes(c, IF call[c].op = "append" THEN "entry" ELSE "nodes")
          /\ UNCHANGED call
  /\ UNCHANGED <<schema, db, returned>>

(* The three SELECTs of loadState; a missing metadata row is an error.     *)
SelectMeta(c) ==
  /\ pc[c] = "meta"
  /\ IF View(c).meta = {}
     THEN Fails(c) /\ UNCHANGED <<schema, db, returned>>
     ELSE Reads(c, "meta", View(c).meta, "nodes")

SelectNodes(c) ==
  pc[c] = "nodes" /\ Reads(c, "nodes", View(c).nodes, "witnesses")

SelectWitnesses(c) ==
  /\ pc[c] = "witnesses"
  /\ tx' = [tx EXCEPT ![c].view = {}, ![c].witnesses = View(c).witnesses]
  /\ Goes(c, "loaded")
  /\ UNCHANGED <<schema, db, locker, call, returned>>

Loads(c) == Loadable(tx[c].meta, tx[c].nodes, tx[c].witnesses)
Loaded(c) == Assembled(tx[c].meta, tx[c].nodes, tx[c].witnesses)

(* LoadCLL, Open and Init have the state; Init closes its connection.      *)
LoadDone(c) ==
  /\ pc[c] = "loaded" /\ call[c].op # "commitCLL"
  /\ IF Loads(c) THEN Ends(c, IF call[c].op = "init" THEN "closed" ELSE "idle")
                 ELSE Fails(c)
  /\ UNCHANGED <<schema, db, returned>>

(* CommitCLL applies its argument to the state loaded and writes.          *)
ApplyCommit(c) ==
  /\ pc[c] = "loaded" /\ call[c].op = "commitCLL"
  /\ IF Loads(c) /\ CLLOutcome(Loaded(c), call[c].size, call[c].bytes,
                               call[c].next) = "ok"
     THEN /\ tx' = [tx EXCEPT ![c].writes =
                      CLLWrites(Loaded(c), ApplyCLL(Loaded(c), call[c].next))]
          /\ Goes(c, "insert")
          /\ UNCHANGED <<locker, call>>
     ELSE Fails(c)
  /\ UNCHANGED <<schema, db, returned>>

(* Append looks the value up; if it is not there, MAX(seq) of the same     *)
(* snapshot gives the sequence to insert, up to the portable bound.        *)
SelectEntry(c) ==
  /\ pc[c] = "entry"
  /\ LET k == call[c]
         found == {r \in View(c).entries : r.value = k.value}
         seq == NextSeq(View(c).entries)
     IN \/ /\ found # {}
           /\ tx' = [tx EXCEPT ![c].entries = found]
           /\ Goes(c, "commit")
           /\ UNCHANGED <<locker, call>>
        \/ /\ found = {} /\ seq <= MaxSeq
           /\ tx' = [tx EXCEPT ![c].writes = EntryWrites(seq, k.value, k.time)]
           /\ Goes(c, "insert")
           /\ UNCHANGED <<locker, call>>
        \/ /\ found = {} /\ seq > MaxSeq
           /\ Fails(c)
  /\ UNCHANGED <<schema, db, returned>>

(* Another transaction has written a key that w writes and not committed.  *)
Waits(c, w) ==
  \E d \in Client \ {c} :
    /\ pc[d] = "commit"
    /\ \/ Collides(Installed(NoRows, tx[d].writes), w)
       \/ \E q \in tx[d].writes.updated, r \in w.updated : RowKey(q) = RowKey(r)

(* The INSERTs, and the UPDATE of the locked metadata row; a key that      *)
(* exists is error 1062.                                                   *)
InsertRows(c) ==
  /\ pc[c] = "insert" /\ ~Waits(c, tx[c].writes)
  /\ IF Collides(db, tx[c].writes)
     THEN Fails(c)
     ELSE Goes(c, "commit") /\ UNCHANGED <<locker, call, tx>>
  /\ UNCHANGED <<schema, db, returned>>

(* CommitWitness reads its row in the snapshot and applies its argument.   *)
SelectWitness(c) ==
  /\ pc[c] = "witness"
  /\ LET k == call[c]
         row == {r.witness : r \in {q \in View(c).witnesses :
                                      RowKey(q) = WitnessKey(k.next)}}
         current == [New EXCEPT !.witnesses = row]
     IN IF row # {} /\ WitnessOutcome(current, k.attempts, k.next) = "ok"
        THEN /\ tx' = [tx EXCEPT ![c].writes = WitnessWrites(k.attempts, k.next)]
             /\ Goes(c, "update")
             /\ UNCHANGED <<locker, call>>
        ELSE Fails(c)
  /\ UNCHANGED <<schema, db, returned>>

(* Fault: the UPDATE finds its row by key alone.                           *)
UpdateWitnessBlindly(c) ==
  /\ pc[c] = "update" /\ ~Waits(c, tx[c].writes)
  /\ Goes(c, "commit")
  /\ UNCHANGED <<schema, db, locker, call, tx, returned>>

(* UPDATE ... AND attempts=?, on the latest row.  The driver counts the    *)
(* rows changed: none if the row already is what it is set to.             *)
UpdateWitness(c) ==
  /\ pc[c] = "update" /\ ~Waits(c, tx[c].writes)
  /\ IF Matched(db, call[c].attempts, tx[c].writes) \ tx[c].writes.updated = {}
     THEN Fails(c)
     ELSE Goes(c, "commit") /\ UNCHANGED <<locker, call, tx>>
  /\ UNCHANGED <<schema, db, returned>>

(* What a finished Append answers: its row, or the one it found.           *)
Answer(c) ==
  {<<r.seq, entryFromRow(r)>> : r \in tx[c].entries \cup tx[c].writes.entries}

(* COMMIT succeeds and the operation answers.                              *)
Commit(c) ==
  /\ pc[c] = "commit"
  /\ db' = Installed(db, tx[c].writes)
  /\ returned' = returned \cup Answer(c)
  /\ Ends(c, "idle")
  /\ UNCHANGED schema

(* Fault: an error of COMMIT is not looked at.                             *)
CommitAnsweredAnyway(c) ==
  /\ pc[c] = "commit"
  /\ returned' = returned \cup Answer(c)
  /\ Ends(c, "idle")
  /\ UNCHANGED <<schema, db>>

(* COMMIT takes effect but its answer is lost: the caller sees an error.   *)
CommitUnanswered(c) ==
  /\ pc[c] = "commit"
  /\ db' = Installed(db, tx[c].writes)
  /\ Fails(c)
  /\ UNCHANGED <<schema, returned>>

Step(c) ==
  \/ StartCall(c) \/ Close(c) \/ Abort(c)
  \/ CreateTables(c) \/ InsertLog(c) \/ ValidateEntries(c)
  \/ LockMetadata(c) \/ SelectMeta(c) \/ SelectNodes(c) \/ SelectWitnesses(c)
  \/ LoadDone(c) \/ ApplyCommit(c) \/ SelectEntry(c) \/ InsertRows(c)
  \/ SelectWitness(c) \/ UpdateWitness(c) \/ Commit(c) \/ CommitUnanswered(c)

(* The operations whose answer is a state read in one transaction.         *)
Loading == {"load", "open", "init"}

Next ==
  /\ \E c \in Client : Step(c)
  /\ seen' = [c \in Client |->
                IF call'[c].op \in Loading THEN seen[c] \cup {StateOf(db')}
                                           ELSE {}]

Spec == Init /\ [][Next]_vars

-----------------------------------------------------------------------------
(* The queries, over the rows a read transaction finds.                    *)

(* GetEntry; no row is ErrNotFound.                                        *)
GetEntry(v) == {r \in db.entries : r.value = v}

(* Fault: the scan starts at the entry it should start after.              *)
SelectEntriesFrom(afterSeq, limit) ==
  OrderedBySeq({r \in db.entries : r.seq >= afterSeq}, limit)

(* ScanEntries.                                                            *)
SelectEntries(afterSeq, limit) ==
  OrderedBySeq({r \in db.entries : r.seq > afterSeq}, limit)

(* PendingWitnesses, of an engine that holds the witness rows and no log,  *)
(* where columns and JSON agree and the engine accepts them.               *)
SelectPending(now, limit) ==
  LET rows == [New EXCEPT !.witnesses = {r.witness : r \in db.witnesses}]
  IN  {PendingWitnesses(s, now, limit) :
         s \in {t \in {rows} : IndexAgrees(db.witnesses) /\ StateFromWire(t)}}

(* GetWitness, where columns and JSON agree.                               *)
GetWitness(id, size) ==
  {r.witness : r \in {q \in db.witnesses :
                        RowKey(q) = <<id, size>> /\ IndexAgrees({q})}}

-----------------------------------------------------------------------------
(* No INSERT ever meets an existing key: what an operation reads under the *)
(* metadata lock is still the latest when it writes, since the snapshot is *)
(* taken after the lock.  Otherwise Append would answer contention with    *)
(* nobody to contend with, or fork the sequence.                           *)
InsertsNeverCollide ==
  \A c \in Client : pc[c] = "insert" => ~Collides(db, tx[c].writes)

(* The three SELECTs of a load give one state, and one that was stored at  *)
(* some moment of the call: nothing torn, nothing older than the call.     *)
LoadsAreMoments ==
  \A c \in Client :
    pc[c] = "loaded" =>
      /\ Loads(c)
      /\ call[c].op \in Loading => Loaded(c) \in seen[c]

(* An entry Append has answered stays, at its sequence and with its time,  *)
(* whichever COMMITs were lost before.                                     *)
AnsweredEntriesStay ==
  \A a \in returned :
    \E r \in db.entries : r.seq = a[1] /\ entryFromRow(r) = a[2]

(* Whatever transactions are in flight and however earlier ones died, the  *)
(* committed rows serve as the engine: a process that opens the log then   *)
(* accepts them, and queries answer from them what the engine answers from *)
(* its log and state.  A scan by sequence number finds what an index into  *)
(* the log does, and PendingWitnesses needs no log.                        *)
RowsServeAsEngine ==
  LET log == EntriesOf(db.entries)
      state == StateOf(db)
      Answered(rows) == [i \in DOMAIN rows |-> entryFromRow(rows[i])]
  IN  /\ db \in Tables /\ validateEntries(db.entries)
      /\ \A q, r \in db.entries : q.value = r.value => q = r
      /\ db.meta # {} => Loadable(db.meta, db.nodes, db.witnesses)
      /\ \A v \in Value :
           GetEntry(v) = {[seq |-> i, value |-> v,
                           appendedAt |-> log[i].appendedAt] :
                            i \in {j \in DOMAIN log : log[j].value = v}}
      /\ \A n \in 0..MaxSeq, k \in 1..MaxSeq :
           Answered(SelectEntries(n, k)) = ScanEntries(log, n, k)
      /\ \A w \in state.witnesses :
           /\ SelectPending(w.nextAttemptAt, 1)
                = {PendingWitnesses(state, w.nextAttemptAt, 1)}
           /\ GetWitness(w.id, w.size) = {w}

(* A delivery never overwrites one it has not seen: the row it replaces    *)
(* still has the attempts it expected when its COMMIT takes effect, though *)
(* it was read in a snapshot and without the metadata lock.                *)
DeliveriesNeverOverwrite ==
  [][\A c \in Client :
       pc[c] = "commit" /\ pc'[c] # "commit" /\ db' # db =>
         \A r \in tx[c].writes.updated :
           \E q \in db.witnesses :
             RowKey(q) = RowKey(r) /\ q.attempts = call[c].attempts]_vars

(* The engine with the committed rows as its log and state, having         *)
(* answered an Append of every entry it holds.                             *)
Contract == INSTANCE Engine WITH
  entries <- EntriesOf(db.entries),
  state <- StateOf(db),
  returned <- {<<r.seq, entryFromRow(r)>> : r \in db.entries},
  CLLInput <- {StateToWire(s) : s \in CLLInput},
  WitnessInput <- {WitnessToWire(w) : w \in WitnessInput}

(* Concurrent transactions of several processes, with stale snapshots,     *)
(* lost COMMIT answers and aborts, change the log only as single engine    *)
(* operations would: a commit that read witness rows before another        *)
(* process updated them does not take that update back.                    *)
ImplementsEngine == Contract!Spec
=============================================================================

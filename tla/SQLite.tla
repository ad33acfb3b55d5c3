-------------------------------- MODULE SQLite --------------------------------
(***************************************************************************)
(* The SQLite backend (store/sqlite/store.go): several processes open the  *)
(* same database file and log.  In each process the handles share a lock   *)
(* that is counted in the sharedLocks map; a call holds its handle's       *)
(* lifecycle lock and that lock while its transaction runs.  SQLite in WAL *)
(* mode, modelled from how the store uses it: BEGIN IMMEDIATE takes the    *)
(* file's single write lock, or fails when the bounded wait for it is      *)
(* over; a read transaction keeps the snapshot of its first SELECT; COMMIT *)
(* installs all writes at once.                                            *)
(***************************************************************************)
EXTENDS Relational

CONSTANTS
  Process, Client, Handle,  \* processes, their goroutines, their Store values
  Deployment,               \* who is in which process and calls what
  Lock,                     \* identities of sharedLock values
  NoClient, NoHandle, NoLock,
  AppendTime,               \* observation times passed to Append
  CLLInput,                 \* states passed to CommitCLL
  WitnessInput              \* rows passed to CommitWitness

(* Operations and their arguments.                                         *)
Call ==
  [op : {"init", "open", "close", "load"}]
    \cup [op : {"append"}, value : Value, time : AppendTime]
    \cup [op : {"commitCLL"}, size : Nat, bytes : Bytes \cup {NoBytes},
          next : CLLInput]
    \cup [op : {"commitWitness"}, attempts : Nat, next : WitnessInput]

ASSUME CallAssumption ==
  /\ NoClient \notin Client /\ NoHandle \notin Handle /\ NoLock \notin Lock
  /\ Deployment \subseteq
       [home : [Client \cup Handle -> Process], calls : [Client -> SUBSET Call]]
  /\ AppendTime \subseteq Time
  /\ CLLInput \subseteq State
  /\ WitnessInput \subseteq WitnessState

(* Allocation always gives a lock no process has.                          *)
ASSUME LockAssumption ==
  /\ IsFiniteSet(Handle)
  /\ \A used \in [Process -> Lock \cup {NoLock}], p \in Process :
       used[p] = NoLock => \E l \in Lock : \A q \in Process : used[q] # l

VARIABLES
  deployed,  \* the deployment, which stays
  schema,    \* how many of the four tables exist
  db,        \* committed rows
  writer,    \* whose transaction holds SQLite's write lock
  items,     \* sharedLocks.items: each process's lock for this log
  refs,      \* sharedLock.refs
  mu,        \* who holds sharedLock.mu
  handle,    \* each Store: "closed", "opening" or "open", and its lock
  pc,        \* next step of each client, "idle" between calls
  call,      \* the operation it is in
  on,        \* the handle it is called on
  tx,        \* its transaction
  returned,  \* history: every <<seq, entry>> an Append answered
  seen       \* history: the states stored since a load's BEGIN

fileVars == <<deployed, schema, db>>
tableVars == <<items, refs, handle>>
clientVars == <<pc, call, on, tx>>
vars == <<fileVars, writer, mu, tableVars, clientVars, returned, seen>>

Home(x) == deployed.home[x]
Calls(c) == deployed.calls[c]

NoCall == [op |-> "none"]

(* A transaction: its snapshot, the rows it has read, its writes.          *)
NoTx ==
  [view |-> {}, meta |-> {}, entries |-> {}, nodes |-> {}, witnesses |-> {},
   writes |-> NoWrites]

NotOpen == [state |-> "closed", lock |-> NoLock]

Init ==
  /\ deployed \in Deployment
  /\ schema = 0 /\ db = NoRows
  /\ writer = NoClient
  /\ items = [p \in Process |-> NoLock]
  /\ refs = [l \in Lock |-> 0]
  /\ mu = [l \in Lock |-> NoClient]
  /\ handle = [h \in Handle |-> NotOpen]
  /\ pc = [c \in Client |-> "idle"]
  /\ call = [c \in Client |-> NoCall]
  /\ on = [c \in Client |-> NoHandle]
  /\ tx = [c \in Client |-> NoTx]
  /\ returned = {}
  /\ seen = [c \in Client |-> {}]

Goes(c, label) == pc' = [pc EXCEPT ![c] = label]

Shared(c) == handle[on[c]].lock

Opening == {"init", "open"}

-----------------------------------------------------------------------------
(* The lock table.                                                         *)

(* Lock values nobody refers to any more.                                  *)
Fresh ==
  {l \in Lock : /\ \A p \in Process : items[p] # l
                /\ \A h \in Handle : handle[h].lock # l}

(* acquireShared, for handle h: the process's lock, or a new one.  It is   *)
(* kept under the absolute path and the log: all handles of a process are  *)
(* assumed to name the database by one path (links are not resolved).      *)
acquireShared(h) ==
  LET p == Home(h)
      l == IF items[p] # NoLock THEN items[p] ELSE CHOOSE l \in Fresh : TRUE
  IN  /\ items' = [items EXCEPT ![p] = l]
      /\ refs' = [refs EXCEPT ![l] = @ + 1]
      /\ handle' = [handle EXCEPT ![h] = [state |-> "opening", lock |-> l]]

(* Fault: the lock is forgotten with the first handle released.            *)
releaseSharedAtOnce(h) ==
  LET l == items[Home(h)]
  IN  /\ refs' = [refs EXCEPT ![l] = @ - 1]
      /\ items' = [items EXCEPT ![Home(h)] = NoLock]

(* releaseShared, for handle h: forget the lock with its last reference.   *)
releaseShared(h) ==
  LET l == items[Home(h)]
  IN  /\ refs' = [refs EXCEPT ![l] = @ - 1]
      /\ items' = [items EXCEPT ![Home(h)] = IF refs[l] = 1 THEN NoLock ELSE @]

-----------------------------------------------------------------------------
(* Beginning and ending calls.                                             *)

(* Fault: an error leaves the shared lock held.                            *)
EndsLocked(c) ==
  /\ Goes(c, "idle")
  /\ call' = [call EXCEPT ![c] = NoCall]
  /\ on' = [on EXCEPT ![c] = NoHandle]
  /\ tx' = [tx EXCEPT ![c] = NoTx]
  /\ writer' = IF writer = c THEN NoClient ELSE writer
  /\ UNCHANGED mu

(* The call of c is over, its transaction committed or rolled back and     *)
(* its locks given up.                                                     *)
Ends(c) ==
  /\ Goes(c, "idle")
  /\ call' = [call EXCEPT ![c] = NoCall]
  /\ on' = [on EXCEPT ![c] = NoHandle]
  /\ tx' = [tx EXCEPT ![c] = NoTx]
  /\ writer' = IF writer = c THEN NoClient ELSE writer
  /\ mu' = [l \in Lock |-> IF mu[l] = c THEN NoClient ELSE mu[l]]

(* It fails; a failed open gives its reference back (closeOpenFailure).    *)
Fails(c) ==
  /\ Ends(c)
  /\ IF call[c].op \in Opening
     THEN /\ handle' = [handle EXCEPT ![on[c]] = NotOpen]
          /\ releaseShared(on[c])
     ELSE UNCHANGED tableVars

(* Client c calls k on handle h.                                           *)
Begins(c, k, h, label) ==
  /\ Goes(c, label)
  /\ call' = [call EXCEPT ![c] = k]
  /\ on' = [on EXCEPT ![c] = h]
  /\ UNCHANGED <<fileVars, writer, mu, tx, returned>>

(* Open or Init of a new Store value.                                      *)
StartOpen(c, h) ==
  /\ pc[c] = "idle" /\ Home(h) = Home(c)
  /\ handle[h].state = "closed" /\ \A d \in Client : on[d] # h
  /\ \E k \in Calls(c) : k.op \in Opening /\ Begins(c, k, h, "lock")
  /\ acquireShared(h)

(* lifecycle.RLock of a call on an open Store; a Close that waits for the  *)
(* lifecycle lock goes first.                                              *)
StartCall(c, h) ==
  /\ pc[c] = "idle" /\ Home(h) = Home(c)
  /\ handle[h].state = "open"
  /\ \A d \in Client : on[d] = h => call[d].op # "close"
  /\ \E k \in Calls(c) : k.op \notin Opening \cup {"close"}
                           /\ Begins(c, k, h, "lock")
  /\ UNCHANGED tableVars

StartClose(c, h) ==
  /\ pc[c] = "idle" /\ Home(h) = Home(c)
  /\ handle[h].state = "open"
  /\ [op |-> "close"] \in Calls(c)
  /\ Begins(c, [op |-> "close"], h, "drain")
  /\ UNCHANGED tableVars

(* Close gets the lifecycle lock: no call on the handle is left.  It is    *)
(* done if the Store was closed in the meantime.                           *)
Drained(c) ==
  /\ pc[c] = "drain"
  /\ \A d \in Client \ {c} : on[d] = on[c] => pc[d] = "drain"
  /\ IF handle[on[c]].state = "closed"
     THEN Ends(c)
     ELSE Goes(c, "lock") /\ UNCHANGED <<writer, mu, call, on, tx>>
  /\ UNCHANGED <<fileVars, tableVars, returned>>

(* shared.mu.Lock.                                                         *)
LockShared(c) ==
  /\ pc[c] = "lock" /\ mu[Shared(c)] = NoClient
  /\ mu' = [mu EXCEPT ![Shared(c)] = c]
  /\ Goes(c, CASE call[c].op = "init" -> "create"
               [] call[c].op = "close" -> "close"
               [] OTHER -> "begin")
  /\ UNCHANGED <<fileVars, writer, tableVars, call, on, tx, returned>>

(* Close closes the database under the lock and releases its reference.    *)
CloseHandle(c) ==
  /\ pc[c] = "close"
  /\ handle' = [handle EXCEPT ![on[c]] = NotOpen]
  /\ releaseShared(on[c])
  /\ Ends(c)
  /\ UNCHANGED <<fileVars, returned>>

(* A statement or the context fails, or BEGIN IMMEDIATE has waited for the *)
(* write lock in vain (ErrContention): ROLLBACK.                           *)
Abort(c) ==
  /\ pc[c] \notin {"idle", "drain", "lock", "close"}
  /\ Fails(c)
  /\ UNCHANGED <<fileVars, returned>>

(* Process p dies: SQLite drops its transactions and locks.                *)
Kill(p) ==
  LET gone == {c \in Client : Home(c) = p}
      locks == {handle[h].lock : h \in {g \in Handle : Home(g) = p}}
  IN  /\ \E h \in Handle : Home(h) = p /\ handle[h].state # "closed"
      /\ handle' = [h \in Handle |-> IF Home(h) = p THEN NotOpen ELSE handle[h]]
      /\ items' = [items EXCEPT ![p] = NoLock]
      /\ refs' = [l \in Lock |-> IF l \in locks THEN 0 ELSE refs[l]]
      /\ mu' = [l \in Lock |-> IF l \in locks THEN NoClient ELSE mu[l]]
      /\ writer' = IF writer \in gone THEN NoClient ELSE writer
      /\ pc' = [c \in Client |-> IF c \in gone THEN "idle" ELSE pc[c]]
      /\ call' = [c \in Client |-> IF c \in gone THEN NoCall ELSE call[c]]
      /\ on' = [c \in Client |-> IF c \in gone THEN NoHandle ELSE on[c]]
      /\ tx' = [c \in Client |-> IF c \in gone THEN NoTx ELSE tx[c]]
      /\ UNCHANGED <<fileVars, returned>>

-----------------------------------------------------------------------------
(* Provisioning, and the statements of a transaction.                      *)

(* The schema of Init, statement by statement outside a transaction, all   *)
(* of it or up to the one that fails.                                      *)
CreateTables(c) ==
  /\ pc[c] = "create" /\ writer = NoClient
  /\ \E n \in schema..4 :
       /\ schema' = n
       /\ IF n = 4
          THEN Goes(c, "insert log")
               /\ UNCHANGED <<writer, mu, tableVars, call, on, tx>>
          ELSE Fails(c)
  /\ UNCHANGED <<deployed, db, returned>>

(* Fault: provisioning writes an empty log over the one that exists.       *)
InsertLogAnyway(c) ==
  /\ pc[c] = "insert log" /\ writer = NoClient
  /\ db' = [db EXCEPT !.meta = {MarshalMetadata(New)}]
  /\ Goes(c, "begin")
  /\ UNCHANGED <<deployed, schema, writer, mu, tableVars, call, on, tx, returned>>

(* INSERT OR IGNORE INTO cll_meta: an existing row is kept.                *)
InsertLog(c) ==
  /\ pc[c] = "insert log" /\ writer = NoClient
  /\ db' = IF db.meta # {} THEN db
           ELSE [db EXCEPT !.meta = {MarshalMetadata(New)}]
  /\ Goes(c, "begin")
  /\ UNCHANGED <<deployed, schema, writer, mu, tableVars, call, on, tx, returned>>

(* BEGIN of withRead and validateOpenState, which takes no lock.           *)
BeginRead(c) ==
  /\ pc[c] = "begin" /\ call[c].op \in Opening \cup {"load"}
  /\ Goes(c, IF call[c].op = "load" THEN "meta" ELSE "entries")
  /\ UNCHANGED <<fileVars, writer, mu, tableVars, call, on, tx, returned>>

(* BEGIN IMMEDIATE of withWrite: the write lock, and what is committed.    *)
BeginWrite(c) ==
  /\ pc[c] = "begin" /\ call[c].op \notin Opening \cup {"load"}
  /\ writer = NoClient
  /\ writer' = c
  /\ tx' = [tx EXCEPT ![c].view = {db}]
  /\ Goes(c, "operate")
  /\ UNCHANGED <<fileVars, mu, tableVars, call, on, returned>>

(* Fault: every SELECT reads what is committed by then.                    *)
ViewLatest(c) == db

(* The rows a SELECT of c reads.                                           *)
View(c) == IF tx[c].view = {} THEN db ELSE CHOOSE t \in tx[c].view : TRUE

(* validateEntries; it fails without the tables.                           *)
ValidateEntries(c) ==
  /\ pc[c] = "entries"
  /\ IF schema = 4 /\ validateEntries(View(c).entries)
     THEN /\ tx' = [tx EXCEPT ![c].view = {View(c)}]
          /\ Goes(c, "meta")
          /\ UNCHANGED <<writer, mu, tableVars, call, on>>
     ELSE Fails(c)
  /\ UNCHANGED <<fileVars, returned>>

(* The three SELECTs of loadState; a missing metadata row is an error.     *)
SelectMeta(c) ==
  /\ pc[c] = "meta"
  /\ IF View(c).meta # {}
     THEN /\ tx' = [tx EXCEPT ![c].view = {View(c)}, ![c].meta = View(c).meta]
          /\ Goes(c, "nodes")
          /\ UNCHANGED <<writer, mu, tableVars, call, on>>
     ELSE Fails(c)
  /\ UNCHANGED <<fileVars, returned>>

SelectNodes(c) ==
  /\ pc[c] = "nodes"
  /\ tx' = [tx EXCEPT ![c].nodes = View(c).nodes]
  /\ Goes(c, "witnesses")
  /\ UNCHANGED <<fileVars, writer, mu, tableVars, call, on, returned>>

SelectWitnesses(c) ==
  /\ pc[c] = "witnesses"
  /\ tx' = [tx EXCEPT ![c].view = {}, ![c].witnesses = View(c).witnesses]
  /\ Goes(c, "loaded")
  /\ UNCHANGED <<fileVars, writer, mu, tableVars, call, on, returned>>

Loads(c) == Loadable(tx[c].meta, tx[c].nodes, tx[c].witnesses)
Loaded(c) == Assembled(tx[c].meta, tx[c].nodes, tx[c].witnesses)

(* LoadCLL answers; Open hands out the Store; Init closes its own.         *)
LoadDone(c) ==
  /\ pc[c] = "loaded"
  /\ \/ ~Loads(c) /\ Fails(c)
     \/ Loads(c) /\ call[c].op = "load" /\ Ends(c) /\ UNCHANGED tableVars
     \/ /\ Loads(c) /\ call[c].op = "open"
        /\ handle' = [handle EXCEPT ![on[c]].state = "open"]
        /\ Ends(c)
        /\ UNCHANGED <<items, refs>>
     \/ /\ Loads(c) /\ call[c].op = "init"
        /\ mu' = [mu EXCEPT ![Shared(c)] = NoClient]
        /\ call' = [call EXCEPT ![c] = [op |-> "close"]]
        /\ tx' = [tx EXCEPT ![c] = NoTx]
        /\ Goes(c, "drain")
        /\ UNCHANGED <<writer, tableVars, on>>
  /\ UNCHANGED <<fileVars, returned>>

-----------------------------------------------------------------------------
(* The operations that write, each within its transaction.                 *)

(* Append: the row with the value, or a row after the last.                *)
AppendEntry(c) ==
  LET k == call[c]
      found == {r \in View(c).entries : r.value = k.value}
      seq == NextSeq(View(c).entries)
  IN  \/ /\ found # {}
         /\ tx' = [tx EXCEPT ![c].entries = found]
      \/ /\ found = {} /\ seq <= MaxSeq
         /\ tx' = [tx EXCEPT ![c].writes = EntryWrites(seq, k.value, k.time)]

CommitCLL(c) ==
  LET k == call[c]
      t == View(c)
      current == Assembled(t.meta, t.nodes, t.witnesses)
  IN  /\ Loadable(t.meta, t.nodes, t.witnesses)
      /\ CLLOutcome(current, k.size, k.bytes, k.next) = "ok"
      /\ tx' = [tx EXCEPT ![c].writes =
                  CLLWrites(current, ApplyCLL(current, k.next))]

CommitWitness(c) ==
  LET k == call[c]
      row == {r.witness : r \in {q \in View(c).witnesses :
                                   RowKey(q) = WitnessKey(k.next)}}
      writes == WitnessWrites(k.attempts, k.next)
  IN  /\ row # {}
      /\ WitnessOutcome([New EXCEPT !.witnesses = row], k.attempts, k.next)
           = "ok"
      /\ Cardinality(Matched(View(c), k.attempts, writes)) = 1
      /\ tx' = [tx EXCEPT ![c].writes = writes]

(* The operation runs to its end; Abort is its refusal.                    *)
Operate(c) ==
  /\ pc[c] = "operate"
  /\ \/ call[c].op = "append" /\ AppendEntry(c)
     \/ call[c].op = "commitCLL" /\ CommitCLL(c)
     \/ call[c].op = "commitWitness" /\ CommitWitness(c)
  /\ Goes(c, "commit")
  /\ UNCHANGED <<fileVars, writer, mu, tableVars, call, on, returned>>

(* What a finished Append answers: its row, or the one it found.           *)
Answer(c) ==
  {<<r.seq, entryFromRow(r)>> : r \in tx[c].entries \cup tx[c].writes.entries}

(* COMMIT succeeds and the operation answers.                              *)
Commit(c) ==
  /\ pc[c] = "commit"
  /\ db' = Installed(db, tx[c].writes)
  /\ returned' = returned \cup Answer(c)
  /\ Ends(c)
  /\ UNCHANGED <<deployed, schema, tableVars>>

(* Fault: an error of COMMIT is not looked at.                             *)
CommitAnsweredAnyway(c) ==
  /\ pc[c] = "commit"
  /\ returned' = returned \cup Answer(c)
  /\ Ends(c)
  /\ UNCHANGED <<fileVars, tableVars>>

(* Fault: without BEGIN each statement commits by itself, and one fails.   *)
CommitPartly(c) ==
  /\ pc[c] = "commit"
  /\ db' = Installed(db, [tx[c].writes EXCEPT !.nodes = {}, !.inserted = {}])
  /\ Ends(c)
  /\ UNCHANGED <<deployed, schema, tableVars, returned>>

(* COMMIT takes effect but reports an error, as when the context ends      *)
(* while it runs; the ROLLBACK that follows undoes nothing.                *)
CommitUnanswered(c) ==
  /\ pc[c] = "commit"
  /\ db' = Installed(db, tx[c].writes)
  /\ Ends(c)
  /\ UNCHANGED <<deployed, schema, tableVars, returned>>

(* The steps a call takes by itself.                                       *)
Advance(c) ==
  \/ Drained(c) \/ CloseHandle(c)
  \/ CreateTables(c) \/ InsertLog(c) \/ BeginRead(c) \/ BeginWrite(c)
  \/ ValidateEntries(c) \/ SelectMeta(c) \/ SelectNodes(c)
  \/ SelectWitnesses(c) \/ LoadDone(c) \/ Operate(c) \/ Commit(c)

Step(c) ==
  \/ \E h \in Handle : StartOpen(c, h) \/ StartCall(c, h) \/ StartClose(c, h)
  \/ LockShared(c) \/ Abort(c) \/ CommitUnanswered(c) \/ Advance(c)

(* The SELECTs of a load and what follows the last.                        *)
Loading == {"entries", "meta", "nodes", "witnesses", "loaded"}

Next ==
  /\ (\E c \in Client : Step(c)) \/ (\E p \in Process : Kill(p))
  /\ seen' = [c \in Client |->
                IF pc'[c] \in Loading THEN seen[c] \cup {StateOf(db')} ELSE {}]

Spec == Init /\ [][Next]_vars

(* A transaction under way either advances or ends in an error, the wait   *)
(* for the write lock included; a Close waits only for calls that have     *)
(* begun; a Go mutex is handed to every goroutine that waits for it.       *)
Fairness ==
  \A c \in Client :
    /\ WF_clientVars(Advance(c) \/ Abort(c))
    /\ SF_clientVars(LockShared(c))

FairSpec == Spec /\ Fairness

-----------------------------------------------------------------------------
(* The queries, over the rows a read transaction finds.                    *)

(* GetEntry; no row is ErrNotFound.                                        *)
GetEntry(v) == {r \in db.entries : r.value = v}

(* ScanEntries.                                                            *)
SelectEntries(afterSeq, limit) ==
  OrderedBySeq({r \in db.entries : r.seq > afterSeq}, limit)

(* PendingWitnesses, of an engine that holds the witness rows and no log,  *)
(* where columns and JSON agree and the engine accepts them.               *)
SelectPending(now, limit) ==
  LET rows == [New EXCEPT !.witnesses = {r.witness : r \in db.witnesses}]
  IN  {PendingWitnesses(s, now, limit) :
         s \in {t \in {rows} : IndexAgrees(db.witnesses) /\ StateFromWire(t)}}

(* GetWitness, where columns and JSON agree.                               *)
GetWitness(id, size) ==
  {r.witness : r \in {q \in db.witnesses :
                        RowKey(q) = <<id, size>> /\ IndexAgrees({q})}}

-----------------------------------------------------------------------------
InTransaction(c) == pc[c] \notin {"idle", "drain", "lock"}

(* The calls of one process on the log run one after the other, whichever  *)
(* handles they use and however those are opened, closed and fail to open  *)
(* in between: two handles of a process never have different locks.        *)
ProcessSerializes ==
  \A c, d \in Client :
    c # d /\ Home(c) = Home(d) => ~(InTransaction(c) /\ InTransaction(d))

(* The Stores of process p that are open or being opened.                  *)
Live(p) == {h \in Handle : Home(h) = p /\ handle[h].state # "closed"}

(* The lock table counts exactly the handles that are open or being        *)
(* opened: no open that fails and no Close leaves an entry behind, or      *)
(* takes one that is still needed.                                         *)
LockTableExact ==
  \A p \in Process :
    IF Live(p) = {} THEN items[p] = NoLock
    ELSE /\ items[p] # NoLock
         /\ refs[items[p]] = Cardinality(Live(p))
         /\ \A h \in Live(p) : handle[h].lock = items[p]

(* The SELECTs of a load give one state, and one that was stored at some   *)
(* moment of the transaction, while another process commits in between.    *)
LoadsAreMoments ==
  \A c \in Client :
    pc[c] = "loaded" => Loads(c) /\ Loaded(c) \in seen[c]

(* An entry Append has answered stays, at its sequence and with its time,  *)
(* whichever processes died and whichever COMMITs were lost.               *)
AnsweredEntriesStay ==
  \A a \in returned :
    \E r \in db.entries : r.seq = a[1] /\ entryFromRow(r) = a[2]

(* Whatever transactions are in flight and however earlier ones died, the  *)
(* committed rows serve as the engine: a process that opens the log then   *)
(* accepts them, and queries answer from them what the engine answers from *)
(* its log and state.  A scan by sequence number finds what an index into  *)
(* the log does, and PendingWitnesses needs no log.                        *)
RowsServeAsEngine ==
  LET log == EntriesOf(db.entries)
      state == StateOf(db)
      Answered(rows) == [i \in DOMAIN rows |-> entryFromRow(rows[i])]
  IN  /\ db \in Tables /\ validateEntries(db.entries)
      /\ \A q, r \in db.entries : q.value = r.value => q = r
      /\ db.meta # {} => Loadable(db.meta, db.nodes, db.witnesses)
      /\ \A v \in Value :
           GetEntry(v) = {[seq |-> i, value |-> v,
                           appendedAt |-> log[i].appendedAt] :
                            i \in {j \in DOMAIN log : log[j].value = v}}
      /\ \A n \in 0..MaxSeq, k \in 1..MaxSeq :
           Answered(SelectEntries(n, k)) = ScanEntries(log, n, k)
      /\ \A w \in state.witnesses :
           /\ SelectPending(w.nextAttemptAt, 1)
                = {PendingWitnesses(state, w.nextAttemptAt, 1)}
           /\ GetWitness(w.id, w.size) = {w}

(* Every call returns: no order of shared lock, lifecycle lock and write   *)
(* lock leaves calls, opens and closes waiting for each other.             *)
CallsReturn == \A c \in Client : pc[c] # "idle" ~> pc[c] = "idle"
=============================================================================

# Verification of cll-go

TLA+ models of the Checkpointed Local Log, the TLC runs that check them on small
instances, and TLAPS proofs of the storage contract, of the safety of competing
checkpoint runners and of competing delivery runners, of the JSONL store's crash
recovery and of the SQLite store's locking.
`PROJECT.json` has the line-by-line correspondence with the source, the runs, the
mutants each property is known to detect, and the hazards.

## The system

An application appends 32-byte identities to a dense log. A *checkpoint runner*
indexes the log into a Merkle mountain range (MMR), signs a checkpoint of it when
enough entries or enough time have accumulated, and fans the checkpoint out into one
delivery row per witness. A *witness delivery runner* submits the rows, verifies the
receipts and records them. All durable state is behind one store interface with two
compare-and-set operations: `CommitCLL` compares the MMR size and the checkpoint
bytes, `CommitWitness` compares the row's attempt count. Several processes may run
runners of either kind over one store; they hold no lock between store calls.

| part | source | module | state |
|---|---|---|---|
| transition rules of all stores | `internal/backend/engine.go`, `clone.go` | `Backend`, `Engine` | modelled, proved |
| memory store | `store/memory` | `Engine` | modelled |
| JSONL store | `store/jsonl` | `JSONL` | modelled, proved |
| SQLite store | `store/sqlite` | `Relational`, `SQLite`, `SQLiteEngine` | modelled, locks proved |
| MySQL store | `store/mysql` | `Relational`, `MySQL` | modelled |
| wire encoding, times | `internal/backend/wire.go`, `internal/portable` | `Wire` | times, projections, validation |
| checkpoint runner | `checkpoint/runner.go` | `CheckpointRunner` | modelled, proved |
| checkpoint statements | `checkpoint/checkpoint.go` | `Statement` | all but byte formats |
| witness delivery runner | `witness/runner.go` | `Delivery` | modelled, proved |
| witness client | `witness/client.go` | `Delivery` | classes of answers |
| receipt verification | `witness/verify.go` | `Receipt` | all but byte formats |
| MMR and its proofs | `mmr/tree.go` | `MMR` | modelled |
| file node store | `mmr/node_store.go` | `NodeFile` | modelled |
| contract tests, interop programs | `internal/storetest`, `test/interop` | | no: test drivers |

## Modules

`Backend` has no state: it holds the records of package `cll` and the rules of
`engine.go` as operators (`CLLOutcome`/`ApplyCLL` is `ApplyCLL`, split into what it
answers and what it installs; likewise for witnesses and deltas). The modules of
stores and runners use it, so each rule is written once. `Wire` adds what encoding
does to states and rows. Data is abstracted as follows.

* An MMR node list is the sequence of leaves it is built over and `MMRSize[n]` the
  number of nodes over n leaves. What this needs of the tree is that sizes grow
  with leaves and that node lists extend each other when the leaves do; `MMR` checks
  that of the tree code (`NodesExtendHistory`).
* To stores and runners, checkpoint bytes are the claims they sign and a receipt is
  the statement it attests; `Statement` and `Receipt` check that the code of the
  two makes them so. Signatures and hashes are ideal. Error text is left out.
* Time is a number of instants since Go's zero time, `Milli` of them to a
  millisecond; `NormalizeTime` truncates.

`Engine` is the abstract specification of a store: one atomic step per operation,
over arbitrary callers. It is also the memory store, which is the engine behind one
mutex. Refused calls change nothing and are stuttering steps.

`JSONL` is the journal: a mutation changes the engine, then writes its line in parts,
fsyncs, and on an error truncates and restores the snapshot. `file` is what the
operating system shows and `disk` is the set of contents a power failure may leave.
A process may die between any two steps (`Kill`), power may fail (`PowerLoss`), and
a rollback may itself fail; each behaviour has one of the combinations in `Faults`.
Unless power failures meet faults that leave a line unsynced (`Synced`), it
implements `Engine` (`ImplementsEngine`): between mutations the store's contents are the
engine's; during one, or with no process, they are what the next `Open` would replay.
Opening is split as the code splits it, and what `Init` does after a repair (writing
the header of an emptied journal) is part of the repair.

`Relational` has the four tables the SQL stores share and the rows their statements
read and write; a transaction's writes are one record that `Installed` puts into the
tables at COMMIT.

`SQLite` has processes, their goroutines and their `Store` values. `items`, `refs` and
`mu` are the `sharedLocks` map and its locks, `handle` the Stores and `writer` SQLite's
write lock. A call takes `lifecycle`, then the shared lock, then begins its
transaction; loads read by separate SELECTs from a snapshot, mutations run in one step
under the write lock, since nobody can see or change anything between their
statements. Calls fail at any point (`Abort`), COMMIT may take effect and report an
error (`CommitUnanswered`), and processes die (`Kill`). The engine
refinement is in `SQLiteEngine`, which the lock proofs do not need. `Deployment` says
who is in which process and calls what.

`MySQL` runs every transaction statement by statement: `View` is the snapshot of the
first nonlocking SELECT, `locker` the holder of the log's `cll_meta` row, and `Waits`
the wait for rows that another open transaction has written. Both SQL modules
implement `Engine` with the committed rows as its state: each COMMIT is one engine
operation, whatever the transaction had read. A refused, aborted or idempotent call
changes no row. The databases are modelled from how the stores use them, as their
documentation promises for WAL mode and REPEATABLE READ.

`CheckpointRunner` has any number of runners over one store. A pass is `load`,
`scan`, `commit`, one step per store call; its locals are those of `catchUp` and
`advanceOnce`, including the cached state, tree and previous root that a catch-up
carries from batch to batch. A pass may die anywhere (`Abort`), also after its commit
took effect (`CommitUnacknowledged`). Deliveries update rows concurrently. `failed`
is the state of a runner that met `ErrCorrupt`, a signer refusal or `ErrInvalid`. A
statement cannot claim a size above `MaxSize` (the largest portable integer) or a time
above `MaxTimestamp` (the end of the year 9999); a runner that gets there fails, as in
the code, and `RunnersNeverFail` is about logs and clocks short of that (`Claimable`).

`Delivery` has any number of delivery runners. A pass queries the due rows once and
then runs one worker per witness; a submission and the commit of its outcome are two
steps. The witness answers with a receipt, a wrong receipt, a permanent or a
retryable error, or records the checkpoint and loses the answer; `Conduct` says which
of these a witness does. Times are relative to the present, so the clock is
unbounded. `attempts` wraps at `AttemptRange`, as a uint32 does at 2^32.

`MMR` is the tree code on 0-based node positions with hashes as free constructors,
and proofs as the code builds and checks them. The functions of the external MMR
library (`MMRIndex`, `Peaks`, `IndexHeight`, `AddHashedLeaf`, `HashPeaksRHS`) are
marked external in the map.

`NodeFile` adds the node file to the tree: records are written and fsynced one by one
while a leaf is added, errors leave the store open and the next Append writes over
what is there, processes die and power fails inside a record. A host indexes its `log`
through the file, reopens it, or rebuilds it when `New` refuses it.

`Statement` and `Receipt` have no state of their own: they are operators evaluated on
every reachable tree. A statement is the record its bytes encode, a signature the key
and what was signed. `Receipt` defines the witness's RFC 9162 log from the standard
(external) and the verifier from the code.

Each `Fault:` operator is a plausible bug of the definition that follows it;
substituting it must violate the property named in `PROJECT.json`.

## Runs

| run | instance | states | shows |
|---|---|---|---|
| `engine` | 3 identities, 2 entries, 1 witness | 2,710 | stored state valid whatever callers commit, deltas replay to the commit |
| `runner` | 2 runners, 2 entries, batches of 1, 1 witness, 1 death | 505,184 | the MMR follows the log, one chain of checkpoints, exact fan-out and pending time, no failing runner, no lost delivery |
| `runner_live` | 2 runners, one notified and one that `RunOnce` may start, 3 entries, batches of 1, no witness, 1 death, fair | 43,024 | every entry is eventually checkpointed; a notified one is indexed without the ticker too, unless a pass is aborted or a host calls `RunOnce` |
| `jsonl` | 4 lines, all faults or some | 277,787 | every image replays, acknowledged events survive, refinement of `Engine` |
| `sqlite` | 2 goroutines, 2 Stores, in one process or two, 2 entries | 66,761 | refinement of `Engine`, calls of a process never overlap, loads of one moment, rows that always reopen and answer as the engine, every call returns |
| `mysql` | 3 processes, 2 calls in flight, 2 entries, 1 witness | 431,853 | refinement of `Engine`, no colliding INSERT, no overwritten delivery, loads of one moment, rows as above |
| `delivery` | 2 runners, 1 witness answering anything, 2 checkpoints, jitter | 274,498 | receipts, permanence, waits, final rows |
| `delivery_live` | 2 runners, 2 witnesses, the first down for ever, a missing client, fair | 13,814 | the other witness gets everything, contention ends no Run loop |
| `mmr` | 2 values, up to 8 leaves in memory or 3 in a node file with 2 failures | 5,327 | proofs, statements and receipts verify for what they are about and nothing else; node files restore exactly |

Why the bounds are enough. Two runners suffice for a lost race, and two entries with
a scan limit of 1 for two batches in one catch-up, contention in the first or the
second, and a checkpoint by count or by age with another one behind it; the safety
part of this is proved for all sizes. Liveness takes three entries: with a batch for
each, a catch-up can lose twice and give up with entries left over that no token
announces. Four journal lines are a header and every kind
of event. Two Stores are what a shared lock takes, two processes what a race for the
file takes; the lock properties are proved for any number. `MaxInFlight` = 2 lets
every pair of the MySQL processes race and any third one start when one is done; a
stale snapshot takes two. Eight leaves give every shape of mountain range up to three
peaks and a perfect tree of height three, with paths of every length up to that; three
leaves in a file have leaves of one and of two records, and two failures a failed
write and a crash, or two crashes. `MaxPortableInteger` = 14 lies just below the size
of eight leaves, so that the bound is met from both sides; the receipts' witness logs
have up to seven entries, all sizes up to `maxTreeSize`. Two
delivery runners are what a lost compare-and-set takes; three attempts reach the
backoff cap (2, then 3). `attempts` wraps at `AttemptRange`, beyond what the run
reaches: 2^32 attempts, an hour apart at the default backoff cap, take half a million years.

`jsonl` and `runner_live` run `OrderedSpec`. In `jsonl` the first entry is always the
same of two interchangeable values. In `runner_live` the interchangeable values arrive
in one order, and the two runners have roles (`HostRoles`): the host of one notifies
it, that of the other calls `RunOnce`, and both run their ticker. `mmr` stops at its last leaf and is the only
passing run that does not check for deadlock.

Fairness. `runner_live` assumes that a runner goes on, with its pass or, when idle with
a token in its channel, with the `select` that takes it (weak fairness of the steps of
each runner together, since it always has at most one to take), and that the clock
runs. `EntriesGetCheckpointed` adds that the ticker fires (`Run` has a `time.Ticker`),
`NotifiedEntriesGetIndexed` does without. The latter has two exceptions, each of which
the run reaches. A pass that dies takes its token with it. And a pass gives up when it
has lost its compare-and-set twice in a row (`catchUp`), leaving the rest to the winner; a
catch-up that wins goes on until the log is indexed, but a `RunOnce` that wins does one
batch and stops. The entries left wait for the next tick. No step waits for another
process. Deaths are bounded, not fair. `delivery_live`
assumes the same of `Run`, and that each request returns, which the HTTP timeout
guarantees. A witness counts as reliable if its timeouts are bounded in number.
`sqlite` assumes that a call that holds its locks goes on or fails (`busy_timeout`
bounds the wait for the write lock) and that a Go mutex is granted to every goroutine
that keeps waiting (its starvation mode): strong fairness of `LockShared`.

### Disagreements

* `runner_zero_time`: `Config.Due` (`checkpoint.go:581`) takes a zero first pending
  time as absent, while `DESIGN.md:200-201` says that required timestamps do not use
  the zero value so. An entry appended at that instant is never checkpointed by age.
* `jsonl_unsynced`: `Open` replays a complete line that a killed writer never
  fsynced, and an idempotent `Append` (`store.go:276`) answers it as durable; a power
  failure then removes it. `AppendResult` promises "the durable entry"
  (`cll/types.go:61`). It takes both faults: `ImplementsEngine` in run `jsonl`
  shows that either alone is harmless. Inserted entries are never lost
  (`AcknowledgedEventsSurvive` holds under all faults).
* `delivery_starved`: delivery is "independently per witness" (`witness/runner.go:39`),
  but all witnesses share the limit of one query (`engine.go:266`), and after a
  retryable failure the rest of a witness's rows stay due. Once a dead witness has
  more due rows than the limit, polling once per backoff period never selects a
  newer row of a live one. The instance has a limit of 2 for 2 witnesses; `Run` uses
  `cll.MaxWitnesses`.

## Proofs

`RunnerProofs` proves for every set of runners, witnesses and identities, every scan
limit, cadence and log bound: `TypeCorrect`, `LogIsCommitted`, `PendingTimeIsExact`,
`CheckpointsFormChain`, `FanOutIsExact`, `NoRunnerFails`, `CompareIsSufficient` and
`DeliveryIsMonotone`. Run `runner` checks the properties they are about, but for
`TypeOK` and `CompareDetectsChange`, which are left to the proofs.
The assumptions are those of `Backend` and `CheckpointRunner`: positive scan limit
and cadence, and MMR sizes that grow strictly from 0. `NoRunnerFails` is about a runner
as long as a statement can claim the size of the whole log's MMR and the time of its
pass (`Claimable`); the other theorems need no such bound.

None of the properties is inductive alone. The inductive invariant `Inv` adds what a
pass holds between store calls: `PassSound` says its cached state was once right (it
matches a prefix of the log, its pending time is exact, its rows are rows of the store
up to delivery state, its previous root is that of its checkpoint), and
`ProposalSound` that what it is about to commit extends that state, by entries alone
or by a checkpoint of everything indexed too. The central lemma is
`CompareSuffices`: two sound states of one log that agree on size and checkpoint bytes
agree on everything but witness rows. So a successful compare means that the loaded
state is still the stored one, the proposal extends it, the new checkpoint is linked
to the head of the chain, and no second successor of the head can be committed.
Rows are merged by key, so stale rows add nothing and overwrite nothing.

`EngineProofs` proves the storage contract for any callers: whatever states and rows
they pass, and however long the log, `UniqueEntries`, `ValidState`, `AnswersStay`,
`Advances`, `DeliveryOwned` and `DeltasReplay`. The inductive invariant `IInv` is the
conjunction of the type invariant, `EntriesUnique`, `StoredStateValid` and
`ReturnedEntriesStay`: an accepted commit is valid as passed, but what is installed is
its merge with the stored rows, and that the merge is valid again (unique keys, rows
of checkpoints) needs the stored state to be. `DeltasReplay` rests on `DeltaAccepted`,
which shows that a delta passes the checks of replay with the same rows.

`SQLiteLocks` and `SQLiteProofs` prove `Serializes` and `LocksCounted` for any number of
processes, goroutines and Stores and any calls. The assumptions are that a process has
finitely many Stores and that allocation gives a lock no process has in its table
(`LockAssumption`). The invariant `LInv` says that a handle in use has the lock its
process's table has, that processes have different locks, that a lock in no table has
no references, that a call in its transaction holds its handle's lock, and what the
lifecycle lock is for (`Exclusive`): while a call opens or closes a Store no other call
is on it, so the reference it gives back is its own. `SQLiteLocks` shows that every
step keeps it, given three facts about cardinality (`HandleCounts`); `SQLiteProofs`
proves those and the theorems.

`DeliveryProofs` proves for any number of runners, witnesses and rows, any conduct of the
witnesses and any schedule: `ReceiptsAreAttested`, `GivenUpOnlyIfRefused`,
`RunnersSurviveContention`, `WaitsAreBounded` and `FinalRowsAreKept`. `IInv` adds what a
pass holds (`ProperPass`): its rows are rows of published checkpoints, a reply in hand
that verifies is for a checkpoint the witness recorded, and any other that is not
retryable was a refusal. The last two theorems assume `NoWrap`, that no row's attempt
counter is about to come round: the compare-and-set compares attempts only, and
`WorkNotNewer`, that a row in hand has no more attempts than the stored one and is the
same row if it has as many, needs them to grow. `WaitsAreBounded` compares the capped
loop of `backoff` with uncapped doubling (`Doubled`), by induction on the attempts.

`JSONLProofs` proves `EveryImageOpens`, `AcknowledgedSurvive` and
`JournalImplementsEngine` for any log, any callers and any number of faults and
reopenings. `IInv` says that every image the operating system or the disk may show
replays to a valid engine and starts with what was acknowledged (`Stored`), and that the
engine in memory is what the journal replays to, before and after the mutation in
progress (`Journalling`, `Holding`). For the refinement, `Near` adds that where power
failures are the only fault, what the disk may hold differs from the file by the event
being synced at most.

`BackendProofs` has the lemmas these share: induction as the provers can use it, what
merges and deltas keep valid, and that encoding commutes with the transition rules.

Some of what these modules prove no run checks again: `TypeOK`, `EntriesUnique`,
`ReturnedEntriesStay`, `MMRAndCheckpointAdvance` and `DeliveryStateOwned` of the engine,
and `LockTableExact` of SQLite.

Only model-checked: liveness; refinement of `Engine` by `SQLite` and `MySQL`, and their
rows and loads; everything about the tree, its file, statements and receipts, whose
definitions are recursive.

## Observations

* A crash between the records of one leaf leaves a node file of whole records that
  `New` refuses: nothing is torn, so opening repairs nothing, and the host has to
  rebuild the file from its leaves (`ImagesRestoreExactly`).
* MySQL counts changed rows, unless the caller's DSN sets `clientFoundRows`: a `CommitWitness` that writes a row identical to the
  stored one, with the attempts unchanged, answers contention where the other stores
  answer success. No runner makes such a call, since every outcome counts an attempt.
* If BEGIN could take effect and report an error (`store/sqlite/store.go:209`), the
  connection would go back to the pool inside a transaction. Whether it can is up to
  the driver; the model takes a failed BEGIN as not begun.
* `normalizeRunnerTime` accepts every portable time, `formatTimestamp`
  (`checkpoint/checkpoint.go`) none after the year 9999: a runner whose clock is beyond
  that fails at the first checkpoint that is due.
* SQLite's lock table is keyed by the absolute path, in which symbolic links are not
  resolved, where `DESIGN.md:439` has "canonical database path". Two Stores that a process
  opens by different names of a file have a lock each, as two processes do, and only
  SQLite's write lock between them. The model gives the file one name per process.
* `NodeFile` takes a created file's directory entry as durable, while nothing syncs the
  directory; a host whose file is gone rebuilds it from its leaves, as it does a refused one.

### Assumptions

* MySQL: `write` asks for no isolation level and gets the server's default; the model
  takes it to be REPEATABLE READ, MySQL's own. Log and witness names differ to the
  database when they differ as strings, whatever the collation of the columns.
* Rows are keyed by log and every statement names one log in its WHERE clause, so one
  log is modelled.
* Tree sizes are below the limit of 2^50 nodes that `VerifyRange` refuses (`maxMMRSize`).

## Not modelled

* COSE, CBOR, JSON and base64 encodings and the refusal of malformed bytes: bytes are
  the records they encode. Journals and tables written by other programs: decoding is
  checked on what the stores themselves write.
* HTTP and its limits in the witness client, beyond the classes of answers.
* Identifier syntax, configuration checks, hex wrappers. `Close` of the memory store,
  which only makes later calls fail.
* Several logs in one database, and isolation levels other than those above.
* The contract tests and interop programs, which are drivers and keep no state.

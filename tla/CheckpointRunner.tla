--------------------------- MODULE CheckpointRunner ---------------------------
(***************************************************************************)
(* Checkpoint runners (checkpoint/runner.go) competing over one store: an  *)
(* application appends entries, any number of runners index them into the  *)
(* MMR and sign checkpoints, and witness deliveries update the rows the    *)
(* checkpoints fan out to.  Every store call is one atomic step; between   *)
(* two calls of a pass anything else may happen.                           *)
(***************************************************************************)
EXTENDS Backend

CONSTANTS
  Runner,          \* Runner values of one or several host processes
  ScanLimit,       \* RunnerConfig.ScanLimit
  CadenceEntries,  \* Config.CadenceEntries
  CadenceAge,      \* Config.CadenceAge
  MaxSize,         \* cll.MaxPortableInteger, the largest size of a statement
  MaxTimestamp,    \* the end of year 9999, the last time of a statement
  AppendTime,      \* observation times applications pass to Append
  MaxClock,        \* bound: the last instant of the wall clock, portable
  MaxAttempts,     \* bound: delivery attempts per witness row
  MaxAborts        \* bound: passes cut short by a crash or an error

ASSUME ConfigAssumption ==
  /\ ScanLimit \in Nat \ {0}
  /\ CadenceEntries \in Nat \ {0}
  /\ CadenceAge \in Nat \ {0}
  /\ MaxSize \in Nat /\ MaxTimestamp \in Nat
ASSUME BoundAssumption ==
  /\ AppendTime \subseteq Time
  /\ MaxClock \in Nat /\ MaxAttempts \in Nat /\ MaxAborts \in Nat

VARIABLES
  entries,    \* the store's log
  state,      \* the store's cll.State
  clock,      \* wall clock
  aborts,     \* passes aborted so far
  notify,     \* Runner.notify, a channel of capacity one
  pass,       \* each runner's pass: where it is and its locals
  committed   \* history: every checkpoint CommitCLL installed

storeVars == <<entries, state, committed>>
vars == <<storeVars, pass, clock, aborts, notify>>

(* The locals of RunOnce, catchUp and advanceOnce.  state, tree and        *)
(* previous are the runnerState; next is the state about to be committed.  *)
Pass ==
  [pc : {"idle", "load", "scan", "commit", "failed"},
   mode : {"catchUp", "once"}, now : Time, reloaded : BOOLEAN,
   state : State, tree : Seq(Value), previous : Seq(Value), next : State]

(* No pass is running; nothing of the last one is kept.                    *)
Idle ==
  [pc |-> "idle", mode |-> "catchUp", now |-> 0, reloaded |-> FALSE,
   state |-> New, tree |-> << >>, previous |-> << >>, next |-> New]

Init ==
  /\ entries = << >> /\ state = New /\ committed = {}
  /\ clock = 1 /\ aborts = 0
  /\ notify = [r \in Runner |-> FALSE]
  /\ pass = [r \in Runner |-> Idle]

-----------------------------------------------------------------------------
(* The environment: application, clock and witness delivery.               *)

AppendEntry(v, t) ==
  /\ ~Present(entries, v)
  /\ Len(entries) + 1 <= MaxSeq
  /\ entries' = Append(entries, NewEntry(v, t))
  /\ UNCHANGED <<state, committed, pass, clock, aborts, notify>>

Tick ==
  /\ clock < MaxClock
  /\ clock' = clock + 1
  /\ UNCHANGED <<storeVars, pass, aborts, notify>>

(* A delivery runner commits the outcome of an attempt on row w: a receipt *)
(* for the row's checkpoint, or a failure (module Delivery has the detail).*)
Deliver(w, receipt) ==
  /\ w \in state.witnesses
  /\ w.receipt = NoBytes
  /\ w.attempts < MaxAttempts
  /\ state' = ApplyWitness(state, w.attempts,
                [w EXCEPT !.attempts = @ + 1, !.receipt = receipt])
  /\ UNCHANGED <<entries, committed, pass, clock, aborts, notify>>

(* Notify: a token for the loop, dropped when one is already waiting.      *)
Notify(r) ==
  /\ notify' = [notify EXCEPT ![r] = TRUE]
  /\ UNCHANGED <<storeVars, pass, clock, aborts>>

-----------------------------------------------------------------------------
(* One pass of a runner.                                                   *)

(* normalizeRunnerTime: the clock is in the portable range of times.       *)
StartPass(r, m) ==
  /\ pass[r].pc = "idle"
  /\ pass' = [pass EXCEPT ![r].pc = "load", ![r].mode = m,
                          ![r].now = NormalizeTime(clock)]
  /\ UNCHANGED <<storeVars, clock, aborts>>

(* Run wakes up for a notification, consuming the token.                   *)
WakeNotified(r) ==
  /\ notify[r]
  /\ notify' = [notify EXCEPT ![r] = FALSE]
  /\ StartPass(r, "catchUp")

(* Run starts, or its ticker fires.                                        *)
WakeTicker(r) == StartPass(r, "catchUp") /\ UNCHANGED notify

(* The host calls RunOnce.                                                 *)
RunOnce(r) == StartPass(r, "once") /\ UNCHANGED notify

(* verifyCheckpoint: the stored checkpoint's position, peaks, claims and   *)
(* root all agree with the restored tree.                                  *)
verifyCheckpoint(s) ==
  s.checkpoint # NoCheckpoint =>
    /\ s.checkpoint.indexedSeq \in 0..MaxSeq
    /\ s.checkpoint.size = MMRSize[s.checkpoint.indexedSeq]
    /\ s.checkpoint.size <= s.size
    /\ s.checkpoint.indexedSeq <= s.indexedSeq
    /\ Len(s.checkpoint.peaks) = s.checkpoint.indexedSeq
    /\ prefixEqual(s.checkpoint.peaks, s.nodes)
    /\ s.checkpoint.bytes.logSize = s.checkpoint.size
    /\ s.checkpoint.bytes.root = s.checkpoint.peaks

(* loadRunnerState's checks of a loaded state.                             *)
Restorable(s) ==
  /\ Len(s.nodes) = s.indexedSeq
  /\ s.indexedSeq \in 0..MaxSeq
  /\ s.size = MMRSize[s.indexedSeq]
  /\ verifyCheckpoint(s)

(* loadRunnerState: restore the tree and the previous root, or fail the    *)
(* pass with ErrCorrupt.                                                   *)
Load(r) ==
  /\ pass[r].pc = "load"
  /\ pass' = [pass EXCEPT
       ![r].pc = IF Restorable(state) THEN "scan" ELSE "failed",
       ![r].state = state,
       ![r].tree = state.nodes,
       ![r].previous = IF state.checkpoint = NoCheckpoint THEN << >>
                       ELSE state.checkpoint.bytes.root]
  /\ UNCHANGED <<storeVars, clock, aborts, notify>>

(* Fault: the age of the oldest entry is not looked at.                    *)
DueByCount(count, first, at) == count # 0 /\ count >= CadenceEntries

(* Config.Due.  Instant 0 is Go's zero time, which IsZero excludes.        *)
Due(count, first, at) ==
  /\ count # 0
  /\ \/ count >= CadenceEntries
     \/ first # 0 /\ at - first >= CadenceAge

(* Fault: the scan starts at the checkpoint's cursor.                      *)
BatchSinceCheckpoint(log, p) ==
  ScanEntries(log, p.state.checkpoint.indexedSeq, ScanLimit)

(* advanceOnce's scan: the entries after the pass's cursor.                *)
Batch(log, p) == ScanEntries(log, p.state.indexedSeq, ScanLimit)

(* The tree after the batch is appended to it.                             *)
Extended(log, p) ==
  p.tree \o [i \in 1..Len(Batch(log, p)) |-> Batch(log, p)[i].value]

(* The oldest time no checkpoint covers, after the batch.                  *)
FirstPending(log, p) ==
  IF p.state.firstPendingAt = NoTime /\ Batch(log, p) # << >>
  THEN NormalizeTime(Batch(log, p)[1].appendedAt)
  ELSE p.state.firstPendingAt

(* The state with the batch indexed.                                       *)
Indexed(log, p) ==
  [p.state EXCEPT
     !.size = MMRSize[Len(Extended(log, p))],
     !.nodes = Extended(log, p),
     !.indexedSeq = @ + Len(Batch(log, p)),
     !.firstPendingAt = FirstPending(log, p)]

CheckpointDue(log, p) ==
  /\ FirstPending(log, p) # NoTime
  /\ Due(Indexed(log, p).indexedSeq - p.state.checkpoint.indexedSeq,
         FirstPending(log, p), p.now)

(* The checks of the payload: size and time can be written, and the size   *)
(* is beyond the previous one.                                             *)
canonicalFields(p, s) ==
  /\ s.size <= MaxSize
  /\ p.state.checkpoint.size < s.size
  /\ p.now <= MaxTimestamp

(* The checks under signing: those, and the previous root is that of the   *)
(* previous peaks, which a consistency proof bridges to the new tree.      *)
CanSign(p, s) ==
  /\ canonicalFields(p, s)
  /\ p.previous = p.state.checkpoint.peaks
  /\ prefixEqual(p.state.checkpoint.peaks, s.nodes)

(* The statement signed over s, chained to the pass's checkpoint.          *)
SignedStatement(p, s) ==
  [logSize |-> s.size, root |-> s.nodes,
   prevSize |-> p.state.checkpoint.size, prevRoot |-> p.previous,
   issuedAt |-> p.now]

(* One unattempted row per configured witness.                             *)
FanOut(size, bytes, at) ==
  {[id |-> w, size |-> size, checkpoint |-> bytes, attempts |-> 0,
    nextAttemptAt |-> at, receipt |-> NoBytes, permanent |-> FALSE] :
     w \in WitnessID}

NewCheckpoint(p, s) ==
  [bytes |-> SignedStatement(p, s), size |-> s.size,
   indexedSeq |-> s.indexedSeq, peaks |-> s.nodes]

(* Fault: the pending time outlives the checkpoint.                        *)
WithCheckpointPending(p, s) ==
  [s EXCEPT
     !.checkpoint = NewCheckpoint(p, s),
     !.witnesses = @ \cup FanOut(s.size, SignedStatement(p, s), p.now)]

(* An indexed state s with its new checkpoint.                             *)
WithCheckpoint(p, s) ==
  [s EXCEPT
     !.checkpoint = NewCheckpoint(p, s),
     !.firstPendingAt = NoTime,
     !.witnesses = @ \cup FanOut(s.size, SignedStatement(p, s), p.now)]

(* The state advanceOnce proposes.                                         *)
Proposed(log, p) ==
  IF CheckpointDue(log, p) THEN WithCheckpoint(p, Indexed(log, p))
                           ELSE Indexed(log, p)

(* The pass about to call CommitCLL.                                       *)
Proposing(log, p) ==
  [p EXCEPT !.pc = "commit", !.tree = Extended(log, p),
            !.next = Proposed(log, p)]

(* advanceOnce up to its commit: scan, append the batch to the tree in     *)
(* place and build the next state; with nothing to commit the pass ends.   *)
(* What a store scans follows the cursor and has valid times, so that the  *)
(* check of each entry passes.                                             *)
Scan(r) ==
  /\ pass[r].pc = "scan"
  /\ pass' = [pass EXCEPT ![r] =
       IF Batch(entries, @) = << >> /\ ~CheckpointDue(entries, @) THEN Idle
       ELSE IF CheckpointDue(entries, @) /\ ~CanSign(@, Indexed(entries, @))
       THEN [@ EXCEPT !.pc = "failed"]
       ELSE Proposing(entries, @)]
  /\ UNCHANGED <<storeVars, clock, aborts, notify>>

(* What the store answers to the pass's CommitCLL.                         *)
Outcome(r) ==
  CLLOutcome(state, pass[r].state.size, pass[r].state.checkpoint.bytes,
             pass[r].next)

(* The store's half of a successful CommitCLL.                             *)
Install(r) ==
  /\ pass[r].pc = "commit"
  /\ Outcome(r) = "ok"
  /\ state' = ApplyCLL(state, pass[r].next)
  /\ committed' = (committed \cup {pass[r].next.checkpoint}) \ {NoCheckpoint}
  /\ UNCHANGED <<entries, clock, notify>>

(* Fault: the previous root is not advanced.                               *)
AfterCommitStale(p) ==
  IF p.mode = "once" THEN Idle
  ELSE [p EXCEPT !.pc = "scan", !.reloaded = FALSE, !.state = p.next]

(* Fault: a catch-up stops after one batch.                                *)
AfterCommitOnce(p) == Idle

(* A catch-up keeps what it committed, its own (by now stale) witness rows *)
(* included, and scans on; RunOnce returns.                                *)
AfterCommit(p) ==
  IF p.mode = "once" THEN Idle
  ELSE [p EXCEPT
          !.pc = "scan", !.reloaded = FALSE, !.state = p.next,
          !.previous = IF p.next.checkpoint = p.state.checkpoint
                       THEN p.previous ELSE p.next.nodes]

Commit(r) ==
  /\ Install(r)
  /\ pass' = [pass EXCEPT ![r] = AfterCommit(@)]
  /\ UNCHANGED aborts

(* The commit is refused.  Contention makes a catch-up reload once, and    *)
(* end the pass the second time in a row; any other error ends Run.        *)
Refused(r) ==
  /\ pass[r].pc = "commit"
  /\ Outcome(r) # "ok"
  /\ pass' = [pass EXCEPT ![r] =
       IF Outcome(r) = "invalid" THEN [@ EXCEPT !.pc = "failed"]
       ELSE IF @.mode = "catchUp" /\ ~@.reloaded
            THEN [@ EXCEPT !.pc = "load", !.reloaded = TRUE]
            ELSE Idle]
  /\ UNCHANGED <<storeVars, clock, aborts, notify>>

(* A pass that dies: nothing it held in memory survives.                   *)
Die(r) ==
  /\ aborts < MaxAborts
  /\ aborts' = aborts + 1
  /\ pass' = [pass EXCEPT ![r] = Idle]

(* The pass ends early: crash and restart, cancelled context, signer or    *)
(* store I/O error.                                                        *)
Abort(r) ==
  /\ pass[r].pc \in {"load", "scan", "commit"}
  /\ Die(r)
  /\ UNCHANGED <<storeVars, clock, notify>>

(* The store commits, but the runner dies or sees an error before it       *)
(* learns so.                                                              *)
CommitUnacknowledged(r) == Install(r) /\ Die(r)

Next ==
  \/ \E v \in Value, t \in AppendTime : AppendEntry(v, t)
  \/ Tick
  \/ \E w \in state.witnesses, ok \in BOOLEAN :
       Deliver(w, IF ok THEN w.checkpoint ELSE NoBytes)
  \/ \E r \in Runner :
       \/ Notify(r) \/ WakeNotified(r) \/ WakeTicker(r) \/ RunOnce(r)
       \/ Load(r) \/ Scan(r) \/ Commit(r) \/ Refused(r)
       \/ Abort(r) \/ CommitUnacknowledged(r)

Spec == Init /\ [][Next]_vars

-----------------------------------------------------------------------------
(* Safety.                                                                 *)

(* Every variable holds a value of its Go type.                            *)
TypeOK ==
  /\ entries \in Seq(Entry)
  /\ state \in State
  /\ committed \subseteq CheckpointState
  /\ clock \in Time /\ aborts \in Nat
  /\ notify \in [Runner -> BOOLEAN]
  /\ pass \in [Runner -> Pass]

(* The leaf sequence is the log's first Len(leaves) identities, in order.  *)
IsLogPrefix(log, leaves) ==
  /\ Len(leaves) <= Len(log)
  /\ \A i \in 1..Len(leaves) : leaves[i] = log[i].value

(* The MMR is over exactly the first IndexedSeq entries of the log.        *)
Indexes(log, s) ==
  /\ IsLogPrefix(log, s.nodes)
  /\ s.indexedSeq = Len(s.nodes)
  /\ s.indexedSeq <= MaxSeq
  /\ s.size = MMRSize[s.indexedSeq]

(* A checkpoint and the claims in its bytes commit to a prefix of the log. *)
Attests(log, k) ==
  /\ IsLogPrefix(log, k.peaks)
  /\ k.indexedSeq = Len(k.peaks)
  /\ k.indexedSeq \in 1..MaxSeq
  /\ k.size = MMRSize[k.indexedSeq]
  /\ k.bytes \in Bytes
  /\ k.bytes.logSize = k.size
  /\ k.bytes.root = k.peaks

(* The pending time is that of the oldest indexed entry no checkpoint      *)
(* covers, and absent exactly when there is none.                          *)
Pending(log, s) ==
  s.firstPendingAt =
    IF s.indexedSeq = s.checkpoint.indexedSeq THEN NoTime
    ELSE log[s.checkpoint.indexedSeq + 1].appendedAt

MatchesLog(log, s) ==
  /\ Indexes(log, s)
  /\ s.checkpoint # NoCheckpoint => Attests(log, s.checkpoint)
  /\ s.checkpoint.indexedSeq <= s.indexedSeq

(* However runners interleave, crash and contend, the durable MMR and the  *)
(* checkpoint commit to prefixes of the log: no entry is skipped, indexed  *)
(* twice or indexed out of order.                                          *)
DurableStateMatchesLog == MatchesLog(entries, state)

(* FirstPendingAt is exact, so the age cadence survives restarts and lost  *)
(* races: an entry is neither forgotten nor counted after its checkpoint.  *)
FirstPendingExact == Pending(entries, state)

(* The checkpoints ever committed form one chain: one per size, each       *)
(* linked by PrevSize and PrevRoot to a committed one, no two to the same  *)
(* one, and the stored checkpoint is the head.                             *)
CheckpointChain ==
  /\ \A k \in committed :
       /\ k.size <= state.checkpoint.size
       /\ IF k.bytes.prevSize = 0 THEN k.bytes.prevRoot = << >>
          ELSE \E j \in committed : /\ j.size = k.bytes.prevSize
                                    /\ j.size < k.size
                                    /\ j.bytes.root = k.bytes.prevRoot
  /\ \A j, k \in committed :
       j.size = k.size \/ j.bytes.prevSize = k.bytes.prevSize => j = k
  /\ state.checkpoint # NoCheckpoint => state.checkpoint \in committed

(* Every committed checkpoint has a delivery row for every configured      *)
(* witness, and every row carries a committed checkpoint: racing commits   *)
(* of stale rows neither lose nor invent a delivery.                       *)
FanOutExact ==
  /\ \A k \in committed, id \in WitnessID :
       \E w \in state.witnesses :
         w.id = id /\ w.size = k.size /\ w.checkpoint = k.bytes
  /\ \A w \in state.witnesses :
       \E k \in committed : w.size = k.size /\ w.checkpoint = k.bytes

(* A statement of the pass can claim the MMR over the whole log, at the    *)
(* pass's time.                                                            *)
Claimable(log, p) == MMRSize[Len(log)] <= MaxSize /\ p.now <= MaxTimestamp

(* As long as a statement can claim size and time, no runner finds the     *)
(* durable state corrupt, fails the signer's checks, or proposes a state   *)
(* the store calls invalid: Run ends only for its host's reasons.          *)
RunnersNeverFail ==
  \A r \in Runner : Claimable(entries, pass[r]) => pass[r].pc # "failed"

(* CAS on size and checkpoint bytes is enough: if the compare succeeds,    *)
(* the MMR, cursor, pending time and checkpoint are still the loaded ones. *)
CompareDetectsChange ==
  \A r \in Runner :
    /\ pass[r].pc = "commit"
    /\ ExpectedMatches(state, pass[r].state.size, pass[r].state.checkpoint.bytes)
    => [state EXCEPT !.witnesses = {}] = [pass[r].state EXCEPT !.witnesses = {}]

(* No commit of a runner, holding rows as stale as they may be, takes back *)
(* an attempt or a receipt.                                                *)
DeliveryNeverRegresses ==
  [][\A v \in state.witnesses :
       \E w \in state'.witnesses :
         /\ WitnessKey(w) = WitnessKey(v)
         /\ w.checkpoint = v.checkpoint
         /\ w.attempts >= v.attempts
         /\ v.receipt # NoBytes => w = v]_vars

-----------------------------------------------------------------------------
(* The inductive invariant of the safety proofs (module RunnerProofs).     *)

(* The log fits the portable range and its times are whole milliseconds.   *)
LogValid(log) ==
  /\ Len(log) <= MaxSeq
  /\ \A i \in 1..Len(log) :
       NormalizeTime(log[i].appendedAt) = log[i].appendedAt

(* What a state of the store or of a pass always satisfies.                *)
Sound(log, s) == MatchesLog(log, s) /\ Pending(log, s)

(* Witness rows are valid, one per key, none beyond the checkpoint.        *)
RowsValid(s) ==
  /\ \A w \in s.witnesses : /\ validateWitness(w)
                            /\ w.size <= s.checkpoint.size
  /\ UniqueKeys(s.witnesses)

(* Every row of rows is, up to its delivery state, a row of stored.        *)
RowsKnown(rows, stored) ==
  \A w \in rows : \E v \in stored :
    WitnessKey(v) = WitnessKey(w) /\ v.checkpoint = w.checkpoint

(* Between store calls a pass holds a sound state, possibly outdated, its  *)
(* tree and its previous root.                                             *)
PassSound(log, stored, p) ==
  p.pc \in {"scan", "commit"} =>
    /\ Sound(log, p.state) /\ RowsValid(p.state)
    /\ RowsKnown(p.state.witnesses, stored)
    /\ p.previous = p.state.checkpoint.peaks
    /\ p.pc = "scan" => p.tree = p.state.nodes

(* At its commit, the proposal extends that state: by entries alone, or    *)
(* also by a checkpoint of everything indexed.                             *)
ProposalSound(log, p) ==
  p.pc = "commit" =>
    /\ Sound(log, p.next) /\ RowsValid(p.next)
    /\ p.tree = p.next.nodes
    /\ p.state.indexedSeq <= p.next.indexedSeq
    /\ \/ /\ p.next.checkpoint = p.state.checkpoint
          /\ p.next.witnesses = p.state.witnesses
       \/ /\ p.state.checkpoint.size < p.next.size
          /\ p.next.checkpoint = NewCheckpoint(p, p.next)
          /\ p.next.witnesses = p.state.witnesses \cup
               FanOut(p.next.size, SignedStatement(p, p.next), p.now)

(* All committed checkpoints attest the log.                               *)
CommittedAttest == \A k \in committed : Attests(entries, k)

Inv ==
  /\ TypeOK /\ LogValid(entries)
  /\ Sound(entries, state) /\ RowsValid(state)
  /\ \A r \in Runner : /\ PassSound(entries, state.witnesses, pass[r])
                       /\ ProposalSound(entries, pass[r])
  /\ RunnersNeverFail
  /\ CommittedAttest /\ CheckpointChain /\ FanOutExact

-----------------------------------------------------------------------------
(* Liveness.                                                               *)

(* The clock runs, and a runner goes on: a pass that has started continues *)
(* until it ends, and Run takes the notifications it is sent (only one of  *)
(* the five steps is ever possible).                                       *)
Fairness ==
  /\ WF_vars(Tick)
  /\ \A r \in Runner :
       WF_vars(Load(r) \/ Scan(r) \/ Commit(r) \/ Refused(r) \/ WakeNotified(r))

FairSpec == Spec /\ Fairness

(* The position of v in the log is covered by the stored checkpoint.       *)
Checkpointed(v) ==
  \E i \in 1..state.checkpoint.indexedSeq : entries[i].value = v

(* Where tickers fire (Run polls every PollInterval), every appended entry *)
(* is eventually covered by a checkpoint, through crashes, lost            *)
(* notifications and contention.                                           *)
EntriesGetCheckpointed ==
  (\A r \in Runner : WF_vars(WakeTicker(r))) =>
    \A v \in Value : Present(entries, v) ~> Checkpointed(v)

(* Some runner is in the one batch of a RunOnce.                           *)
RunsOnce == \E r \in Runner : pass[r].mode = "once"

(* The ticker need not fire for an entry whose append is followed by a     *)
(* notification: from then on it gets indexed, unless a pass is cut short  *)
(* or a host calls RunOnce.  A token is not lost to coalescing, and where  *)
(* the pass that took it gives up on contention, the catch-up it lost to   *)
(* goes on to the entry.  A RunOnce stops after the batch it won with, so  *)
(* then the entry may have to wait for the ticker.                         *)
NotifiedEntriesGetIndexed ==
  \A v \in Value :
    (\E r \in Runner : notify[r]) /\ Present(entries, v) ~>
      \/ aborts > 0 \/ RunsOnce
      \/ \E i \in 1..state.indexedSeq : entries[i].value = v
=============================================================================

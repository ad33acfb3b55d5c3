------------------------------- MODULE Delivery -------------------------------
(***************************************************************************)
(* Witness delivery (witness/runner.go): DeliveryRunners, in one process   *)
(* or several, submit the pending rows of one store to external witnesses  *)
(* and record the outcome with a compare-and-set on Attempts.              *)
(*                                                                         *)
(* Time is counted from the present: a row's nextAttemptAt is the delay    *)
(* that remains (0 once it has passed) and a pass's now is how long ago it *)
(* started, at most MaxBackoff, beyond which every delay has passed.  The  *)
(* only use the code makes of these times is to compare them.              *)
(***************************************************************************)
EXTENDS Backend

CONSTANTS
  Runner,          \* delivery runners
  Clients,         \* witnesses each runner has a client and a verifier for
  Conduct,         \* what each witness may answer, see Answer
  Unverifiable,    \* sizes whose stored checkpoint fails verification
  Limit,           \* rows per PendingWitnesses query
  BaseBackoff,     \* DeliveryConfig, in instants
  MaxBackoff,
  Jitter,
  AttemptRange,    \* range of the uint32 attempt counter
  MaxCheckpoints,  \* bound: checkpoints published
  MaxFailures,     \* bound: retryable failures of witnesses that recover
  MaxAborts        \* bound: passes cut short by cancellation or a crash

Answer == {"receipt", "garbage", "reject", "retry", "lost"}

ASSUME DeliveryAssumption ==
  /\ Clients \in [Runner -> SUBSET WitnessID]
  /\ Conduct \in [WitnessID -> SUBSET Answer]
  /\ Unverifiable \subseteq Nat
  /\ Limit \in Nat \ {0} /\ AttemptRange \in Nat \ {0} /\ Jitter \in BOOLEAN
  /\ BaseBackoff \in Nat \ {0} /\ MaxBackoff \in Nat /\ MaxBackoff >= BaseBackoff
  /\ MaxCheckpoints \in Nat /\ MaxFailures \in Nat /\ MaxAborts \in Nat

VARIABLES
  witnesses,  \* the store's witness rows
  pass,       \* each runner's current RunOnce
  recorded,   \* external: the checkpoints each witness has recorded
  published,  \* number of checkpoints the checkpoint runner has committed
  failures,   \* retryable failures so far of witnesses that recover
  aborts,     \* passes cut short so far
  refused     \* history: keys of rows some submission failed permanently for

vars == <<witnesses, pass, recorded, published, failures, aborts, refused>>

-----------------------------------------------------------------------------
(* Rows, passes and the retry schedule.                                    *)

(* A checkpoint statement the witnesses are to record.                     *)
Statement(n) ==
  [logSize |-> n, root |-> << >>, prevSize |-> 0, prevRoot |-> << >>,
   issuedAt |-> 0]

(* The row the checkpoint runner fans out to a witness, due at once.       *)
FreshRow(id, n) ==
  [id |-> id, size |-> n, checkpoint |-> Statement(n), attempts |-> 0,
   nextAttemptAt |-> 0, receipt |-> NoBytes, permanent |-> FALSE]

Final(w) == w.receipt # NoBytes \/ w.permanent

(* A row without the time that remains until it is due.                    *)
Untimed(w) == [w EXCEPT !.nextAttemptAt = 0]

(* The store's state, as the backend operators take it.                    *)
Store == [New EXCEPT !.witnesses = witnesses]

(* Replies a worker holds between Submit and CommitWitness.                *)
NoReply == [kind |-> "none", receipt |-> NoBytes]
Reply(kind) == [kind |-> kind, receipt |-> NoBytes]
ReceiptReply(bytes) == [kind |-> "receipt", receipt |-> bytes]

(* RunOnce: one worker per witness, with the rows it still has to deliver; *)
(* err is the first error on the results channel.                          *)
Idle ==
  [pc |-> "idle", now |-> 0, work |-> [id \in WitnessID |-> {}],
   reply |-> [id \in WitnessID |-> NoReply], err |-> "nil"]

(* Rows of one witness are delivered in checkpoint order.                  *)
First(rows) == CHOOSE w \in rows : \A v \in rows : w.size <= v.size

(* BaseBackoff doubled once per attempt, without the cap.                  *)
Doubled(attempts) ==
  LET delay[n \in 0..attempts] ==
        IF n = 0 THEN BaseBackoff ELSE 2 * delay[n - 1]
  IN  delay[attempts]

(* The delay of backoff before jitter: doubled once per attempt until it   *)
(* reaches MaxBackoff.                                                     *)
Exponential(attempts) ==
  LET delay[n \in 0..attempts] ==
        IF n = 0 THEN BaseBackoff
        ELSE LET d == delay[n - 1]
             IN  IF d > MaxBackoff - d THEN MaxBackoff ELSE 2 * d
  IN  delay[attempts]

(* The delays backoff may return.                                          *)
backoff(attempts) ==
  LET delay == Exponential(attempts)
  IN  IF Jitter THEN 0..(delay - 1) ELSE {delay}

(* now + delay, seen from the present.                                     *)
Later(now, delay) == IF now + delay > 0 THEN now + delay ELSE 0

(* Attempts++ on a uint32.                                                 *)
Attempted(w) == [w EXCEPT !.attempts = (@ + 1) % AttemptRange]

(* failedWitness: the row after a failed attempt.                          *)
failedWitness(w, now, permanent, delay) ==
  [Attempted(w) EXCEPT !.permanent = permanent,
                       !.nextAttemptAt = Later(now, delay)]

(* The row after a verified receipt.                                       *)
DeliveredWitness(w, now, receipt) ==
  [Attempted(w) EXCEPT !.nextAttemptAt = Later(now, 0), !.receipt = receipt,
                       !.permanent = FALSE]

-----------------------------------------------------------------------------
Init ==
  /\ witnesses = {}
  /\ pass = [r \in Runner |-> Idle]
  /\ recorded = [id \in WitnessID |-> {}]
  /\ published = 0 /\ failures = 0 /\ aborts = 0
  /\ refused = {}

(* The checkpoint runner commits a checkpoint with its fan-out.            *)
Publish ==
  /\ published < MaxCheckpoints
  /\ published' = published + 1
  /\ witnesses' = witnesses \cup {FreshRow(id, published') : id \in WitnessID}
  /\ UNCHANGED <<pass, recorded, failures, aborts, refused>>

Tick ==
  /\ witnesses' = {[w EXCEPT !.nextAttemptAt = Later(@, -1)] : w \in witnesses}
  /\ pass' = [r \in Runner |->
       [pass[r] EXCEPT
          !.now = IF pass[r].pc # "run" \/ @ = -MaxBackoff THEN @ ELSE @ - 1]]
  /\ UNCHANGED <<recorded, published, failures, aborts, refused>>

(* RunOnce, from the Run loop or the host: read the clock and the due      *)
(* rows, and start a worker per witness.                                   *)
RunOnce(r) ==
  /\ pass[r].pc = "idle"
  /\ LET due == PendingWitnesses(Store, 0, Limit) IN
     /\ due # {}
     /\ pass' = [pass EXCEPT ![r] =
          [Idle EXCEPT !.pc = "run",
             !.work = [id \in WitnessID |-> {w \in due : w.id = id}]]]
  /\ UNCHANGED <<witnesses, recorded, published, failures, aborts, refused>>

(* The worker for id may take a step: it has a row and, or not, a reply.   *)
Working(r, id, replied) ==
  /\ pass[r].pc = "run" /\ pass[r].work[id] # {}
  /\ (pass[r].reply[id] # NoReply) = replied

(* A worker stops with an error, leaving the rest of its rows.             *)
Stopped(p, id, err) ==
  [p EXCEPT !.work[id] = {}, !.reply[id] = NoReply,
            !.err = IF @ = "nil" THEN err ELSE @]

(* deliver: this runner has no client for the row's witness.               *)
NoClient(r, id) ==
  /\ Working(r, id, FALSE) /\ id \notin Clients[r]
  /\ pass' = [pass EXCEPT ![r] = Stopped(@, id, "invalid")]
  /\ UNCHANGED <<witnesses, recorded, published, failures, aborts, refused>>

(* deliver: the stored checkpoint does not verify and is never submitted.  *)
Unsubmittable(r, id) ==
  /\ Working(r, id, FALSE) /\ id \in Clients[r]
  /\ LET item == First(pass[r].work[id]) IN
     /\ item.size \in Unverifiable
     /\ refused' = refused \cup {WitnessKey(item)}
  /\ pass' = [pass EXCEPT ![r].reply[id] = Reply("permanent")]
  /\ UNCHANGED <<witnesses, recorded, published, failures, aborts>>

(* Submit: the witness answers.  A timeout or 5xx may come before or after *)
(* it recorded the checkpoint; a 4xx or an answer the client cannot read   *)
(* is permanent, and so is a receipt for another statement.                *)
Submit(r, id) ==
  /\ Working(r, id, FALSE) /\ id \in Clients[r]
  /\ LET item == First(pass[r].work[id]) IN
     /\ item.size \notin Unverifiable
     /\ \E answer \in Conduct[id] :
          /\ pass' = [pass EXCEPT ![r].reply[id] =
               CASE answer = "receipt" -> ReceiptReply(item.checkpoint)
                 [] answer = "garbage" -> ReceiptReply(Statement(0))
                 [] answer = "reject" -> Reply("permanent")
                 [] answer \in {"retry", "lost"} -> Reply("retryable")]
          /\ recorded' = IF answer \in {"receipt", "lost"}
               THEN [recorded EXCEPT ![id] = @ \cup {item.checkpoint}]
               ELSE recorded
          /\ refused' = IF answer \in {"garbage", "reject"}
               THEN refused \cup {WitnessKey(item)} ELSE refused
          /\ IF answer \in {"retry", "lost"} /\ "receipt" \in Conduct[id]
             THEN failures < MaxFailures /\ failures' = failures + 1
             ELSE UNCHANGED failures
  /\ UNCHANGED <<witnesses, published, aborts>>

(* Fault: the receipt is not verified.                                     *)
VerifiedBlindly(item, reply) == TRUE

(* Verifier.Verify: the receipt attests this checkpoint.                   *)
Verified(item, reply) == reply.receipt = item.checkpoint

(* Fault: every failed submission is permanent.                            *)
OutcomesPermanent(item, now, reply) ==
  IF reply.kind = "receipt" /\ Verified(item, reply)
  THEN {DeliveredWitness(item, now, reply.receipt)}
  ELSE {failedWitness(item, now, TRUE, delay) : delay \in backoff(item.attempts)}

(* The rows deliver may propose for a reply.                               *)
Outcomes(item, now, reply) ==
  IF reply.kind = "receipt" /\ Verified(item, reply)
  THEN {DeliveredWitness(item, now, reply.receipt)}
  ELSE {failedWitness(item, now, reply.kind # "retryable", delay) :
          delay \in backoff(item.attempts)}

(* CommitWitness, with the attempts the row had when the pass read it.  A  *)
(* retryable failure ends this witness's part of the pass.                 *)
Record(r, id) ==
  /\ Working(r, id, TRUE)
  /\ LET p == pass[r]
         item == First(p.work[id])
         reply == p.reply[id]
     IN  \E next \in Outcomes(item, p.now, reply) :
           LET outcome == WitnessOutcome(Store, item.attempts, next) IN
           IF outcome = "ok"
           THEN /\ witnesses' =
                     ApplyWitness(Store, item.attempts, next).witnesses
                /\ pass' = [pass EXCEPT
                     ![r].work[id] =
                        IF reply.kind = "retryable" THEN {} ELSE @ \ {item},
                     ![r].reply[id] = NoReply]
           ELSE /\ pass' = [pass EXCEPT ![r] = Stopped(p, id, outcome)]
                /\ UNCHANGED witnesses
  /\ UNCHANGED <<recorded, published, failures, aborts, refused>>

(* Fault: Run ends on every error.                                         *)
FinishFailing(r) ==
  /\ pass[r].pc = "run" /\ \A id \in WitnessID : pass[r].work[id] = {}
  /\ pass' = [pass EXCEPT ![r] =
       [Idle EXCEPT !.pc = IF pass[r].err # "nil" THEN "dead" ELSE "idle"]]
  /\ UNCHANGED <<witnesses, recorded, published, failures, aborts, refused>>

(* All workers are done.  Run goes on after contention, and ends on any    *)
(* other first error.                                                      *)
Finish(r) ==
  /\ pass[r].pc = "run" /\ \A id \in WitnessID : pass[r].work[id] = {}
  /\ pass' = [pass EXCEPT ![r] =
       [Idle EXCEPT !.pc = IF pass[r].err = "invalid" THEN "dead" ELSE "idle"]]
  /\ UNCHANGED <<witnesses, recorded, published, failures, aborts, refused>>

(* The context is cancelled or the process dies: no worker commits any     *)
(* more, whatever was already submitted; the host starts the runner again. *)
Abort(r) ==
  /\ pass[r].pc = "run" /\ aborts < MaxAborts
  /\ aborts' = aborts + 1
  /\ pass' = [pass EXCEPT ![r] = Idle]
  /\ UNCHANGED <<witnesses, recorded, published, failures, refused>>

(* A step of the worker for id.                                            *)
Work(r, id) ==
  NoClient(r, id) \/ Unsubmittable(r, id) \/ Submit(r, id) \/ Record(r, id)

Next ==
  \/ Publish \/ Tick
  \/ \E r \in Runner : \/ RunOnce(r) \/ Finish(r) \/ Abort(r)
                       \/ \E id \in WitnessID : Work(r, id)

Spec == Init /\ [][Next]_vars

(* The ticker keeps waking every Run loop, every HTTP request returns      *)
(* within its timeout, and time passes.                                    *)
Fairness ==
  /\ WF_vars(Tick)
  /\ \A r \in Runner : /\ WF_vars(RunOnce(r)) /\ WF_vars(Finish(r))
                       /\ \A id \in WitnessID : WF_vars(Work(r, id))

FairSpec == Spec /\ Fairness

-----------------------------------------------------------------------------
(* A stored receipt attests the row's own checkpoint, which that witness   *)
(* has recorded; a row is never both delivered and permanently failed.     *)
ReceiptsAttest ==
  \A w \in witnesses : w.receipt # NoBytes =>
    /\ w.receipt = w.checkpoint
    /\ w.checkpoint \in recorded[w.id]
    /\ ~w.permanent

(* A row is given up only after a submission of it failed permanently:     *)
(* timeouts, lost answers and contention alone never lose a checkpoint.    *)
PermanentMeansRefused ==
  \A w \in witnesses : w.permanent => WitnessKey(w) \in refused

(* A pending row is due again within the exponential schedule of its last  *)
(* attempt, and never later than MaxBackoff.                               *)
WaitWithinSchedule ==
  \A w \in witnesses :
    /\ w.nextAttemptAt <= MaxBackoff
    /\ w.attempts = 0 => w.nextAttemptAt = 0
    /\ w.attempts > 0 => w.nextAttemptAt <= Doubled(w.attempts - 1)

(* Losing a compare-and-set to another runner never ends a Run loop whose  *)
(* runner is configured for every witness.                                 *)
ContentionIsSurvived ==
  \A r \in Runner : Clients[r] = WitnessID => pass[r].pc # "dead"

(* A delivered or permanently failed row stays as it is: a slower runner's *)
(* outcome of the same row, read before, never overwrites it.              *)
FinalRowsStay ==
  [][\A v \in witnesses : Final(v) =>
       \E w \in witnesses' : Untimed(w) = Untimed(v)]_vars

(* Witnesses that answer with receipts, but for a bounded number of        *)
(* timeouts and lost answers.                                              *)
Reliable ==
  {id \in WitnessID : /\ "receipt" \in Conduct[id]
                      /\ Conduct[id] \subseteq {"receipt", "retry", "lost"}}

(* Every published checkpoint is eventually delivered to every reliable    *)
(* witness, whatever the other witnesses do.                               *)
DeliveredIndependently ==
  \A id \in Reliable, n \in (1..MaxCheckpoints) \ Unverifiable :
    published >= n ~> \E w \in witnesses : /\ WitnessKey(w) = <<id, n>>
                                          /\ w.receipt # NoBytes
=============================================================================

---------------------------- MODULE DeliveryProofs ----------------------------
(***************************************************************************)
(* Proofs about Delivery, for every number of runners and witnesses, every *)
(* behaviour of the witnesses and every retry schedule.                    *)
(*                                                                         *)
(* The inductive invariant IInv ties a worker's reply to what the witness  *)
(* did: a receipt that verifies is for a checkpoint the witness recorded,  *)
(* and a reply that is not retryable is remembered in refused.  Under      *)
(* NoWrap, that the uint32 attempt counter does not come round, a row a    *)
(* pass holds is never newer than the stored one, and is the same row      *)
(* where the attempts agree; this is what the compare-and-set rests on.    *)
(***************************************************************************)
EXTENDS Delivery, BackendProofs

-----------------------------------------------------------------------------
(* The retry schedule.                                                     *)

(* One step of the capped doubling.                                        *)
Capped(d) == IF d > MaxBackoff - d THEN MaxBackoff ELSE 2 * d

(* The functions that Exponential and Doubled choose.                      *)
IsCapped(f, n) ==
  f = [i \in 0..n |-> IF i = 0 THEN BaseBackoff ELSE Capped(f[i - 1])]
IsDoubled(f, n) ==
  f = [i \in 0..n |-> IF i = 0 THEN BaseBackoff ELSE 2 * f[i - 1]]

(* There is a capped schedule of every length.                             *)
LEMMA CappedExists == \A n \in Nat : \E f : IsCapped(f, n)
<1> DEFINE S == {n \in Nat : \E f : IsCapped(f, n)}
<1>1. 0 \in S
  <2>1. IsCapped([i \in 0..0 |-> BaseBackoff], 0)
    BY DEF IsCapped
  <2> QED BY <2>1
<1>2. ASSUME NEW n \in Nat, n \in S PROVE n + 1 \in S
  <2>1. PICK f : IsCapped(f, n)
    BY <1>2
  <2> DEFINE g == [i \in 0..(n + 1) |->
                     IF i = 0 THEN BaseBackoff ELSE Capped(f[i - 1])]
  <2>2. \A i \in 0..n : g[i] = f[i]
    BY <2>1 DEF IsCapped
  <2> HIDE DEF g
  <2>3. g = [i \in 0..(n + 1) |->
               IF i = 0 THEN BaseBackoff ELSE Capped(g[i - 1])]
    <3>1. \A i \in 0..(n + 1) : i # 0 => i - 1 \in 0..n
      OBVIOUS
    <3> QED BY <2>2, <3>1, Zenon DEF g
  <2> QED BY <2>3 DEF IsCapped
<1> HIDE DEF S
<1>3. \A n \in Nat : n \in S
  BY <1>1, <1>2, Induction
<1> QED BY <1>3 DEF S

(* There is a doubling schedule of every length.                           *)
LEMMA DoubledExists == \A n \in Nat : \E f : IsDoubled(f, n)
<1> DEFINE S == {n \in Nat : \E f : IsDoubled(f, n)}
<1>1. 0 \in S
  <2>1. IsDoubled([i \in 0..0 |-> BaseBackoff], 0)
    BY DEF IsDoubled
  <2> QED BY <2>1
<1>2. ASSUME NEW n \in Nat, n \in S PROVE n + 1 \in S
  <2>1. PICK f : IsDoubled(f, n)
    BY <1>2
  <2> DEFINE g == [i \in 0..(n + 1) |->
                     IF i = 0 THEN BaseBackoff ELSE 2 * f[i - 1]]
  <2>2. \A i \in 0..n : g[i] = f[i]
    BY <2>1 DEF IsDoubled
  <2> HIDE DEF g
  <2>3. g = [i \in 0..(n + 1) |->
               IF i = 0 THEN BaseBackoff ELSE 2 * g[i - 1]]
    <3>1. \A i \in 0..(n + 1) : i # 0 => i - 1 \in 0..n
      OBVIOUS
    <3> QED BY <2>2, <3>1, Zenon DEF g
  <2> QED BY <2>3 DEF IsDoubled
<1> HIDE DEF S
<1>3. \A n \in Nat : n \in S
  BY <1>1, <1>2, Induction
<1> QED BY <1>3 DEF S

(* backoff's delay is positive, at most MaxBackoff and at most             *)
(* BaseBackoff doubled once per attempt.                                   *)
LEMMA ExponentialBounds ==
  ASSUME NEW n \in Nat
  PROVE  /\ Exponential(n) \in 1..MaxBackoff
         /\ Doubled(n) \in Nat /\ Exponential(n) <= Doubled(n)
<1> DEFINE f == CHOOSE f : IsCapped(f, n)
           g == CHOOSE g : IsDoubled(g, n)
<1>1. IsCapped(f, n) /\ IsDoubled(g, n)
  BY CappedExists, DoubledExists
<1>2. Exponential(n) = f[n] /\ Doubled(n) = g[n]
  BY DEF Exponential, Doubled, IsCapped, IsDoubled, Capped
<1> HIDE DEF f, g
<1> DEFINE S == {i \in Nat : i <= n =>
                   f[i] \in 1..MaxBackoff /\ g[i] \in Nat /\ f[i] <= g[i]}
<1>3. 0 \in S
  BY <1>1, DeliveryAssumption DEF IsCapped, IsDoubled
<1>4. ASSUME NEW i \in Nat, i \in S PROVE i + 1 \in S
  <2>1. SUFFICES ASSUME i + 1 <= n
        PROVE /\ f[i + 1] \in 1..MaxBackoff
              /\ g[i + 1] \in Nat /\ f[i + 1] <= g[i + 1]
    OBVIOUS
  <2>2. f[i] \in 1..MaxBackoff /\ g[i] \in Nat /\ f[i] <= g[i]
    BY <1>4, <2>1
  <2>3. f[i + 1] = Capped(f[i]) /\ g[i + 1] = 2 * g[i]
    BY <1>1, <2>1 DEF IsCapped, IsDoubled
  <2> QED BY <2>2, <2>3, DeliveryAssumption DEF Capped
<1> HIDE DEF S
<1>5. \A i \in Nat : i \in S
  BY <1>3, <1>4, Induction
<1> QED BY <1>2, <1>5 DEF S

-----------------------------------------------------------------------------
(* The inductive invariant.                                                *)

Replies ==
  {NoReply, Reply("permanent"), Reply("retryable")}
    \cup {ReceiptReply(b) : b \in Bytes}

PassType ==
  [pc : {"idle", "run", "dead"}, now : Int,
   work : [WitnessID -> SUBSET WitnessState], reply : [WitnessID -> Replies],
   err : {"nil", "invalid", "contention"}]

TypeOK ==
  /\ witnesses \subseteq WitnessState
  /\ pass \in [Runner -> PassType]
  /\ recorded \in [WitnessID -> SUBSET Bytes]
  /\ published \in Nat /\ failures \in Nat /\ aborts \in Nat
  /\ refused \subseteq WitnessID \X Nat

(* A row of one of the n checkpoints published, whose outcome is backed by *)
(* what the witnesses recorded (rec) and what was refused (ref).           *)
ProperRow(w, n, rec, ref) ==
  /\ w.size \in 1..n /\ w.checkpoint = Statement(w.size)
  /\ w.receipt # NoBytes => /\ w.receipt = w.checkpoint
                            /\ w.checkpoint \in rec[w.id]
                            /\ ~w.permanent
  /\ w.permanent => WitnessKey(w) \in ref

(* What a reply in hand says of the row it is for: a receipt that verifies *)
(* was recorded, anything else that is not retryable is a refusal.         *)
ProperReply(id, item, reply, rec, ref) ==
  IF reply.kind = "receipt" /\ Verified(item, reply)
  THEN item.checkpoint \in rec[id]
  ELSE reply.kind # "retryable" => WitnessKey(item) \in ref

(* The rows a worker holds are due rows of its witness, its reply is for   *)
(* the first of them, and only a runner that lacks a client sees an error  *)
(* that ends Run.                                                          *)
ProperWork(id, rows, n) ==
  \A v \in rows : /\ v.id = id /\ ~Final(v)
                  /\ v.size \in 1..n /\ v.checkpoint = Statement(v.size)

ProperPass(r, p, n, rec, ref) ==
  /\ \A id \in WitnessID :
       /\ ProperWork(id, p.work[id], n)
       /\ p.reply[id] # NoReply =>
            /\ p.work[id] # {}
            /\ ProperReply(id, First(p.work[id]), p.reply[id], rec, ref)
  /\ p.err = "invalid" \/ p.pc = "dead" => Clients[r] # WitnessID

IInv ==
  /\ TypeOK
  /\ UniqueKeys(witnesses)
  /\ \A w \in witnesses : ProperRow(w, published, recorded, refused)
  /\ \A r \in Runner : ProperPass(r, pass[r], published, recorded, refused)

(* The attempt counter of no stored row is about to come round.            *)
NoWrap == \A w \in witnesses : w.attempts + 1 < AttemptRange

(* A row in hand is not newer than the stored one, and is the same but for *)
(* the time to wait if as many attempts were made.                         *)
WorkNotNewer ==
  \A r \in Runner, id \in WitnessID :
    \A v \in pass[r].work[id], w \in witnesses :
      WitnessKey(v) = WitnessKey(w) =>
        /\ v.attempts <= w.attempts
        /\ v.attempts = w.attempts => Untimed(v) = Untimed(w)

(* A pass starts at the present and only recedes.                          *)
PassesRecede == \A r \in Runner : pass[r].now <= 0

WInv == WorkNotNewer /\ PassesRecede /\ WaitWithinSchedule

-----------------------------------------------------------------------------
(* Lemmas about the operators of a step.                                   *)

(* The row a worker takes next is one of those it has.                     *)
LEMMA FirstIsOne ==
  ASSUME NEW rows, rows \subseteq WitnessState, rows # {}
  PROVE  First(rows) \in rows
<1> DEFINE sizes == {w.size : w \in rows}
<1>1. sizes \subseteq Nat /\ sizes # {}
  BY DEF WitnessState
<1>2. PICK m \in sizes : \A n \in sizes : m <= n
  BY <1>1, LeastNat, Zenon
<1>3. \E w \in rows : \A v \in rows : w.size <= v.size
  BY <1>2
<1> QED BY <1>3 DEF First

(* A statement is present bytes, and those of another size differ.         *)
LEMMA Statements ==
  ASSUME NEW n \in Nat
  PROVE  /\ Statement(n) \in Bytes /\ Statement(n) # NoBytes
         /\ n # 0 => Statement(n) # Statement(0)
<1>1. << >> \in Seq(Value)
  OBVIOUS
<1>2. Statement(n) \in Bytes
  BY <1>1 DEF Statement, Bytes, Time
<1>3. Statement(n).logSize = n /\ Statement(0).logSize = 0
  BY DEF Statement
<1> QED BY <1>2, <1>3, NoBytesAssumption

(* Attempts++ counts modulo the counter's range.                           *)
LEMMA Counted ==
  ASSUME NEW a \in Nat
  PROVE  /\ (a + 1) % AttemptRange \in Nat
         /\ a + 1 < AttemptRange => (a + 1) % AttemptRange = a + 1
  BY DeliveryAssumption

(* The row item with one more attempt and the reply's outcome, due within  *)
(* the schedule.                                                           *)
IsOutcome(next, item, now, reply) ==
  /\ next \in WitnessState
  /\ next.id = item.id /\ next.size = item.size
  /\ next.checkpoint = item.checkpoint
  /\ next.attempts = (item.attempts + 1) % AttemptRange
  /\ IF reply.kind = "receipt" /\ Verified(item, reply)
     THEN next.receipt = item.checkpoint /\ ~next.permanent
     ELSE /\ next.receipt = item.receipt
          /\ next.permanent <=> reply.kind # "retryable"
  /\ now <= 0 => /\ next.nextAttemptAt <= MaxBackoff
                 /\ next.nextAttemptAt <= Doubled(item.attempts)

(* What deliver proposes is such a row.                                    *)
LEMMA OutcomeRow ==
  ASSUME NEW item \in WitnessState, NEW now \in Int, NEW reply \in Replies,
         NEW next \in Outcomes(item, now, reply)
  PROVE  IsOutcome(next, item, now, reply)
<1> DEFINE a == (item.attempts + 1) % AttemptRange
<1>1. item.attempts \in Nat /\ a \in Nat
  BY Counted DEF WitnessState
<1>2. /\ Exponential(item.attempts) \in 1..MaxBackoff
      /\ Doubled(item.attempts) \in Nat
      /\ Exponential(item.attempts) <= Doubled(item.attempts)
  BY <1>1, ExponentialBounds
<1>3. Attempted(item) = [item EXCEPT !.attempts = a]
  BY DEF Attempted
<1> HIDE DEF a
<1>4. CASE reply.kind = "receipt" /\ Verified(item, reply)
  <2>1. next = [Attempted(item) EXCEPT !.nextAttemptAt = Later(now, 0),
                                       !.receipt = reply.receipt,
                                       !.permanent = FALSE]
    BY <1>4 DEF Outcomes, DeliveredWitness
  <2>2. reply.receipt \in Bytes \cup {NoBytes}
    BY DEF Replies, NoReply, Reply, ReceiptReply
  <2>3. Later(now, 0) \in Nat /\ (now <= 0 => Later(now, 0) = 0)
    BY DEF Later
  <2>4. MaxBackoff \in Nat
    BY DeliveryAssumption
  <2>5. /\ next \in WitnessState
        /\ next.id = item.id /\ next.size = item.size
        /\ next.checkpoint = item.checkpoint /\ next.attempts = a
        /\ next.receipt = reply.receipt /\ next.permanent = FALSE
        /\ next.nextAttemptAt = Later(now, 0)
    BY <1>1, <1>3, <2>1, <2>2, <2>3, Zenon DEF WitnessState, Time
  <2>6. now <= 0 => /\ Later(now, 0) <= MaxBackoff
                    /\ Later(now, 0) <= Doubled(item.attempts)
    BY <1>2, <2>3, <2>4
  <2>7. reply.receipt = item.checkpoint
    BY <1>4 DEF Verified
  <2> QED BY <1>4, <2>5, <2>6, <2>7 DEF a, IsOutcome
<1>5. CASE ~(reply.kind = "receipt" /\ Verified(item, reply))
  <2>1. PICK delay \in backoff(item.attempts) :
          next = failedWitness(item, now, reply.kind # "retryable", delay)
    BY <1>5 DEF Outcomes
  <2>2. /\ delay \in Nat /\ delay <= MaxBackoff
        /\ delay <= Doubled(item.attempts)
    BY <1>2, DeliveryAssumption DEF backoff
  <2>3. next = [Attempted(item) EXCEPT !.permanent = reply.kind # "retryable",
                                       !.nextAttemptAt = Later(now, delay)]
    BY <2>1 DEF failedWitness
  <2>4. /\ Later(now, delay) \in Nat
        /\ now <= 0 => Later(now, delay) <= delay
    BY <2>2 DEF Later
  <2>5. now <= 0 => /\ Later(now, delay) <= MaxBackoff
                    /\ Later(now, delay) <= Doubled(item.attempts)
    BY <1>2, <2>2, <2>4, DeliveryAssumption
  <2> DEFINE b == reply.kind # "retryable"
  <2>6. b \in BOOLEAN
    OBVIOUS
  <2>7. next = [Attempted(item) EXCEPT !.permanent = b,
                                       !.nextAttemptAt = Later(now, delay)]
    BY <2>3
  <2> HIDE DEF b
  <2>8. /\ next \in WitnessState
        /\ next.id = item.id /\ next.size = item.size
        /\ next.checkpoint = item.checkpoint /\ next.attempts = a
        /\ next.receipt = item.receipt /\ next.permanent = b
        /\ next.nextAttemptAt = Later(now, delay)
    BY <1>1, <1>3, <2>4, <2>6, <2>7, Zenon DEF WitnessState, Time
  <2>9. next.permanent <=> reply.kind # "retryable"
    BY <2>8, Zenon DEF b
  <2> QED BY <1>5, <2>5, <2>8, <2>9, Zenon DEF a, IsOutcome
<1> QED BY <1>4, <1>5

(* A recorded outcome takes the place of the rows it matches.              *)
LEMMA Recorded ==
  ASSUME NEW attempts, NEW next
  PROVE  ApplyWitness(Store, attempts, next).witnesses
           = (witnesses \ Replaced(Store, attempts, next)) \cup {next}
  BY DEF ApplyWitness, Store, New

(* Due rows are rows of the store that are not final.                      *)
LEMMA DueRows ==
  \A w \in PendingWitnesses(Store, 0, Limit) : w \in witnesses /\ ~Final(w)
  BY DEF PendingWitnesses, Store, New, IsDue, Final

(* Pass q is p with the rows and the reply of one worker changed.          *)
IsChanged(q, p, id, rows, reply) ==
  /\ q \in PassType
  /\ q.pc = p.pc /\ q.now = p.now
  /\ \A i \in WitnessID :
       /\ q.work[i] = IF i = id THEN rows ELSE p.work[i]
       /\ q.reply[i] = IF i = id THEN reply ELSE p.reply[i]

(* A pass whose worker for id stopped with an error.                       *)
LEMMA StoppedPass ==
  ASSUME NEW p \in PassType, NEW id \in WitnessID,
         NEW err \in {"invalid", "contention"}
  PROVE  /\ IsChanged(Stopped(p, id, err), p, id, {}, NoReply)
         /\ Stopped(p, id, err).err \in {err, p.err}
<1> DEFINE q == Stopped(p, id, err)
           work == [p.work EXCEPT ![id] = {}]
           reply == [p.reply EXCEPT ![id] = NoReply]
           first == IF p.err = "nil" THEN err ELSE p.err
<1>1. q = [p EXCEPT !.work = work, !.reply = reply, !.err = first]
  BY DEF Stopped, PassType
<1>2. /\ work \in [WitnessID -> SUBSET WitnessState]
      /\ reply \in [WitnessID -> Replies]
      /\ first \in {"nil", "invalid", "contention"}
  BY DEF PassType, Replies
<1> HIDE DEF q, work, reply, first
<1>3. /\ q \in PassType /\ q.pc = p.pc /\ q.now = p.now
      /\ q.work = work /\ q.reply = reply /\ q.err = first
  BY <1>1, <1>2, Zenon DEF PassType
<1>4. \A i \in WitnessID :
        /\ work[i] = IF i = id THEN {} ELSE p.work[i]
        /\ reply[i] = IF i = id THEN NoReply ELSE p.reply[i]
  BY DEF work, reply, PassType
<1>5. first \in {err, p.err}
  BY DEF first
<1> QED BY <1>3, <1>4, <1>5 DEF IsChanged, q

(* A pass in which a worker's outcome was recorded.                        *)
Changed(p, id, rows) == [p EXCEPT !.work[id] = rows, !.reply[id] = NoReply]

(* It changes that worker alone.                                           *)
LEMMA ChangedPass ==
  ASSUME NEW p \in PassType, NEW id \in WitnessID,
         NEW rows \in SUBSET WitnessState
  PROVE  /\ IsChanged(Changed(p, id, rows), p, id, rows, NoReply)
         /\ Changed(p, id, rows).err = p.err
<1> DEFINE q == Changed(p, id, rows)
           work == [p.work EXCEPT ![id] = rows]
           replies == [p.reply EXCEPT ![id] = NoReply]
<1>1. q = [p EXCEPT !.work = work, !.reply = replies]
  BY DEF PassType, Changed
<1>2. /\ work \in [WitnessID -> SUBSET WitnessState]
      /\ replies \in [WitnessID -> Replies]
  BY DEF PassType, Replies
<1> HIDE DEF q, work, replies
<1>3. /\ q \in PassType /\ q.pc = p.pc /\ q.now = p.now /\ q.err = p.err
      /\ q.work = work /\ q.reply = replies
  BY <1>1, <1>2, Zenon DEF PassType
<1>4. \A i \in WitnessID :
        /\ work[i] = IF i = id THEN rows ELSE p.work[i]
        /\ replies[i] = IF i = id THEN NoReply ELSE p.reply[i]
  BY DEF work, replies, PassType
<1> QED BY <1>3, <1>4 DEF IsChanged, q

(* A pass in which a worker got a reply.                                   *)
Replied(p, id, reply) == [p EXCEPT !.reply[id] = reply]

(* It changes that worker alone, and none of its rows.                     *)
LEMMA RepliedPass ==
  ASSUME NEW p \in PassType, NEW id \in WitnessID, NEW reply \in Replies
  PROVE  /\ IsChanged(Replied(p, id, reply), p, id, p.work[id], reply)
         /\ Replied(p, id, reply).err = p.err
<1> DEFINE q == Replied(p, id, reply)
           replies == [p.reply EXCEPT ![id] = reply]
<1>1. q = [p EXCEPT !.reply = replies]
  BY DEF PassType, Replied
<1>2. replies \in [WitnessID -> Replies]
  BY DEF PassType
<1> HIDE DEF q, replies
<1>3. /\ q \in PassType /\ q.pc = p.pc /\ q.now = p.now /\ q.err = p.err
      /\ q.work = p.work /\ q.reply = replies
  BY <1>1, <1>2 DEF PassType
<1>4. \A i \in WitnessID :
        replies[i] = IF i = id THEN reply ELSE p.reply[i]
  BY DEF replies, PassType
<1> QED BY <1>3, <1>4 DEF IsChanged, q

(* Pass q has no rows, no replies and no error.                            *)
IsIdle(q, pc) ==
  /\ q \in PassType /\ q.pc = pc /\ q.now = 0 /\ q.err = "nil"
  /\ q.work = [id \in WitnessID |-> {}]
  /\ q.reply = [id \in WitnessID |-> NoReply]

(* The pass of a runner that is not running one.                           *)
LEMMA IdlePass ==
  ASSUME NEW pc \in {"idle", "run", "dead"}
  PROVE  IsIdle([Idle EXCEPT !.pc = pc], pc) /\ IsIdle(Idle, "idle")
<1>1. /\ [id \in WitnessID |-> {}] \in [WitnessID -> SUBSET WitnessState]
      /\ [id \in WitnessID |-> NoReply] \in [WitnessID -> Replies]
  BY DEF Replies
<1> QED BY <1>1 DEF Idle, PassType, IsIdle

(* More checkpoints, recorded statements and refusals disturb no row and   *)
(* no pass.                                                                *)
LEMMA Growing ==
  ASSUME NEW m \in Nat, NEW n \in Nat, m <= n,
         NEW rec, NEW rec2, \A id \in WitnessID : rec[id] \subseteq rec2[id],
         NEW ref, NEW ref2, ref \subseteq ref2
  PROVE  /\ \A w \in WitnessState :
              ProperRow(w, m, rec, ref) => ProperRow(w, n, rec2, ref2)
         /\ \A r \in Runner, p \in PassType :
              ProperPass(r, p, m, rec, ref) => ProperPass(r, p, n, rec2, ref2)
<1>1. ASSUME NEW w \in WitnessState, ProperRow(w, m, rec, ref)
      PROVE  ProperRow(w, n, rec2, ref2)
  BY <1>1 DEF ProperRow, WitnessState
<1>2. ASSUME NEW r \in Runner, NEW p \in PassType,
             ProperPass(r, p, m, rec, ref)
      PROVE  ProperPass(r, p, n, rec2, ref2)
  <2>1. ASSUME NEW id \in WitnessID PROVE ProperWork(id, p.work[id], n)
    BY <1>2 DEF ProperPass, ProperWork
  <2>2. ASSUME NEW id \in WitnessID, p.reply[id] # NoReply
        PROVE  /\ p.work[id] # {}
               /\ ProperReply(id, First(p.work[id]), p.reply[id], rec2, ref2)
    BY <1>2, <2>2 DEF ProperPass, ProperReply
  <2> QED BY <1>2, <2>1, <2>2 DEF ProperPass
<1> QED BY <1>1, <1>2

-----------------------------------------------------------------------------
(* Every action preserves the invariant.                                   *)

(* A step of one runner that stores no row.                                *)
LEMMA PassStep ==
  ASSUME IInv, NEW r \in Runner, NEW q \in PassType,
         pass' = [pass EXCEPT ![r] = q],
         \A id \in WitnessID : recorded[id] \subseteq recorded'[id],
         refused \subseteq refused',
         recorded' \in [WitnessID -> SUBSET Bytes],
         refused' \subseteq WitnessID \X Nat,
         failures' \in Nat, aborts' \in Nat, UNCHANGED <<witnesses, published>>,
         ProperPass(r, q, published, recorded', refused')
  PROVE  IInv'
<1>1. TypeOK'
  BY DEF IInv, TypeOK
<1>2. UniqueKeys(witnesses')
  BY DEF IInv
<1>3. published \in Nat /\ published' = published
  BY DEF IInv, TypeOK
<1>g. /\ \A w \in WitnessState : ProperRow(w, published, recorded, refused)
                                => ProperRow(w, published, recorded', refused')
      /\ \A t \in Runner, p \in PassType :
           ProperPass(t, p, published, recorded, refused)
             => ProperPass(t, p, published, recorded', refused')
  <2>1. published <= published
    BY <1>3
  <2> QED BY <1>3, <2>1, Growing, Zenon
<1>4. \A w \in witnesses' : ProperRow(w, published', recorded', refused')
  BY <1>3, <1>g DEF IInv, TypeOK
<1>5. ASSUME NEW t \in Runner
      PROVE  ProperPass(t, pass'[t], published', recorded', refused')
  <2>1. pass[t] \in PassType /\ pass'[t] = IF t = r THEN q ELSE pass[t]
    BY DEF IInv, TypeOK
  <2>2. ProperPass(t, pass[t], published, recorded, refused)
    BY DEF IInv
  <2>3. ProperPass(t, pass[t], published, recorded', refused')
    BY <1>g, <2>1, <2>2
  <2> QED BY <1>3, <2>1, <2>3
<1> QED BY <1>1, <1>2, <1>4, <1>5 DEF IInv

(* A step of one runner that only changes its pass.                        *)
LEMMA QuietStep ==
  ASSUME IInv, NEW r \in Runner, NEW q \in PassType,
         pass' = [pass EXCEPT ![r] = q], aborts' \in Nat,
         UNCHANGED <<witnesses, recorded, published, failures, refused>>,
         ProperPass(r, q, published, recorded, refused)
  PROVE  IInv'
<1>1. /\ \A id \in WitnessID : recorded[id] \subseteq recorded'[id]
      /\ refused \subseteq refused'
      /\ recorded' \in [WitnessID -> SUBSET Bytes]
      /\ refused' \subseteq WitnessID \X Nat
      /\ failures' \in Nat
  BY DEF IInv, TypeOK
<1>2. /\ UNCHANGED <<witnesses, published>>
      /\ ProperPass(r, q, published, recorded', refused')
  OBVIOUS
<1> QED BY <1>1, <1>2, PassStep, Zenon

(* Publish adds rows of a size no row has.                                 *)
LEMMA PublishKeeps == ASSUME IInv, Publish PROVE IInv'
<1> DEFINE fresh == {FreshRow(id, published + 1) : id \in WitnessID}
<1>1. /\ published \in Nat /\ published' = published + 1
      /\ witnesses' = witnesses \cup fresh
      /\ UNCHANGED <<pass, recorded, failures, aborts, refused>>
  BY DEF IInv, TypeOK, Publish
<1>2. Statement(published + 1) \in Bytes
  BY <1>1, Statements
<1>3. ASSUME NEW w \in fresh
      PROVE  /\ w \in WitnessState
             /\ w.size = published + 1 /\ w.checkpoint = Statement(w.size)
             /\ w.receipt = NoBytes /\ ~w.permanent
             /\ w = FreshRow(w.id, published + 1)
  <2>1. PICK id \in WitnessID : w = FreshRow(id, published + 1)
    OBVIOUS
  <2>2. w = [id |-> id, size |-> published + 1,
             checkpoint |-> Statement(published + 1), attempts |-> 0,
             nextAttemptAt |-> 0, receipt |-> NoBytes, permanent |-> FALSE]
    BY <2>1 DEF FreshRow
  <2>3. w \in WitnessState
    BY <1>1, <1>2, <2>2 DEF WitnessState, Time
  <2>4. w.id = id
    BY <2>2
  <2> QED BY <2>1, <2>2, <2>3, <2>4
<1> HIDE DEF fresh
<1>4. TypeOK'
  BY <1>1, <1>3 DEF IInv, TypeOK
<1>5. \A w \in witnesses : w.size <= published /\ w.size \in Nat
  <2>1. \A w \in witnesses : ProperRow(w, published, recorded, refused)
    BY DEF IInv
  <2> QED BY <1>1, <2>1 DEF ProperRow
<1>6. UniqueKeys(witnesses')
  <2>1. SUFFICES ASSUME NEW v \in witnesses', NEW w \in witnesses',
                        v.id = w.id, v.size = w.size
                 PROVE  v = w
    BY DEF UniqueKeys, WitnessKey
  <2>2. CASE v \in witnesses /\ w \in witnesses
    BY <2>1, <2>2 DEF IInv, UniqueKeys, WitnessKey
  <2>3. CASE v \in fresh /\ w \in fresh
    BY <1>3, <2>1, <2>3
  <2> QED BY <1>1, <1>3, <1>5, <2>1, <2>2, <2>3
<1>g. /\ \A w \in WitnessState : ProperRow(w, published, recorded, refused)
                          => ProperRow(w, published + 1, recorded, refused)
      /\ \A r \in Runner, p \in PassType :
           ProperPass(r, p, published, recorded, refused)
             => ProperPass(r, p, published + 1, recorded, refused)
  <2>1. published <= published + 1 /\ published + 1 \in Nat
    BY <1>1
  <2>2. \A id \in WitnessID : recorded[id] \subseteq recorded[id]
    OBVIOUS
  <2> QED BY <1>1, <2>1, <2>2, Growing, Zenon
<1>7. \A w \in witnesses' : ProperRow(w, published', recorded', refused')
  <2>1. \A w \in witnesses : ProperRow(w, published', recorded', refused')
    BY <1>1, <1>g DEF IInv, TypeOK
  <2>2. \A w \in fresh : ProperRow(w, published', recorded', refused')
    BY <1>1, <1>3 DEF ProperRow
  <2> QED BY <1>1, <2>1, <2>2
<1>8. \A r \in Runner : ProperPass(r, pass'[r], published', recorded', refused')
  BY <1>1, <1>g DEF IInv, TypeOK
<1> QED BY <1>4, <1>6, <1>7, <1>8 DEF IInv

(* Tick only brings due times nearer.                                      *)
LEMMA TickKeeps == ASSUME IInv, Tick PROVE IInv'
<1> DEFINE Aged(w) == [w EXCEPT !.nextAttemptAt = Later(@, -1)]
<1>1. /\ witnesses' = {Aged(w) : w \in witnesses}
      /\ UNCHANGED <<recorded, published, failures, aborts, refused>>
  BY DEF Tick
<1>2. ASSUME NEW w \in WitnessState
      PROVE  /\ Aged(w) \in WitnessState
             /\ Aged(w).id = w.id /\ Aged(w).size = w.size
             /\ Aged(w).checkpoint = w.checkpoint
             /\ Aged(w).receipt = w.receipt /\ Aged(w).permanent = w.permanent
  BY DEF WitnessState, Time, Later
<1> HIDE DEF Aged
<1>3. ASSUME NEW r \in Runner
      PROVE  /\ pass'[r] \in PassType
             /\ pass'[r].work = pass[r].work /\ pass'[r].reply = pass[r].reply
             /\ pass'[r].err = pass[r].err /\ pass'[r].pc = pass[r].pc
  <2> DEFINE now == IF pass[r].pc # "run" \/ pass[r].now = -MaxBackoff
                    THEN pass[r].now ELSE pass[r].now - 1
  <2>1. pass'[r] = [pass[r] EXCEPT !.now = now]
    BY DEF Tick
  <2>2. pass[r] \in PassType /\ pass[r].now \in Int
    BY DEF IInv, TypeOK, PassType
  <2>3. now \in Int
    BY <2>2
  <2> HIDE DEF now
  <2> QED BY <2>1, <2>2, <2>3 DEF PassType
<1>4. TypeOK'
  <2>1. DOMAIN pass' = Runner /\ pass' = [r \in Runner |-> pass'[r]]
    BY DEF Tick
  <2>2. pass' \in [Runner -> PassType]
    BY <1>3, <2>1
  <2> QED BY <1>1, <1>2, <2>2 DEF IInv, TypeOK
<1>5. UniqueKeys(witnesses')
  BY <1>1, <1>2 DEF IInv, TypeOK, UniqueKeys, WitnessKey
<1>6. \A w \in witnesses' : ProperRow(w, published', recorded', refused')
  <2>1. ASSUME NEW w \in witnesses
        PROVE  ProperRow(Aged(w), published, recorded, refused)
    <3>1. w \in WitnessState /\ ProperRow(w, published, recorded, refused)
      BY DEF IInv, TypeOK
    <3> QED BY <1>2, <3>1 DEF ProperRow, WitnessKey
  <2> QED BY <1>1, <2>1
<1>7. \A r \in Runner : ProperPass(r, pass'[r], published', recorded', refused')
  BY <1>1, <1>3 DEF IInv, ProperPass
<1> QED BY <1>4, <1>5, <1>6, <1>7 DEF IInv

(* RunOnce takes due rows and no reply.                                    *)
LEMMA RunOnceKeeps == ASSUME IInv, NEW r \in Runner, RunOnce(r) PROVE IInv'
<1> DEFINE due == PendingWitnesses(Store, 0, Limit)
           work == [id \in WitnessID |-> {w \in due : w.id = id}]
           i == [Idle EXCEPT !.pc = "run"]
           q == [i EXCEPT !.work = work]
<1>1. /\ pass' = [pass EXCEPT ![r] = q]
      /\ UNCHANGED <<witnesses, recorded, published, failures, aborts, refused>>
  <2>1. [Idle EXCEPT !.pc = "run", !.work = work] = q
    BY DEF Idle
  <2> QED BY <2>1 DEF RunOnce
<1>2. due \subseteq witnesses /\ \A w \in due : ~Final(w)
  BY DueRows
<1>3. work \in [WitnessID -> SUBSET WitnessState]
  BY <1>2 DEF IInv, TypeOK
<1>4. IsIdle(i, "run")
  BY IdlePass
<1>5. \A id \in WitnessID : ProperWork(id, work[id], published)
  BY <1>2 DEF ProperWork, ProperRow, IInv
<1> HIDE DEF due, work, i
<1>6. /\ q \in PassType /\ q.pc = "run" /\ q.err = "nil" /\ q.work = work
      /\ q.reply = [id \in WitnessID |-> NoReply]
  BY <1>3, <1>4 DEF PassType, IsIdle
<1> HIDE DEF q
<1>7. ProperPass(r, q, published, recorded, refused)
  BY <1>5, <1>6 DEF ProperPass
<1>8. aborts' \in Nat
  BY <1>1 DEF IInv, TypeOK
<1> QED BY <1>1, <1>6, <1>7, <1>8, QuietStep, Zenon

(* A worker that stops gives up its rows; if it does so for lack of a      *)
(* client, the runner is not configured for every witness.                 *)
LEMMA StopKeeps ==
  ASSUME IInv, NEW r \in Runner, NEW id \in WitnessID,
         NEW err \in {"invalid", "contention"},
         err = "invalid" => Clients[r] # WitnessID,
         pass' = [pass EXCEPT ![r] = Stopped(pass[r], id, err)],
         UNCHANGED <<witnesses, recorded, published, failures, aborts, refused>>
  PROVE  IInv'
<1> DEFINE p == pass[r]
           q == Stopped(p, id, err)
<1>1. p \in PassType /\ ProperPass(r, p, published, recorded, refused)
  BY DEF IInv, TypeOK
<1>2. pass' = [pass EXCEPT ![r] = q] /\ aborts' \in Nat
  BY DEF IInv, TypeOK
<1> HIDE DEF p
<1>3. IsChanged(q, p, id, {}, NoReply) /\ q.err \in {err, p.err}
  BY <1>1, StoppedPass
<1> HIDE DEF q
<1>4. \A i \in WitnessID : ProperWork(i, q.work[i], published)
  BY <1>1, <1>3 DEF ProperPass, ProperWork, IsChanged
<1>5. ProperPass(r, q, published, recorded, refused)
  BY <1>1, <1>3, <1>4 DEF ProperPass, IsChanged
<1>6. q \in PassType
  BY <1>3 DEF IsChanged
<1> QED BY <1>2, <1>5, <1>6, QuietStep, ZenonT(20)

(* NoClient happens at a runner without a client for the witness.          *)
LEMMA NoClientKeeps ==
  ASSUME IInv, NEW r \in Runner, NEW id \in WitnessID, NoClient(r, id)
  PROVE  IInv'
<1>1. /\ Clients[r] # WitnessID
      /\ UNCHANGED <<witnesses, recorded, published, failures, aborts, refused>>
  BY DEF NoClient
<1>2. pass' = [pass EXCEPT ![r] = Stopped(pass[r], id, "invalid")]
  BY DEF NoClient, IInv, TypeOK
<1> QED BY <1>1, <1>2, StopKeeps, Zenon

(* A worker gets a reply that says the truth about its first row.          *)
LEMMA ReplyKeeps ==
  ASSUME IInv, NEW r \in Runner, NEW id \in WitnessID, NEW reply \in Replies,
         pass[r].work[id] # {},
         pass' = [pass EXCEPT ![r].reply[id] = reply],
         \A i \in WitnessID : recorded[i] \subseteq recorded'[i],
         refused \subseteq refused',
         recorded' \in [WitnessID -> SUBSET Bytes],
         refused' \subseteq WitnessID \X Nat, failures' \in Nat,
         UNCHANGED <<witnesses, published, aborts>>,
         ProperReply(id, First(pass[r].work[id]), reply, recorded', refused')
  PROVE  IInv'
<1> DEFINE p == pass[r]
           q == Replied(p, id, reply)
<1>1. p \in PassType /\ ProperPass(r, p, published, recorded, refused)
  BY DEF IInv, TypeOK
<1>2. pass' = [pass EXCEPT ![r] = q]
  BY Zenon DEF IInv, TypeOK, Replied
<1>3. ProperReply(id, First(p.work[id]), reply, recorded', refused')
      /\ p.work[id] # {}
  OBVIOUS
<1> HIDE DEF p
<1>4. IsChanged(q, p, id, p.work[id], reply) /\ q.err = p.err
  BY <1>1, RepliedPass
<1> HIDE DEF q
<1>5. ProperPass(r, p, published, recorded', refused')
  <2>1. published \in Nat /\ published <= published
    BY DEF IInv, TypeOK
  <2> QED BY <1>1, <2>1, Growing, Zenon
<1>6. ProperPass(r, q, published, recorded', refused')
  BY <1>3, <1>4, <1>5 DEF ProperPass, IsChanged
<1>7. aborts' \in Nat
  BY DEF IInv, TypeOK
<1>8. q \in PassType
  BY <1>4 DEF IsChanged
<1> QED BY <1>2, <1>6, <1>7, <1>8, PassStep, Zenon

(* A due row of witness id, of one of n checkpoints.                       *)
IsItem(item, id, n) ==
  /\ item \in WitnessState /\ ~Final(item)
  /\ item.id = id /\ item.size \in 1..n
  /\ item.checkpoint = Statement(item.size)
  /\ item.checkpoint \in Bytes /\ item.checkpoint # Statement(0)
  /\ WitnessKey(item) \in WitnessID \X Nat

(* The row a worker delivers next is such a row.                           *)
LEMMA FirstItem ==
  ASSUME IInv, NEW r \in Runner, NEW id \in WitnessID, pass[r].work[id] # {}
  PROVE  /\ First(pass[r].work[id]) \in pass[r].work[id]
         /\ IsItem(First(pass[r].work[id]), id, published)
<1> DEFINE rows == pass[r].work[id]
           item == First(rows)
<1>1. rows \subseteq WitnessState
  BY DEF IInv, TypeOK, PassType
<1>2. item \in rows
  BY <1>1, FirstIsOne
<1>3. ProperWork(id, rows, published) /\ published \in Nat
  BY DEF IInv, TypeOK, ProperPass
<1> HIDE DEF rows, item
<1>4. /\ item.id = id /\ item.size \in 1..published
      /\ item.checkpoint = Statement(item.size) /\ ~Final(item)
  BY <1>2, <1>3 DEF ProperWork
<1>5. item.size \in Nat /\ item.size # 0
  BY <1>3, <1>4
<1>6. Statement(item.size) \in Bytes /\ Statement(item.size) # Statement(0)
  BY <1>5, Statements
<1>7. WitnessKey(item) \in WitnessID \X Nat
  BY <1>4, <1>5 DEF WitnessKey
<1>8. IsItem(item, id, published)
  BY <1>1, <1>2, <1>4, <1>6, <1>7 DEF IsItem
<1> QED BY <1>2, <1>8 DEF rows, item

(* A checkpoint that does not verify is refused.                           *)
LEMMA UnsubmittableKeeps ==
  ASSUME IInv, NEW r \in Runner, NEW id \in WitnessID, Unsubmittable(r, id)
  PROVE  IInv'
<1> DEFINE item == First(pass[r].work[id])
<1>1. /\ pass[r].work[id] # {} /\ refused' = refused \cup {WitnessKey(item)}
      /\ pass' = [pass EXCEPT ![r].reply[id] = Reply("permanent")]
      /\ UNCHANGED <<witnesses, recorded, published, failures, aborts>>
  BY DEF Unsubmittable, Working
<1>2. WitnessKey(item) \in WitnessID \X Nat
  BY <1>1, FirstItem DEF IsItem
<1>3. Reply("permanent") \in Replies
  BY DEF Replies
<1>4. ProperReply(id, item, Reply("permanent"), recorded', refused')
  BY <1>1 DEF ProperReply, Reply
<1>5. /\ refused' \subseteq WitnessID \X Nat /\ refused \subseteq refused'
      /\ recorded' \in [WitnessID -> SUBSET Bytes] /\ failures' \in Nat
      /\ \A i \in WitnessID : recorded[i] \subseteq recorded'[i]
  BY <1>1, <1>2 DEF IInv, TypeOK
<1> HIDE DEF item
<1> QED BY <1>1, <1>3, <1>4, <1>5, ReplyKeeps, Zenon DEF item

(* The witness answers: a receipt for the row's checkpoint was recorded, a *)
(* receipt for another statement or a rejection is a refusal.              *)
LEMMA SubmitKeeps ==
  ASSUME IInv, NEW r \in Runner, NEW id \in WitnessID, Submit(r, id)
  PROVE  IInv'
<1> DEFINE item == First(pass[r].work[id])
<1>1. PICK answer \in Conduct[id] :
        /\ pass' = [pass EXCEPT ![r].reply[id] =
             CASE answer = "receipt" -> ReceiptReply(item.checkpoint)
               [] answer = "garbage" -> ReceiptReply(Statement(0))
               [] answer = "reject" -> Reply("permanent")
               [] answer \in {"retry", "lost"} -> Reply("retryable")]
        /\ recorded' = IF answer \in {"receipt", "lost"}
             THEN [recorded EXCEPT ![id] = @ \cup {item.checkpoint}]
             ELSE recorded
        /\ refused' = IF answer \in {"garbage", "reject"}
             THEN refused \cup {WitnessKey(item)} ELSE refused
        /\ failures' = failures + 1 \/ failures' = failures
  BY Zenon DEF Submit
<1> DEFINE reply == CASE answer = "receipt" -> ReceiptReply(item.checkpoint)
                      [] answer = "garbage" -> ReceiptReply(Statement(0))
                      [] answer = "reject" -> Reply("permanent")
                      [] answer \in {"retry", "lost"} -> Reply("retryable")
<1>2. pass[r].work[id] # {} /\ UNCHANGED <<witnesses, published, aborts>>
  BY DEF Submit, Working
<1>3. /\ item.checkpoint \in Bytes /\ item.checkpoint # Statement(0)
      /\ WitnessKey(item) \in WitnessID \X Nat
  BY <1>2, FirstItem DEF IsItem
<1>4. Statement(0) \in Bytes
  BY Statements
<1>5. pass' = [pass EXCEPT ![r].reply[id] = reply]
  BY <1>1
<1> HIDE DEF item
<1>6. answer \in Answer
  BY DeliveryAssumption
<1>7. reply \in Replies
  BY <1>3, <1>4, <1>6 DEF Answer, Replies
<1>8. /\ recorded' \in [WitnessID -> SUBSET Bytes]
      /\ \A i \in WitnessID : recorded[i] \subseteq recorded'[i]
      /\ answer = "receipt" => item.checkpoint \in recorded'[id]
  BY <1>1, <1>3 DEF IInv, TypeOK
<1>9. refused' \subseteq WitnessID \X Nat /\ refused \subseteq refused'
  BY <1>1, <1>3 DEF IInv, TypeOK
<1>10. failures' \in Nat
  BY <1>1 DEF IInv, TypeOK
<1>11. ProperReply(id, item, reply, recorded', refused')
  <2>1. CASE answer = "receipt"
    BY <1>8, <2>1 DEF ProperReply, Verified, ReceiptReply
  <2>2. CASE answer = "garbage"
    BY <1>1, <1>3, <2>2 DEF ProperReply, Verified, ReceiptReply
  <2>3. CASE answer = "reject"
    BY <1>1, <2>3 DEF ProperReply, Reply
  <2>4. CASE answer \in {"retry", "lost"}
    BY <2>4 DEF ProperReply, Reply
  <2> QED BY <1>6, <2>1, <2>2, <2>3, <2>4 DEF Answer
<1> HIDE DEF reply
<1> QED BY <1>2, <1>5, <1>7, <1>8, <1>9, <1>10, <1>11, ReplyKeeps, ZenonT(20)
        DEF item

(* Record stores an outcome that the reply in hand backs, or stops the     *)
(* worker with contention: the store finds no outcome invalid.             *)
LEMMA RecordKeeps ==
  ASSUME IInv, NEW r \in Runner, NEW id \in WitnessID, Record(r, id)
  PROVE  IInv'
<1> DEFINE p == pass[r]
           item == First(p.work[id])
           reply == p.reply[id]
<1>1. /\ p.work[id] # {} /\ reply # NoReply
      /\ UNCHANGED <<recorded, published, failures, aborts, refused>>
  BY DEF Record, Working
<1>2. PICK next \in Outcomes(item, p.now, reply) :
        IF WitnessOutcome(Store, item.attempts, next) = "ok"
        THEN /\ witnesses' =
                  ApplyWitness(Store, item.attempts, next).witnesses
             /\ pass' = [pass EXCEPT
                  ![r].work[id] =
                     IF reply.kind = "retryable" THEN {} ELSE @ \ {item},
                  ![r].reply[id] = NoReply]
        ELSE /\ pass' = [pass EXCEPT ![r] =
                  Stopped(p, id, WitnessOutcome(Store, item.attempts, next))]
             /\ UNCHANGED witnesses
  BY Zenon DEF Record
<1>3. CASE WitnessOutcome(Store, item.attempts, next) # "ok"
  <2>1. validateWitness(next)
    <3>1. IsItem(item, id, published) /\ p.now \in Int /\ reply \in Replies
      BY <1>1, FirstItem DEF IInv, TypeOK, PassType
    <3>2. IsOutcome(next, item, p.now, reply)
      BY <3>1, OutcomeRow DEF IsItem
    <3> HIDE DEF p, item, reply
    <3> QED BY <3>1, <3>2, NoBytesAssumption
            DEF IsItem, IsOutcome, validateWitness
  <2>2. WitnessOutcome(Store, item.attempts, next) = "contention"
    BY <1>3, <2>1 DEF WitnessOutcome
  <2>3. /\ pass' = [pass EXCEPT ![r] = Stopped(pass[r], id, "contention")]
        /\ UNCHANGED witnesses
    BY <1>2, <2>2
  <2> QED BY <1>1, <2>3, StopKeeps, ZenonT(20)
<1>4. CASE WitnessOutcome(Store, item.attempts, next) = "ok"
  <2> DEFINE rows == IF reply.kind = "retryable" THEN {}
                     ELSE p.work[id] \ {item}
             q == Changed(p, id, rows)
             old == Replaced(Store, item.attempts, next)
  <2>1. p \in PassType /\ ProperPass(r, p, published, recorded, refused)
    BY DEF IInv, TypeOK
  <2>2. pass' = [pass EXCEPT ![r] = q]
    <3>1. pass' = [pass EXCEPT
                  ![r].work[id] =
                     IF reply.kind = "retryable" THEN {} ELSE @ \ {item},
                  ![r].reply[id] = NoReply]
      BY <1>2, <1>4, Zenon
    <3>2. pass \in [Runner -> PassType]
      BY DEF IInv, TypeOK
    <3> QED BY <3>1, <3>2, ZenonT(20) DEF PassType, Changed
  <2>3. witnesses' = (witnesses \ old) \cup {next}
    BY <1>2, <1>4, Recorded
  <2>4. IsItem(item, id, published)
    BY <1>1, FirstItem
  <2>5. /\ p.now \in Int /\ reply \in Replies
        /\ ProperReply(id, item, reply, recorded, refused)
    BY <1>1, <2>1 DEF PassType, ProperPass
  <2>6. p.work[id] \subseteq WitnessState
    BY <2>1 DEF PassType
  <2>7. old # {} /\ \A w \in old : w \in witnesses /\ WitnessKey(w) = WitnessKey(next)
    BY <1>4 DEF WitnessOutcome, Replaced, Store, New
  <2> HIDE DEF p, item, reply, old
  <2>8. IsOutcome(next, item, p.now, reply)
    <3>1. item \in WitnessState
      BY <2>4 DEF IsItem
    <3> QED BY <2>5, <3>1, OutcomeRow
  <2>9. rows \in SUBSET WitnessState /\ rows \subseteq p.work[id]
    BY <2>6
  <2> HIDE DEF rows
  <2>10. IsChanged(q, p, id, rows, NoReply) /\ q.err = p.err
    BY <2>1, <2>9, ChangedPass
  <2> HIDE DEF q
  <2>11. next \in WitnessState /\ q \in PassType
    BY <2>8, <2>10 DEF IsOutcome, IsChanged
  <2>12. TypeOK'
    BY <1>1, <2>2, <2>3, <2>11 DEF IInv, TypeOK
  <2>13. UniqueKeys(witnesses')
    BY <2>3, <2>7 DEF IInv, UniqueKeys
  <2>14. \A w \in witnesses' : ProperRow(w, published', recorded', refused')
    <3>1. WitnessKey(next) = WitnessKey(item)
      BY <2>8 DEF WitnessKey, IsOutcome
    <3>2. /\ item.receipt = NoBytes /\ item.id = id
          /\ item.size \in 1..published /\ item.checkpoint = Statement(item.size)
      BY <2>4 DEF IsItem, Final
    <3>3. ProperRow(next, published, recorded, refused)
      BY <2>5, <2>8, <3>1, <3>2 DEF ProperRow, ProperReply, IsOutcome
    <3> QED BY <1>1, <2>3, <3>3 DEF IInv
  <2>15. ASSUME NEW t \in Runner
         PROVE  ProperPass(t, pass'[t], published', recorded', refused')
    <3>1. pass'[t] = IF t = r THEN q ELSE pass[t]
      BY <2>2 DEF IInv, TypeOK
    <3>2. \A i \in WitnessID : ProperWork(i, q.work[i], published)
      BY <2>1, <2>9, <2>10, ZenonT(20) DEF ProperPass, ProperWork, IsChanged
    <3>3. ProperPass(r, q, published, recorded, refused)
      BY <2>1, <2>10, <3>2 DEF ProperPass, IsChanged
    <3> QED BY <1>1, <3>1, <3>3, Zenon DEF IInv
  <2> QED BY <2>12, <2>13, <2>14, <2>15 DEF IInv
<1> QED BY <1>3, <1>4

(* Finish ends Run only on an error that this runner's configuration made. *)
LEMMA FinishKeeps == ASSUME IInv, NEW r \in Runner, Finish(r) PROVE IInv'
<1> DEFINE pc == IF pass[r].err = "invalid" THEN "dead" ELSE "idle"
           q == [Idle EXCEPT !.pc = pc]
<1>1. /\ pass' = [pass EXCEPT ![r] = q]
      /\ UNCHANGED <<witnesses, recorded, published, failures, aborts, refused>>
  BY DEF Finish
<1>2. /\ pc \in {"idle", "run", "dead"}
      /\ pc = "dead" => Clients[r] # WitnessID
  BY DEF IInv, ProperPass
<1> HIDE DEF pc
<1>3. IsIdle(q, pc)
  BY <1>2, IdlePass
<1> HIDE DEF q
<1>4. ProperPass(r, q, published, recorded, refused)
  BY <1>2, <1>3 DEF ProperPass, ProperWork, IsIdle
<1>5. q \in PassType /\ aborts' \in Nat
  BY <1>1, <1>3 DEF IsIdle, IInv, TypeOK
<1> QED BY <1>1, <1>4, <1>5, QuietStep, ZenonT(20)

(* A pass that is cut short leaves nothing behind.                         *)
LEMMA AbortKeeps == ASSUME IInv, NEW r \in Runner, Abort(r) PROVE IInv'
<1>1. /\ pass' = [pass EXCEPT ![r] = Idle] /\ aborts' = aborts + 1
      /\ UNCHANGED <<witnesses, recorded, published, failures, refused>>
  BY DEF Abort
<1>2. IsIdle(Idle, "idle")
  BY IdlePass
<1>3. ProperPass(r, Idle, published, recorded, refused)
  BY <1>2 DEF ProperPass, ProperWork, IsIdle
<1>4. Idle \in PassType /\ aborts' \in Nat
  BY <1>1, <1>2 DEF IsIdle, IInv, TypeOK
<1> QED BY <1>1, <1>3, <1>4, QuietStep, ZenonT(20)

(* The store starts without rows and no runner in a pass.                  *)
LEMMA InitHolds == Init => IInv
<1> SUFFICES ASSUME Init PROVE IInv
  OBVIOUS
<1>1. Idle \in PassType
  BY IdlePass DEF IsIdle
<1>2. TypeOK
  BY <1>1 DEF Init, TypeOK
<1>3. \A r \in Runner : ProperPass(r, pass[r], published, recorded, refused)
  BY Zenon DEF Init, Idle, ProperPass, ProperWork
<1> QED BY <1>2, <1>3 DEF Init, IInv, UniqueKeys

(* IInv is inductive.                                                      *)
LEMMA Inductive == IInv /\ [Next]_vars => IInv'
<1> SUFFICES ASSUME IInv, [Next]_vars PROVE IInv'
  OBVIOUS
<1>1. CASE Publish
  BY <1>1, PublishKeeps
<1>2. CASE Tick
  BY <1>2, TickKeeps
<1>3. ASSUME NEW r \in Runner, RunOnce(r) \/ Finish(r) \/ Abort(r) PROVE IInv'
  BY <1>3, RunOnceKeeps, FinishKeeps, AbortKeeps
<1>4. ASSUME NEW r \in Runner, NEW id \in WitnessID, Work(r, id) PROVE IInv'
  BY <1>4, NoClientKeeps, UnsubmittableKeeps, SubmitKeeps, RecordKeeps DEF Work
<1>5. CASE UNCHANGED vars
  BY <1>5 DEF vars, IInv, TypeOK
<1> QED BY <1>1, <1>2, <1>3, <1>4, <1>5 DEF Next

(* IInv holds throughout.                                                  *)
THEOREM Invariant == Spec => []IInv
  BY InitHolds, Inductive, PTL DEF Spec

(* A stored receipt attests the row's own checkpoint, which that witness   *)
(* has recorded: deliver stores only a receipt Verify accepted.            *)
THEOREM ReceiptsAreAttested == Spec => []ReceiptsAttest
<1>1. IInv => ReceiptsAttest
  BY DEF IInv, ProperRow, ReceiptsAttest
<1> QED BY <1>1, Invariant, PTL

(* A row is marked permanent only after deliver saw a submission of it     *)
(* fail permanently.                                                       *)
THEOREM GivenUpOnlyIfRefused == Spec => []PermanentMeansRefused
<1>1. IInv => PermanentMeansRefused
  BY DEF IInv, ProperRow, PermanentMeansRefused
<1> QED BY <1>1, Invariant, PTL

(* Run of a runner with a client for every witness never ends on an error, *)
(* however many compare-and-sets it loses.                                 *)
THEOREM RunnersSurviveContention == Spec => []ContentionIsSurvived
<1>1. IInv => ContentionIsSurvived
  BY DEF IInv, ProperPass, ContentionIsSurvived
<1> QED BY <1>1, Invariant, PTL

-----------------------------------------------------------------------------
(* While the attempt counter does not come round, the compare-and-set on   *)
(* it tells whether the row in hand is still the stored one.               *)

(* Between RunOnces a pass only loses rows and only recedes.               *)
LEMMA PassesShrink ==
  ASSUME IInv, NEW r \in Runner,
         \/ Finish(r) \/ Abort(r) \/ \E id \in WitnessID : Work(r, id)
  PROVE  \A t \in Runner :
           /\ pass'[t].now \in {0, pass[t].now}
           /\ \A i \in WitnessID : pass'[t].work[i] \subseteq pass[t].work[i]
<1>1. pass \in [Runner -> PassType]
  BY DEF IInv, TypeOK
<1>2. CASE Finish(r) \/ Abort(r)
  <2>1. PICK q, pc : pass' = [pass EXCEPT ![r] = q] /\ IsIdle(q, pc)
    <3>1. \A pc \in {"idle", "dead"} : IsIdle([Idle EXCEPT !.pc = pc], pc)
      BY IdlePass
    <3>2. IsIdle(Idle, "idle")
      BY IdlePass
    <3> QED BY <1>2, <3>1, <3>2, Zenon DEF Finish, Abort
  <2>2. \A t \in Runner : pass'[t] = IF t = r THEN q ELSE pass[t]
    BY <1>1, <2>1
  <2> QED BY <2>1, <2>2 DEF IsIdle
<1>3. ASSUME NEW id \in WitnessID, NEW err \in {"invalid", "contention"},
             pass' = [pass EXCEPT ![r] = Stopped(pass[r], id, err)]
      PROVE  \A t \in Runner :
               /\ pass'[t].now = pass[t].now
               /\ \A i \in WitnessID : pass'[t].work[i] \subseteq pass[t].work[i]
  <2> DEFINE p == pass[r]
             q == Stopped(p, id, err)
  <2>1. p \in PassType /\ \A t \in Runner : pass'[t] = IF t = r THEN q ELSE pass[t]
    BY <1>1, <1>3
  <2> HIDE DEF p
  <2>2. IsChanged(q, p, id, {}, NoReply)
    BY <2>1, StoppedPass
  <2> HIDE DEF q
  <2> QED BY <2>1, <2>2 DEF IsChanged, p
<1>4. ASSUME NEW id \in WitnessID, NEW reply,
             pass' = [pass EXCEPT ![r].reply[id] = reply]
      PROVE  \A t \in Runner :
               pass'[t].now = pass[t].now /\ pass'[t].work = pass[t].work
  BY <1>1, <1>4 DEF PassType
<1>5. ASSUME NEW id \in WitnessID, Work(r, id)
      PROVE  \A t \in Runner :
               /\ pass'[t].now = pass[t].now
               /\ \A i \in WitnessID : pass'[t].work[i] \subseteq pass[t].work[i]
  <2>1. CASE NoClient(r, id)
    <3>1. pass' = [pass EXCEPT ![r] = Stopped(pass[r], id, "invalid")]
      BY <1>1, <2>1 DEF NoClient
    <3> QED BY <3>1, <1>3, Zenon
  <2>2. CASE Unsubmittable(r, id)
    BY <1>4, <2>2 DEF Unsubmittable
  <2>3. CASE Submit(r, id)
    <3>1. \E reply : pass' = [pass EXCEPT ![r].reply[id] = reply]
      BY <2>3, Zenon DEF Submit
    <3> QED BY <1>4, <3>1
  <2>4. CASE Record(r, id)
    <3>1. CASE \E err \in {"invalid", "contention"} :
                 pass' = [pass EXCEPT ![r] = Stopped(pass[r], id, err)]
      BY <1>3, <3>1, Zenon
    <3>2. CASE \E item : pass' = [pass EXCEPT
                 ![r].work[id] = IF pass[r].reply[id].kind = "retryable" THEN {}
                                 ELSE @ \ {item},
                 ![r].reply[id] = NoReply]
      <4>1. PICK rows \in SUBSET pass[r].work[id] :
              pass' = [pass EXCEPT ![r].work[id] = rows, ![r].reply[id] = NoReply]
        BY <3>2
      <4>2. \A t \in Runner : pass'[t] =
              IF t = r
              THEN [pass[r] EXCEPT !.work[id] = rows, !.reply[id] = NoReply]
              ELSE pass[t]
        BY <1>1, <4>1
      <4> QED BY <1>1, <4>1, <4>2, SMTT(20) DEF PassType
    <3>3. \A attempts, next :
            WitnessOutcome(Store, attempts, next) \in {"ok", "invalid", "contention"}
      BY DEF WitnessOutcome
    <3> QED BY <2>4, <3>1, <3>2, <3>3, ZenonT(20) DEF Record
  <2> QED BY <1>5, <2>1, <2>2, <2>3, <2>4 DEF Work
<1> QED BY <1>2, <1>5

(* Whichever worker steps, the stored rows stay or one of them gives way   *)
(* to the outcome of a row in hand with as many attempts.                  *)
RowStep(r, id, next) ==
  LET item == First(pass[r].work[id]) IN
  /\ pass[r].work[id] # {}
  /\ next \in WitnessState
  /\ WitnessKey(next) = WitnessKey(item)
  /\ next.attempts = (item.attempts + 1) % AttemptRange
  /\ pass[r].now <= 0 => /\ next.nextAttemptAt <= MaxBackoff
                         /\ next.nextAttemptAt <= Doubled(item.attempts)
  /\ \E old \in SUBSET witnesses :
       /\ old # {}
       /\ \A w \in old : /\ WitnessKey(w) = WitnessKey(item)
                         /\ w.attempts = item.attempts
       /\ witnesses' = (witnesses \ old) \cup {next}

(* What a worker's step does to the stored rows.                           *)
LEMMA RowSteps ==
  ASSUME IInv, NEW r \in Runner, NEW id \in WitnessID, Work(r, id)
  PROVE  UNCHANGED witnesses \/ \E next : RowStep(r, id, next)
<1> DEFINE p == pass[r]
           item == First(p.work[id])
           reply == p.reply[id]
<1>1. SUFFICES ASSUME Record(r, id), witnesses' # witnesses
               PROVE  \E next : RowStep(r, id, next)
  BY ZenonT(20) DEF Work, NoClient, Unsubmittable, Submit
<1>2. PICK next \in Outcomes(item, p.now, reply) :
        /\ WitnessOutcome(Store, item.attempts, next) = "ok"
        /\ witnesses' = ApplyWitness(Store, item.attempts, next).witnesses
  BY <1>1, Zenon DEF Record
<1> DEFINE old == Replaced(Store, item.attempts, next)
<1>3. p.work[id] # {} /\ reply # NoReply
  BY <1>1 DEF Record, Working
<1>4. item \in WitnessState /\ p.now \in Int /\ reply \in Replies
  <2>1. item \in WitnessState
    BY <1>3, FirstItem DEF IsItem
  <2> QED BY <2>1 DEF IInv, TypeOK, PassType
<1>5. witnesses' = (witnesses \ old) \cup {next}
  BY <1>2, Recorded
<1>6. /\ old # {}
      /\ \A w \in old : /\ w \in witnesses /\ WitnessKey(w) = WitnessKey(next)
                        /\ w.attempts = item.attempts
  BY <1>2 DEF WitnessOutcome, Replaced, Store, New
<1> HIDE DEF p, item, reply, old
<1>7. IsOutcome(next, item, p.now, reply)
  BY <1>4, OutcomeRow
<1>8. WitnessKey(next) = WitnessKey(item)
  BY <1>7 DEF WitnessKey, IsOutcome
<1>9. old \in SUBSET witnesses
  BY <1>6
<1>10. RowStep(r, id, next)
  BY <1>3, <1>5, <1>6, <1>7, <1>8, <1>9, ZenonT(20) DEF RowStep, IsOutcome, p, item
<1> QED BY <1>10

(* The outcome next of item takes the place of rows that are item, but for *)
(* the time to wait, and has one attempt more.                             *)
Overtakes(next, item) ==
  /\ item \in WitnessState /\ ~Final(item)
  /\ WitnessKey(next) = WitnessKey(item)
  /\ next.attempts = item.attempts + 1
  /\ \E old \in SUBSET witnesses :
       /\ witnesses' = (witnesses \ old) \cup {next}
       /\ old # {}
       /\ \A w \in old : /\ WitnessKey(w) = WitnessKey(item)
                         /\ w.attempts = item.attempts
                         /\ Untimed(w) = Untimed(item)

(* So it is under NoWrap, since the attempts are compared.                 *)
LEMMA RowStepNoWrap ==
  ASSUME IInv, NoWrap, WorkNotNewer, NEW r \in Runner, NEW id \in WitnessID,
         NEW next, RowStep(r, id, next)
  PROVE  Overtakes(next, First(pass[r].work[id]))
<1> DEFINE item == First(pass[r].work[id])
<1>1. /\ pass[r].work[id] # {} /\ next \in WitnessState
      /\ WitnessKey(next) = WitnessKey(item)
      /\ next.attempts = (item.attempts + 1) % AttemptRange
  BY DEF RowStep
<1>2. item \in pass[r].work[id] /\ item \in WitnessState /\ ~Final(item)
  BY <1>1, FirstItem, ZenonT(20) DEF IsItem
<1>3. PICK old \in SUBSET witnesses :
        /\ old # {}
        /\ \A w \in old : /\ WitnessKey(w) = WitnessKey(item)
                          /\ w.attempts = item.attempts
        /\ witnesses' = (witnesses \ old) \cup {next}
  BY DEF RowStep
<1> HIDE DEF item
<1>4. item.attempts + 1 < AttemptRange
  BY <1>3 DEF NoWrap
<1>5. next.attempts = item.attempts + 1
  <2>1. item.attempts \in Nat
    BY <1>2 DEF WitnessState
  <2> QED BY <1>1, <1>4, <2>1, Counted
<1>6. \A w \in old : Untimed(w) = Untimed(item)
  BY <1>2, <1>3 DEF WorkNotNewer
<1> QED BY <1>1, <1>2, <1>3, <1>5, <1>6, ZenonT(20) DEF item, Overtakes

(* Rows in hand that are rows in hand before, and stored rows as before.   *)
LEMMA NotNewerKept ==
  ASSUME WorkNotNewer, UNCHANGED witnesses,
         \A t \in Runner, i \in WitnessID :
           pass'[t].work[i] \subseteq pass[t].work[i]
  PROVE  WorkNotNewer'
  BY DEF WorkNotNewer

(* No action makes a row in hand newer than the stored one.                *)
LEMMA NotNewerStep ==
  ASSUME IInv, NoWrap, WorkNotNewer, [Next]_vars
  PROVE  WorkNotNewer'
<1>1. CASE Publish
  <2>1. /\ UNCHANGED pass /\ published \in Nat
        /\ witnesses' = witnesses
             \cup {FreshRow(id, published + 1) : id \in WitnessID}
    BY <1>1 DEF Publish, IInv, TypeOK
  <2>2. \A r \in Runner, id \in WitnessID : \A v \in pass[r].work[id] :
          v.size <= published /\ v.size \in Nat
    <3>1. ASSUME NEW r \in Runner, NEW id \in WitnessID
          PROVE  ProperWork(id, pass[r].work[id], published)
      <4>1. ProperPass(r, pass[r], published, recorded, refused)
        BY DEF IInv
      <4> QED BY <4>1 DEF ProperPass
    <3> QED BY <2>1, <3>1 DEF ProperWork
  <2>3. \A id \in WitnessID : FreshRow(id, published + 1).size = published + 1
    BY DEF FreshRow
  <2> QED BY <2>1, <2>2, <2>3 DEF WorkNotNewer, WitnessKey
<1>2. CASE Tick
  <2> DEFINE Aged(w) == [w EXCEPT !.nextAttemptAt = Later(@, -1)]
  <2>1. ASSUME NEW w \in WitnessState
        PROVE  /\ Untimed(Aged(w)) = Untimed(w)
               /\ WitnessKey(Aged(w)) = WitnessKey(w)
               /\ Aged(w).attempts = w.attempts
    BY ZenonT(20) DEF WitnessState, Untimed, WitnessKey
  <2>2. witnesses' = {Aged(w) : w \in witnesses} /\ witnesses \subseteq WitnessState
    BY <1>2 DEF Tick, IInv, TypeOK
  <2> HIDE DEF Aged
  <2>3. \A r \in Runner : pass'[r].work = pass[r].work
    <3>1. pass \in [Runner -> PassType]
      BY DEF IInv, TypeOK
    <3> QED BY <1>2, <3>1, SMTT(20) DEF Tick, PassType
  <2> QED BY <2>1, <2>2, <2>3 DEF WorkNotNewer
<1>3. ASSUME NEW r \in Runner, RunOnce(r) PROVE WorkNotNewer'
  <2> DEFINE due == PendingWitnesses(Store, 0, Limit)
  <2>1. due \subseteq witnesses
    BY DueRows
  <2>2. UNCHANGED witnesses
    BY <1>3 DEF RunOnce
  <2>3. ASSUME NEW t \in Runner, NEW id \in WitnessID, NEW v \in pass'[t].work[id]
        PROVE  v \in witnesses \/ v \in pass[t].work[id]
    <3>1. pass'[t].work[id] = IF t = r THEN {w \in due : w.id = id}
                              ELSE pass[t].work[id]
      BY <1>3 DEF RunOnce, IInv, TypeOK, Idle
    <3> QED BY <2>1, <2>3, <3>1
  <2>4. UniqueKeys(witnesses) /\ \A w \in witnesses : w.attempts \in Nat
    BY DEF IInv, TypeOK, WitnessState
  <2> QED BY <2>2, <2>3, <2>4 DEF WorkNotNewer, UniqueKeys
<1>4. ASSUME NEW r \in Runner, Finish(r) \/ Abort(r) PROVE WorkNotNewer'
  <2>1. UNCHANGED witnesses
    BY <1>4 DEF Finish, Abort
  <2>2. \A t \in Runner, i \in WitnessID : pass'[t].work[i] \subseteq pass[t].work[i]
    BY <1>4, PassesShrink
  <2> QED BY <2>1, <2>2, NotNewerKept
<1>5. ASSUME NEW r \in Runner, NEW id \in WitnessID, Work(r, id)
      PROVE  WorkNotNewer'
  <2> DEFINE item == First(pass[r].work[id])
  <2>1. \A t \in Runner, i \in WitnessID : pass'[t].work[i] \subseteq pass[t].work[i]
    BY <1>5, PassesShrink
  <2>2. CASE UNCHANGED witnesses
    BY <2>1, <2>2, NotNewerKept
  <2>3. ASSUME NEW next, RowStep(r, id, next) PROVE WorkNotNewer'
    <3>1. PICK old \in SUBSET witnesses :
            /\ witnesses' = (witnesses \ old) \cup {next}
            /\ old # {}
            /\ \A w \in old : /\ WitnessKey(w) = WitnessKey(next)
                              /\ w.attempts + 1 = next.attempts
                              /\ w.attempts \in Nat
      <4>1. Overtakes(next, item)
        BY <2>3, RowStepNoWrap
      <4>2. \A w \in witnesses : w.attempts \in Nat
        BY DEF IInv, TypeOK, WitnessState
      <4> HIDE DEF item
      <4> QED BY <4>1, <4>2 DEF Overtakes
    <3>2. \A t \in Runner, i \in WitnessID : \A v \in pass'[t].work[i] :
            v.attempts \in Nat
      <4>1. \A t \in Runner, i \in WitnessID : pass[t].work[i] \subseteq WitnessState
        BY DEF IInv, TypeOK, PassType
      <4>2. \A v \in WitnessState : v.attempts \in Nat
        BY DEF WitnessState
      <4> QED BY <2>1, <4>1, <4>2, Zenon
    <3>3. ASSUME NEW t \in Runner, NEW i \in WitnessID,
                 NEW v \in pass'[t].work[i], NEW w \in witnesses',
                 WitnessKey(v) = WitnessKey(w)
          PROVE  /\ v.attempts <= w.attempts
                 /\ v.attempts = w.attempts => Untimed(v) = Untimed(w)
      <4>1. v \in pass[t].work[i]
        BY <2>1, <3>3
      <4>2. CASE w \in witnesses
        BY <3>3, <4>1, <4>2 DEF WorkNotNewer
      <4>3. CASE w = next
        <5>1. PICK o \in old : WitnessKey(o) = WitnessKey(v)
          BY <3>1, <3>3, <4>3
        <5>2. v.attempts <= o.attempts
          BY <4>1, <5>1 DEF WorkNotNewer
        <5>3. o.attempts + 1 = w.attempts /\ o.attempts \in Nat
          BY <3>1, <4>3, <5>1
        <5> QED BY <3>2, <3>3, <5>2, <5>3
      <4> QED BY <3>1, <3>3, <4>2, <4>3
    <3> QED BY <3>3 DEF WorkNotNewer
  <2> QED BY <1>5, <2>2, <2>3, RowSteps
<1>6. CASE UNCHANGED vars
  BY <1>6 DEF vars, WorkNotNewer
<1> QED BY <1>1, <1>2, <1>3, <1>4, <1>5, <1>6 DEF Next

(* A pass that starts is at the present; time takes it back.               *)
LEMMA RecedeStep == ASSUME IInv, PassesRecede, [Next]_vars PROVE PassesRecede'
<1>1. \A r \in Runner : pass[r].now \in Int /\ pass[r].now <= 0
  BY DEF IInv, TypeOK, PassType, PassesRecede
<1>2. CASE Tick
  <2>1. ASSUME NEW r \in Runner
        PROVE  pass'[r].now \in {pass[r].now, pass[r].now - 1}
    BY <1>2 DEF Tick, IInv, TypeOK, PassType
  <2> QED BY <1>1, <2>1 DEF PassesRecede
<1>3. ASSUME NEW r \in Runner, RunOnce(r) PROVE PassesRecede'
  <2>1. \A t \in Runner : pass'[t].now \in {0, pass[t].now}
    BY <1>3 DEF RunOnce, IInv, TypeOK, Idle
  <2> QED BY <1>1, <2>1 DEF PassesRecede
<1>4. ASSUME NEW r \in Runner,
             \/ Finish(r) \/ Abort(r) \/ \E id \in WitnessID : Work(r, id)
      PROVE  PassesRecede'
  <2>1. \A t \in Runner : pass'[t].now \in {0, pass[t].now}
    BY <1>4, PassesShrink
  <2> QED BY <1>1, <2>1 DEF PassesRecede
<1>5. CASE UNCHANGED pass
  BY <1>5 DEF PassesRecede
<1> QED BY <1>2, <1>3, <1>4, <1>5 DEF Next, vars, Publish

(* The wait of a new, an aged and an attempted row is within the schedule. *)
LEMMA ScheduleStep ==
  ASSUME IInv, NoWrap, WInv, [Next]_vars
  PROVE  WaitWithinSchedule'
<1> DEFINE Within(w) ==
      /\ w.nextAttemptAt <= MaxBackoff
      /\ w.attempts = 0 => w.nextAttemptAt = 0
      /\ w.attempts > 0 => w.nextAttemptAt <= Doubled(w.attempts - 1)
<1>1. \A w \in witnesses : w \in WitnessState /\ Within(w)
  BY DEF IInv, TypeOK, WInv, WaitWithinSchedule
<1>2. SUFFICES \A w \in witnesses' : Within(w)
  BY DEF WaitWithinSchedule
<1>3. MaxBackoff \in Nat
  BY DeliveryAssumption
<1>4. CASE Publish
  <2>1. \A id \in WitnessID : Within(FreshRow(id, published'))
    BY <1>3 DEF FreshRow
  <2> QED BY <1>1, <1>4, <2>1 DEF Publish
<1>5. CASE Tick
  <2> DEFINE Aged(w) == [w EXCEPT !.nextAttemptAt = Later(@, -1)]
  <2>1. ASSUME NEW w \in witnesses PROVE Within(Aged(w))
    <3>1. /\ Aged(w).attempts = w.attempts /\ w.attempts \in Nat
          /\ Aged(w).nextAttemptAt = Later(w.nextAttemptAt, -1)
          /\ w.nextAttemptAt \in Nat
      BY <1>1 DEF WitnessState, Time
    <3>2. /\ Later(w.nextAttemptAt, -1) \in Nat
          /\ Later(w.nextAttemptAt, -1) <= w.nextAttemptAt
      BY <3>1 DEF Later
    <3>3. w.attempts > 0 => Doubled(w.attempts - 1) \in Nat
      BY <3>1, ExponentialBounds
    <3> HIDE DEF Aged
    <3> QED BY <1>1, <1>3, <3>1, <3>2, <3>3
  <2>2. witnesses' = {Aged(w) : w \in witnesses}
    BY <1>5 DEF Tick
  <2> HIDE DEF Within, Aged
  <2> QED BY <2>1, <2>2
<1>6. ASSUME NEW r \in Runner, NEW id \in WitnessID, Work(r, id)
      PROVE  \A w \in witnesses' : Within(w)
  <2>1. ASSUME NEW next, RowStep(r, id, next) PROVE \A w \in witnesses' : Within(w)
    <3> DEFINE item == First(pass[r].work[id])
    <3>1. /\ next.nextAttemptAt <= MaxBackoff
          /\ next.nextAttemptAt <= Doubled(item.attempts)
      BY <2>1 DEF RowStep, WInv, PassesRecede
    <3>2. next.attempts = item.attempts + 1 /\ item \in WitnessState
      <4>1. WorkNotNewer
        BY DEF WInv
      <4> QED BY <2>1, <4>1, RowStepNoWrap DEF Overtakes
    <3>3. item.attempts \in Nat
      BY <3>2 DEF WitnessState
    <3>4. \A w \in witnesses' : w \in witnesses \/ w = next
      BY <2>1 DEF RowStep
    <3> HIDE DEF item
    <3>5. Within(next)
      <4>1. next.attempts - 1 = item.attempts /\ next.attempts > 0
        BY <3>2, <3>3
      <4> QED BY <3>1, <4>1
    <3> QED BY <1>1, <3>4, <3>5
  <2> QED BY <1>1, <1>6, <2>1, RowSteps
<1>7. CASE UNCHANGED witnesses
  BY <1>1, <1>7
<1> QED BY <1>4, <1>5, <1>6, <1>7, ZenonT(20) DEF Next, vars, RunOnce, Finish, Abort

(* While no attempt counter comes round, a row in hand is never newer than *)
(* the stored one and every wait is within the schedule.                   *)
LEMMA WInvHolds == Spec /\ []NoWrap => []WInv
<1>1. Init => WInv
  BY DEF Init, WInv, WorkNotNewer, PassesRecede, WaitWithinSchedule, Idle
<1>2. IInv /\ NoWrap /\ WInv /\ [Next]_vars => WInv'
  BY NotNewerStep, RecedeStep, ScheduleStep DEF WInv
<1> QED BY <1>1, <1>2, Invariant, PTL DEF Spec

(* A pending row is due again within the exponential schedule of backoff,  *)
(* and never later than MaxBackoff, until 2^32 attempts at one row bring   *)
(* its counter round.                                                      *)
THEOREM WaitsAreBounded == Spec /\ []NoWrap => []WaitWithinSchedule
  BY WInvHolds, PTL DEF WInv

(* A delivered or given-up row is never overwritten by the outcome of a    *)
(* pass that read it earlier: CommitWitness compares the attempts, which   *)
(* only grow while the counter does not come round.                        *)
THEOREM FinalRowsAreKept == Spec /\ []NoWrap => FinalRowsStay
<1> DEFINE Kept == \A v \in witnesses : Final(v) =>
                     \E w \in witnesses' : Untimed(w) = Untimed(v)
<1>1. ASSUME IInv, NoWrap, WInv, [Next]_vars PROVE [Kept]_vars
  <2>1. SUFFICES ASSUME NEW v \in witnesses, Final(v), v \notin witnesses'
                 PROVE  \E w \in witnesses' : Untimed(w) = Untimed(v)
    OBVIOUS
  <2>2. CASE Tick
    <3> DEFINE Aged(w) == [w EXCEPT !.nextAttemptAt = Later(@, -1)]
    <3>1. v \in WitnessState /\ Aged(v) \in witnesses'
      BY <1>1, <2>2, Zenon DEF Tick, IInv, TypeOK
    <3>2. Untimed(Aged(v)) = Untimed(v)
      BY <3>1, Zenon DEF WitnessState, Untimed
    <3> QED BY <3>1, <3>2
  <2>3. ASSUME NEW r \in Runner, NEW id \in WitnessID, Work(r, id) PROVE FALSE
    <3>1. UNCHANGED witnesses \/ \E next : RowStep(r, id, next)
      BY <1>1, <2>3, RowSteps
    <3>2. PICK next : RowStep(r, id, next)
      BY <2>1, <3>1
    <3> DEFINE item == First(pass[r].work[id])
    <3>3. Overtakes(next, item)
      <4>1. WorkNotNewer
        BY <1>1 DEF WInv
      <4> QED BY <1>1, <3>2, <4>1, RowStepNoWrap
    <3> HIDE DEF item
    <3>4. Untimed(v) = Untimed(item) /\ v \in WitnessState
      BY <1>1, <2>1, <3>3 DEF IInv, TypeOK, Overtakes
    <3>5. v.receipt = item.receipt /\ v.permanent = item.permanent
      <4>1. ASSUME NEW w \in WitnessState
            PROVE  /\ Untimed(w).receipt = w.receipt
                   /\ Untimed(w).permanent = w.permanent
        BY DEF Untimed, WitnessState
      <4> QED BY <3>3, <3>4, <4>1 DEF Overtakes
    <3> QED BY <2>1, <3>3, <3>5 DEF Final, Overtakes
  <2> QED BY <1>1, <2>1, <2>2, <2>3, Zenon
          DEF Next, vars, Publish, RunOnce, Finish, Abort
<1> QED BY <1>1, Invariant, WInvHolds, PTL DEF Spec, FinalRowsStay
=============================================================================

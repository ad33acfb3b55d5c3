---------------------------- MODULE BackendProofs ----------------------------
(***************************************************************************)
(* Facts about the operators that the backends are built from: induction   *)
(* over the naturals in a form the provers can use, the shared transition  *)
(* rules and the wire encoding.                                            *)
(***************************************************************************)
EXTENDS Wire, WellFoundedInduction, TLAPS

-----------------------------------------------------------------------------
(* Induction, over a set rather than a predicate.                          *)

(* Every nonempty set of naturals has a least element.                     *)
LEMMA LeastNat ==
  ASSUME NEW S, S \subseteq Nat, S # {}
  PROVE  \E m \in S : \A n \in S : m <= n
<1>1. IsWellFoundedOn(OpToRel(<, Nat), Nat)
  BY NatLessThanWellFounded, Zenon
<1>2. PICK m \in S : \A n \in S : ~(<<n, m>> \in OpToRel(<, Nat))
  BY <1>1, WFMin, Zenon
<1>3. \A n \in S : ~(n < m)
  BY <1>2, Zenon DEF OpToRel
<1> QED BY <1>3

(* A set with 0 that holds n + 1 whenever it holds n has every natural.    *)
LEMMA Induction ==
  ASSUME NEW S, 0 \in S, \A n \in Nat : n \in S => n + 1 \in S
  PROVE  \A n \in Nat : n \in S
<1> DEFINE Missing == {n \in Nat : n \notin S}
<1>1. SUFFICES ASSUME Missing # {} PROVE FALSE
  OBVIOUS
<1>2. PICK m \in Missing : \A n \in Missing : m <= n
  BY <1>1, LeastNat, Zenon
<1>3. m - 1 \in Nat /\ m - 1 \in S
  BY <1>2
<1> QED BY <1>3

-----------------------------------------------------------------------------
(* The transition rules.                                                   *)

(* Truncating a time to the millisecond gives a time.                      *)
LEMMA NormalizedTime == ASSUME NEW t \in Time PROVE NormalizeTime(t) \in Time
<1>1. t \div Milli \in Nat
  BY MilliAssumption DEF Time
<1> QED BY <1>1, MilliAssumption DEF NormalizeTime, Time

(* A new engine's state is valid.                                          *)
LEMMA NewState == New \in State /\ validateState(New)
<1>1. New \in State
  BY DEF New, State, NoCheckpoint, CheckpointState, NoTime
<1>2. validateState(New)
  <2>1. /\ New.size = 0 /\ New.nodes = << >> /\ New.indexedSeq = 0
        /\ New.checkpoint = NoCheckpoint /\ New.witnesses = {}
    BY DEF New
  <2>2. ValidCheckpoint(New)
    BY <2>1 DEF ValidCheckpoint
  <2> QED BY <2>1, <2>2, MMRSizeAssumption, SeqAssumption
          DEF validateState, validateStateMetadata, UniqueKeys
<1> QED BY <1>1, <1>2

(* What an accepted CommitCLL has checked.                                 *)
LEMMA CLLAccepted ==
  ASSUME NEW s, NEW size, NEW bytes, NEW next,
         CLLOutcome(s, size, bytes, next) = "ok"
  PROVE  /\ ExpectedMatches(s, size, bytes)
         /\ validateState(next) /\ AppendOnly(s, next)
         /\ ~(next.indexedSeq < s.indexedSeq)
         /\ CheckpointAdvances(s, next) /\ WitnessesKept(s, next)
<1>1. ExpectedMatches(s, size, bytes)
  BY DEF CLLOutcome
<1>2. validateState(next) /\ AppendOnly(s, next)
  BY <1>1 DEF CLLOutcome
<1>3. validateCLLTransition(s, next) = "ok"
  BY <1>1, <1>2 DEF CLLOutcome
<1> QED BY <1>1, <1>2, <1>3 DEF validateCLLTransition

(* The state a commit installs, field by field.                            *)
LEMMA ApplyCLLFields ==
  ASSUME NEW s \in State, NEW next \in State
  PROVE  /\ ApplyCLL(s, next) \in State
         /\ ApplyCLL(s, next).size = next.size
         /\ ApplyCLL(s, next).nodes = next.nodes
         /\ ApplyCLL(s, next).indexedSeq = next.indexedSeq
         /\ ApplyCLL(s, next).checkpoint = next.checkpoint
         /\ ApplyCLL(s, next).firstPendingAt = next.firstPendingAt
         /\ ApplyCLL(s, next).witnesses =
              s.witnesses \cup AddedWitnesses(s, next)
<1>1. s.witnesses \cup AddedWitnesses(s, next) \in SUBSET WitnessState
  BY DEF State, AddedWitnesses
<1> QED BY <1>1 DEF ApplyCLL, State

(* Rows that join under new keys leave the keys unique.                    *)
LEMMA MergedRows ==
  ASSUME NEW s, NEW next,
         UniqueKeys(s.witnesses), UniqueKeys(next.witnesses),
         \A w \in s.witnesses : validateWitness(w),
         \A w \in next.witnesses : validateWitness(w)
  PROVE  /\ UniqueKeys(s.witnesses \cup AddedWitnesses(s, next))
         /\ \A w \in s.witnesses \cup AddedWitnesses(s, next) : validateWitness(w)
  BY DEF UniqueKeys, AddedWitnesses

(* An accepted commit installs a valid state.                              *)
LEMMA ApplyCLLValid ==
  ASSUME NEW s \in State, NEW next \in State, validateState(s), validateState(next)
  PROVE  validateState(ApplyCLL(s, next))
<1> DEFINE t == ApplyCLL(s, next)
<1>1. /\ t.size = next.size /\ t.nodes = next.nodes
      /\ t.indexedSeq = next.indexedSeq /\ t.checkpoint = next.checkpoint
      /\ t.witnesses = s.witnesses \cup AddedWitnesses(s, next)
  BY ApplyCLLFields
<1>2. /\ UniqueKeys(t.witnesses)
      /\ \A w \in t.witnesses : validateWitness(w)
  BY <1>1, MergedRows DEF validateState, validateStateMetadata
<1>3. ValidCheckpoint(t)
  BY <1>1 DEF validateState, validateStateMetadata, ValidCheckpoint
<1> HIDE DEF t
<1>4. validateState(t)
  BY <1>1, <1>2, <1>3 DEF validateState, validateStateMetadata
<1> QED BY <1>4 DEF t

(* A witness commit that is accepted replaces exactly the row it names.    *)
LEMMA ReplacedRow ==
  ASSUME NEW s, NEW attempts, NEW next, UniqueKeys(s.witnesses),
         NEW v \in Replaced(s, attempts, next)
  PROVE  /\ Replaced(s, attempts, next) = {v}
         /\ v \in s.witnesses /\ WitnessKey(v) = WitnessKey(next)
         /\ v.checkpoint = next.checkpoint
  BY DEF Replaced, UniqueKeys

(* The state a witness commit installs.                                    *)
LEMMA ApplyWitnessFacts ==
  ASSUME NEW s \in State, NEW attempts, NEW next \in WitnessState,
         validateState(s), WitnessOutcome(s, attempts, next) = "ok"
  PROVE  /\ ApplyWitness(s, attempts, next) \in State
         /\ validateState(ApplyWitness(s, attempts, next))
         /\ ApplyWitness(s, attempts, next).size = s.size
         /\ ApplyWitness(s, attempts, next).nodes = s.nodes
         /\ ApplyWitness(s, attempts, next).indexedSeq = s.indexedSeq
         /\ ApplyWitness(s, attempts, next).firstPendingAt = s.firstPendingAt
         /\ ApplyWitness(s, attempts, next).checkpoint = s.checkpoint
         /\ ApplyWitness(s, attempts, next).witnesses =
              (s.witnesses \ Replaced(s, attempts, next)) \cup {next}
         /\ Replaced(s, attempts, next) # {}
<1> DEFINE t == ApplyWitness(s, attempts, next)
           rows == (s.witnesses \ Replaced(s, attempts, next)) \cup {next}
<1>1. validateWitness(next) /\ Replaced(s, attempts, next) # {}
  BY DEF WitnessOutcome
<1>2. rows \in SUBSET WitnessState
  BY DEF State
<1>3. /\ t \in State /\ t.size = s.size /\ t.nodes = s.nodes
      /\ t.indexedSeq = s.indexedSeq /\ t.checkpoint = s.checkpoint
      /\ t.firstPendingAt = s.firstPendingAt /\ t.witnesses = rows
  BY <1>2 DEF ApplyWitness, State
<1>4. PICK v \in Replaced(s, attempts, next) : TRUE
  BY <1>1
<1>5. /\ UniqueKeys(s.witnesses) /\ \A w \in s.witnesses : validateWitness(w)
  BY DEF validateState, validateStateMetadata
<1>6. /\ rows = (s.witnesses \ {v}) \cup {next}
      /\ v \in s.witnesses /\ WitnessKey(v) = WitnessKey(next)
  BY <1>4, <1>5, ReplacedRow
<1>7. UniqueKeys(rows) /\ \A w \in rows : validateWitness(w)
  BY <1>1, <1>5, <1>6 DEF UniqueKeys
<1>8. ValidCheckpoint(t)
  BY <1>3 DEF validateState, validateStateMetadata, ValidCheckpoint
<1> HIDE DEF t, rows
<1>9. validateState(t)
  BY <1>3, <1>7, <1>8 DEF validateState, validateStateMetadata
<1> QED BY <1>1, <1>3, <1>9 DEF t, rows

-----------------------------------------------------------------------------
(* The journal delta of a commit.                                          *)

(* A list after one it extends is that list and the rest.                  *)
LEMMA PrefixAndRest ==
  ASSUME NEW p \in Seq(Value), NEW q \in Seq(Value), prefixEqual(p, q)
  PROVE  /\ SubSeq(q, Len(p) + 1, Len(q)) \in Seq(Value)
         /\ Len(p) + Len(SubSeq(q, Len(p) + 1, Len(q))) = Len(q)
         /\ p \o SubSeq(q, Len(p) + 1, Len(q)) = q
<1> DEFINE r == SubSeq(q, Len(p) + 1, Len(q))
<1>1. Len(p) \in Nat /\ Len(q) \in Nat /\ Len(p) <= Len(q)
  BY DEF prefixEqual
<1>2. r \in Seq(Value) /\ Len(r) = Len(q) - Len(p)
  BY <1>1
<1>3. \A i \in 1..Len(r) : r[i] = q[Len(p) + i]
  BY <1>1, <1>2
<1> HIDE DEF r
<1> DEFINE c == p \o r
<1>4. c \in Seq(Value) /\ Len(c) = Len(q)
  BY <1>1, <1>2
<1>5. ASSUME NEW i \in 1..Len(q), i <= Len(p) PROVE c[i] = q[i]
  BY <1>1, <1>2, <1>5 DEF prefixEqual
<1>6. ASSUME NEW i \in 1..Len(q), ~(i <= Len(p)) PROVE c[i] = q[i]
  <2>1. i - Len(p) \in 1..Len(r) /\ Len(p) + (i - Len(p)) = i
    BY <1>1, <1>2, <1>6
  <2>2. c[i] = r[i - Len(p)]
    BY <1>1, <1>2, <1>6, <2>1
  <2> QED BY <1>3, <2>1, <2>2
<1> HIDE DEF c
<1>7. c = q
  BY <1>4, <1>5, <1>6
<1> QED BY <1>1, <1>2, <1>7 DEF r, c

(* The rows a commit added are the rows the merged state has beyond the    *)
(* state before it, and adding them again to that state adds them all.     *)
LEMMA AddedAgain ==
  ASSUME NEW s, NEW next, NEW after, NEW delta,
         after.witnesses = s.witnesses \cup AddedWitnesses(s, next),
         delta.witnesses = AddedWitnesses(s, after)
  PROVE  /\ delta.witnesses = AddedWitnesses(s, next)
         /\ AddedWitnesses(s, delta) = AddedWitnesses(s, next)
         /\ WitnessesKept(s, delta)
  BY DEF AddedWitnesses, WitnessesKept

(* The delta, field by field.                                              *)
LEMMA DeltaFields ==
  ASSUME NEW s \in State, NEW after \in State
  PROVE  /\ DeltaSince(s, after) \in State
         /\ DeltaSince(s, after).size = after.size
         /\ DeltaSince(s, after).nodes =
              SubSeq(after.nodes, Len(s.nodes) + 1, Len(after.nodes))
         /\ DeltaSince(s, after).indexedSeq = after.indexedSeq
         /\ DeltaSince(s, after).firstPendingAt = after.firstPendingAt
         /\ DeltaSince(s, after).checkpoint = after.checkpoint
         /\ DeltaSince(s, after).witnesses = AddedWitnesses(s, after)
<1> DEFINE rest == SubSeq(after.nodes, Len(s.nodes) + 1, Len(after.nodes))
<1>1. rest \in Seq(Value)
  BY DEF State
<1>2. AddedWitnesses(s, after) \in SUBSET WitnessState
  BY DEF State, AddedWitnesses
<1> HIDE DEF rest
<1> QED BY <1>1, <1>2 DEF DeltaSince, State, rest

(* Replay of the delta gives back the committed state.                     *)
LEMMA DeltaRestores ==
  ASSUME NEW s \in State, NEW after \in State,
         s.nodes \o DeltaSince(s, after).nodes = after.nodes,
         s.witnesses \cup AddedWitnesses(s, DeltaSince(s, after)) = after.witnesses
  PROVE  ApplyDelta(s, DeltaSince(s, after)) = after
<1> DEFINE d == DeltaSince(s, after)
           x == s.nodes \o d.nodes
           y == s.witnesses \cup AddedWitnesses(s, d)
<1>1. ApplyDelta(s, d) = [d EXCEPT !.nodes = x, !.witnesses = y]
  BY DEF ApplyDelta
<1>2. x = after.nodes /\ y = after.witnesses
  OBVIOUS
<1> HIDE DEF x, y
<1>3. [d EXCEPT !.nodes = x, !.witnesses = y] =
        [after EXCEPT !.nodes = x, !.witnesses = y]
  BY DEF DeltaSince, State
<1>4. [after EXCEPT !.nodes = after.nodes, !.witnesses = after.witnesses] = after
  BY DEF State
<1> QED BY <1>1, <1>2, <1>3, <1>4

(* The delta of an accepted commit is accepted on replay.                  *)
LEMMA DeltaAccepted ==
  ASSUME NEW s \in State, NEW next \in State, validateState(s),
         CLLOutcome(s, s.size, s.checkpoint.bytes, next) = "ok"
  PROVE  LET after == ApplyCLL(s, next)
             delta == DeltaSince(s, after)
         IN  /\ DeltaOutcome(s, s.size, s.checkpoint.bytes, delta) = "ok"
             /\ ApplyDelta(s, delta) = after
<1> DEFINE after == ApplyCLL(s, next)
           delta == DeltaSince(s, after)
           leaves == Len(s.nodes) + Len(delta.nodes)
<1>1. /\ ExpectedMatches(s, s.size, s.checkpoint.bytes)
      /\ validateState(next) /\ AppendOnly(s, next)
      /\ ~(next.indexedSeq < s.indexedSeq)
      /\ CheckpointAdvances(s, next)
  BY CLLAccepted
<1>2. /\ after \in State /\ after.size = next.size /\ after.nodes = next.nodes
      /\ after.indexedSeq = next.indexedSeq
      /\ after.checkpoint = next.checkpoint
      /\ after.witnesses = s.witnesses \cup AddedWitnesses(s, next)
  BY ApplyCLLFields
<1>3. validateState(after)
  BY <1>1, ApplyCLLValid
<1> HIDE DEF after
<1>4. /\ delta.size = next.size /\ delta.indexedSeq = next.indexedSeq
      /\ delta.checkpoint = next.checkpoint
      /\ delta.nodes = SubSeq(next.nodes, Len(s.nodes) + 1, Len(next.nodes))
      /\ delta.witnesses = AddedWitnesses(s, after)
  <2>1. after \in State
    BY <1>2
  <2>2. /\ delta.size = after.size /\ delta.indexedSeq = after.indexedSeq
        /\ delta.checkpoint = after.checkpoint
        /\ delta.nodes = SubSeq(after.nodes, Len(s.nodes) + 1, Len(after.nodes))
        /\ delta.witnesses = AddedWitnesses(s, after)
    BY <2>1, DeltaFields
  <2> HIDE DEF delta
  <2> QED BY <1>2, <2>2
<1> HIDE DEF delta
<1>5. leaves = Len(next.nodes) /\ s.nodes \o delta.nodes = next.nodes
  <2>1. /\ s.nodes \in Seq(Value) /\ next.nodes \in Seq(Value)
        /\ prefixEqual(s.nodes, next.nodes)
    BY <1>1 DEF State, AppendOnly
  <2> DEFINE r == SubSeq(next.nodes, Len(s.nodes) + 1, Len(next.nodes))
  <2>2. Len(s.nodes) + Len(r) = Len(next.nodes) /\ s.nodes \o r = next.nodes
    BY <2>1, PrefixAndRest
  <2> HIDE DEF r
  <2>3. delta.nodes = r
    BY <1>4 DEF r
  <2> QED BY <2>2, <2>3
<1> HIDE DEF leaves
<1>6. /\ delta.witnesses = AddedWitnesses(s, next)
      /\ AddedWitnesses(s, delta) = AddedWitnesses(s, next)
      /\ WitnessesKept(s, delta)
  BY <1>2, <1>4, AddedAgain
<1>7. leaves \in 0..MaxSeq /\ delta.size = MMRSize[leaves]
  BY <1>1, <1>4, <1>5 DEF validateState, validateStateMetadata
<1>8. validateStateMetadata(delta, delta.size)
  <2>1. ValidCheckpoint(delta)
    BY <1>1, <1>4 DEF validateState, validateStateMetadata, ValidCheckpoint
  <2>2. /\ UniqueKeys(delta.witnesses)
        /\ \A w \in delta.witnesses : validateWitness(w)
    <3>1. delta.witnesses \subseteq next.witnesses
      BY <1>6 DEF AddedWitnesses
    <3> QED BY <1>1, <3>1 DEF validateState, validateStateMetadata, UniqueKeys
  <2> QED BY <1>1, <1>4, <2>1, <2>2 DEF validateState, validateStateMetadata
<1>9. validateCLLTransition(s, delta) = "ok"
  <2>1. CheckpointAdvances(s, delta)
    BY <1>1, <1>4 DEF CheckpointAdvances
  <2> QED BY <1>1, <1>4, <1>6, <2>1 DEF validateCLLTransition
<1>10. DeltaOutcome(s, s.size, s.checkpoint.bytes, delta) = "ok"
  BY <1>1, <1>7, <1>8, <1>9 DEF DeltaOutcome, leaves
<1>11. ApplyDelta(s, delta) = after
  BY <1>2, <1>5, <1>6, DeltaRestores DEF delta
<1> QED BY <1>10, <1>11 DEF after, delta

-----------------------------------------------------------------------------
(* The wire encoding.                                                      *)

(* Truncating a time twice is truncating it once.                          *)
LEMMA NormalizedOnce ==
  ASSUME NEW t \in Time
  PROVE  NormalizeTime(NormalizeTime(t)) = NormalizeTime(t)
<1> DEFINE k == t \div Milli
<1>1. k \in Nat
  BY MilliAssumption DEF Time
<1> HIDE DEF k
<1>2. (Milli * k) \div Milli = k
  BY <1>1, MilliAssumption
<1> QED BY <1>2 DEF NormalizeTime, k

(* A stored time is a time, absent if it was, and stored again the same.   *)
LEMMA WireTimes ==
  ASSUME NEW t \in Time \cup {NoTime}
  PROVE  /\ WireTime(t) \in Time \cup {NoTime}
         /\ t # NoTime => WireTime(t) \in Time
         /\ WireTime(WireTime(t)) = WireTime(t)
<1>1. CASE t = NoTime
  BY <1>1 DEF WireTime
<1>2. CASE t \in Time
  <2>1. t # NoTime
    BY <1>2 DEF Time, NoTime
  <2>2. NormalizeTime(t) \in Time /\ NormalizeTime(t) # NoTime
    BY <1>2, NormalizedTime DEF Time, NoTime
  <2> QED BY <1>2, <2>1, <2>2, NormalizedOnce DEF WireTime
<1> QED BY <1>1, <1>2

(* A stored witness row differs in its time at most.                       *)
LEMMA WireWitness ==
  ASSUME NEW w \in WitnessState
  PROVE  /\ WitnessToWire(w) \in WitnessState
         /\ WitnessKey(WitnessToWire(w)) = WitnessKey(w)
         /\ WitnessToWire(w).checkpoint = w.checkpoint
         /\ WitnessToWire(w).attempts = w.attempts
         /\ validateWitness(WitnessToWire(w)) = validateWitness(w)
         /\ WitnessToWire(WitnessToWire(w)) = WitnessToWire(w)
<1> DEFINE n == WireTime(w.nextAttemptAt)
<1>1. n \in Time /\ WireTime(n) = n
  <2>1. w.nextAttemptAt \in Time /\ w.nextAttemptAt # NoTime
    BY DEF WitnessState, Time, NoTime
  <2> QED BY <2>1, WireTimes
<1>2. WitnessToWire(w) = [w EXCEPT !.nextAttemptAt = n]
  BY DEF WitnessToWire
<1> HIDE DEF n
<1>3. WitnessToWire(w) \in WitnessState /\ WitnessToWire(w).nextAttemptAt = n
  BY <1>1, <1>2 DEF WitnessState
<1>4. WitnessToWire(WitnessToWire(w)) = WitnessToWire(w)
  <2>1. WitnessToWire(WitnessToWire(w))
          = [WitnessToWire(w) EXCEPT !.nextAttemptAt = n]
    BY <1>1, <1>3 DEF WitnessToWire
  <2> QED BY <1>2, <2>1 DEF WitnessState
<1> QED BY <1>2, <1>3, <1>4 DEF WitnessState, WitnessKey, validateWitness

WireRows(rows) == {WitnessToWire(w) : w \in rows}

(* Storing rows keeps their keys unique and the rows valid.                *)
LEMMA WireRowsValid ==
  ASSUME NEW rows \in SUBSET WitnessState
  PROVE  /\ WireRows(rows) \in SUBSET WitnessState
         /\ WireRows(WireRows(rows)) = WireRows(rows)
         /\ UniqueKeys(rows) => UniqueKeys(WireRows(rows))
         /\ (\A w \in rows : validateWitness(w)) =>
              \A w \in WireRows(rows) : validateWitness(w)
<1>1. \A w \in rows : /\ WitnessToWire(w) \in WitnessState
                      /\ WitnessKey(WitnessToWire(w)) = WitnessKey(w)
                      /\ validateWitness(WitnessToWire(w)) = validateWitness(w)
                      /\ WitnessToWire(WitnessToWire(w)) = WitnessToWire(w)
  BY WireWitness
<1>2. WireRows(rows) \in SUBSET WitnessState
  BY <1>1 DEF WireRows
<1>3. WireRows(WireRows(rows)) = WireRows(rows)
  BY <1>1, Zenon DEF WireRows
<1>4. ASSUME UniqueKeys(rows) PROVE UniqueKeys(WireRows(rows))
  BY <1>1, <1>4 DEF WireRows, UniqueKeys
<1>5. ASSUME \A w \in rows : validateWitness(w)
      PROVE  \A w \in WireRows(rows) : validateWitness(w)
  BY <1>1, <1>5, Zenon DEF WireRows
<1> QED BY <1>2, <1>3, <1>4, <1>5, Zenon

(* A stored state, field by field.                                         *)
LEMMA WireFields ==
  ASSUME NEW s \in State
  PROVE  /\ StateToWire(s) \in State
         /\ StateToWire(s).size = s.size /\ StateToWire(s).nodes = s.nodes
         /\ StateToWire(s).indexedSeq = s.indexedSeq
         /\ StateToWire(s).firstPendingAt = WireTime(s.firstPendingAt)
         /\ StateToWire(s).checkpoint = s.checkpoint
         /\ StateToWire(s).witnesses = WireRows(s.witnesses)
<1> DEFINE n == WireTime(s.firstPendingAt)
           rows == WireRows(s.witnesses)
<1>1. n \in Time \cup {NoTime}
  BY WireTimes DEF State
<1>2. rows \in SUBSET WitnessState
  BY WireRowsValid DEF State
<1>3. StateToWire(s) = [s EXCEPT !.firstPendingAt = n, !.witnesses = rows]
  BY DEF StateToWire, WireRows
<1> HIDE DEF n, rows
<1>4. /\ StateToWire(s) \in State
      /\ StateToWire(s).size = s.size /\ StateToWire(s).nodes = s.nodes
      /\ StateToWire(s).indexedSeq = s.indexedSeq
      /\ StateToWire(s).firstPendingAt = n
      /\ StateToWire(s).checkpoint = s.checkpoint
      /\ StateToWire(s).witnesses = rows
  BY <1>1, <1>2, <1>3 DEF State
<1> QED BY <1>4 DEF n, rows

(* Two states that agree in every field are the same.                      *)
LEMMA SameState ==
  ASSUME NEW s \in State, NEW t \in State, s.size = t.size, s.nodes = t.nodes,
         s.indexedSeq = t.indexedSeq, s.firstPendingAt = t.firstPendingAt,
         s.checkpoint = t.checkpoint, s.witnesses = t.witnesses
  PROVE  s = t
  BY DEF State

(* A state that is stored twice is stored once.                            *)
LEMMA WireOnce ==
  ASSUME NEW s \in State
  PROVE  StateToWire(StateToWire(s)) = StateToWire(s)
<1> DEFINE t == StateToWire(s)
           u == StateToWire(t)
<1>1. /\ t \in State /\ t.size = s.size /\ t.nodes = s.nodes
      /\ t.indexedSeq = s.indexedSeq /\ t.checkpoint = s.checkpoint
      /\ t.firstPendingAt = WireTime(s.firstPendingAt)
      /\ t.witnesses = WireRows(s.witnesses)
  BY WireFields
<1> HIDE DEF t
<1>2. /\ u \in State /\ u.size = t.size /\ u.nodes = t.nodes
      /\ u.indexedSeq = t.indexedSeq /\ u.checkpoint = t.checkpoint
      /\ u.firstPendingAt = WireTime(t.firstPendingAt)
      /\ u.witnesses = WireRows(t.witnesses)
  BY <1>1, WireFields
<1> HIDE DEF u
<1>3. s.firstPendingAt \in Time \cup {NoTime} /\ s.witnesses \in SUBSET WitnessState
  BY DEF State
<1>4. u.firstPendingAt = t.firstPendingAt
  BY <1>1, <1>2, <1>3, WireTimes
<1>5. u.witnesses = t.witnesses
  BY <1>1, <1>2, <1>3, WireRowsValid
<1>6. u = t
  BY <1>1, <1>2, <1>4, <1>5, SameState
<1> QED BY <1>6 DEF u, t

(* A valid state is valid as stored.                                       *)
LEMMA WireValid ==
  ASSUME NEW s \in State, validateState(s)
  PROVE  validateState(StateToWire(s))
<1> DEFINE t == StateToWire(s)
<1>1. /\ t \in State /\ t.size = s.size /\ t.nodes = s.nodes
      /\ t.indexedSeq = s.indexedSeq /\ t.checkpoint = s.checkpoint
      /\ t.witnesses = WireRows(s.witnesses)
  BY WireFields
<1> HIDE DEF t
<1>2. /\ UniqueKeys(s.witnesses) /\ \A w \in s.witnesses : validateWitness(w)
      /\ s.witnesses \in SUBSET WitnessState
  BY DEF validateState, validateStateMetadata, State
<1>3. UniqueKeys(t.witnesses) /\ \A w \in t.witnesses : validateWitness(w)
  BY <1>1, <1>2, WireRowsValid
<1>4. ValidCheckpoint(t)
  BY <1>1 DEF validateState, validateStateMetadata, ValidCheckpoint
<1>5. validateState(t)
  BY <1>1, <1>3, <1>4 DEF validateState, validateStateMetadata
<1> QED BY <1>5 DEF t

(* Storing does not change which rows are added.                           *)
LEMMA WireAdded ==
  ASSUME NEW s \in State, NEW next \in State
  PROVE  AddedWitnesses(StateToWire(s), StateToWire(next))
           = WireRows(AddedWitnesses(s, next))
<1> DEFINE S == StateToWire(s)
           N == StateToWire(next)
<1>1. /\ S.witnesses = WireRows(s.witnesses)
      /\ N.witnesses = WireRows(next.witnesses)
  BY WireFields
<1>2. \A w \in s.witnesses \cup next.witnesses :
        WitnessKey(WitnessToWire(w)) = WitnessKey(w)
  BY WireWitness DEF State
<1> HIDE DEF S, N
<1>3. AddedWitnesses(S, N) = WireRows(AddedWitnesses(s, next))
  <2>1. ASSUME NEW x \in AddedWitnesses(S, N)
        PROVE  x \in WireRows(AddedWitnesses(s, next))
    <3>1. PICK w \in next.witnesses : x = WitnessToWire(w)
      BY <1>1, <2>1 DEF AddedWitnesses, WireRows
    <3>2. ASSUME NEW v \in s.witnesses PROVE WitnessKey(v) # WitnessKey(w)
      <4>1. WitnessToWire(v) \in S.witnesses
        BY <1>1 DEF WireRows
      <4> QED BY <1>2, <2>1, <3>1, <4>1 DEF AddedWitnesses
    <3> QED BY <3>1, <3>2 DEF AddedWitnesses, WireRows
  <2>2. ASSUME NEW x \in WireRows(AddedWitnesses(s, next))
        PROVE  x \in AddedWitnesses(S, N)
    <3>1. PICK w \in next.witnesses :
            /\ x = WitnessToWire(w)
            /\ \A v \in s.witnesses : WitnessKey(v) # WitnessKey(w)
      BY <2>2 DEF AddedWitnesses, WireRows
    <3>2. x \in N.witnesses
      BY <1>1, <3>1 DEF WireRows
    <3>3. ASSUME NEW v \in S.witnesses PROVE WitnessKey(v) # WitnessKey(x)
      <4>1. PICK y \in s.witnesses : v = WitnessToWire(y)
        BY <1>1 DEF WireRows
      <4> QED BY <1>2, <3>1, <4>1
    <3> QED BY <3>2, <3>3 DEF AddedWitnesses
  <2> QED BY <2>1, <2>2
<1> QED BY <1>3 DEF S, N

(* A commit of what is stored is accepted where the commit was, and gives  *)
(* what is stored of its result.                                           *)
LEMMA WireCommit ==
  ASSUME NEW s \in State, NEW next \in State, NEW size, NEW bytes,
         CLLOutcome(s, size, bytes, next) = "ok"
  PROVE  /\ CLLOutcome(StateToWire(s), size, bytes, StateToWire(next)) = "ok"
         /\ ApplyCLL(StateToWire(s), StateToWire(next))
              = StateToWire(ApplyCLL(s, next))
<1> DEFINE S == StateToWire(s)
           N == StateToWire(next)
           a == ApplyCLL(s, next)
           A == ApplyCLL(S, N)
           W == StateToWire(a)
<1>1. /\ ExpectedMatches(s, size, bytes)
      /\ validateState(next) /\ AppendOnly(s, next)
      /\ ~(next.indexedSeq < s.indexedSeq)
      /\ CheckpointAdvances(s, next) /\ WitnessesKept(s, next)
  BY CLLAccepted
<1>2. /\ S \in State /\ S.size = s.size /\ S.nodes = s.nodes
      /\ S.indexedSeq = s.indexedSeq /\ S.checkpoint = s.checkpoint
      /\ S.witnesses = WireRows(s.witnesses)
  BY WireFields
<1>3. /\ N \in State /\ N.size = next.size /\ N.nodes = next.nodes
      /\ N.indexedSeq = next.indexedSeq /\ N.checkpoint = next.checkpoint
      /\ N.firstPendingAt = WireTime(next.firstPendingAt)
      /\ N.witnesses = WireRows(next.witnesses)
  BY WireFields
<1>4. validateState(N)
  BY <1>1, WireValid
<1>5. AddedWitnesses(S, N) = WireRows(AddedWitnesses(s, next))
  BY WireAdded
<1> HIDE DEF S, N
<1>6. WitnessesKept(S, N)
  <2>1. \A w \in s.witnesses \cup next.witnesses :
          /\ WitnessKey(WitnessToWire(w)) = WitnessKey(w)
          /\ WitnessToWire(w).checkpoint = w.checkpoint
    BY WireWitness DEF State
  <2> QED BY <1>1, <1>2, <1>3, <2>1 DEF WitnessesKept, WireRows
<1>7. ExpectedMatches(S, size, bytes) /\ AppendOnly(S, N) /\ CheckpointAdvances(S, N)
  BY <1>1, <1>2, <1>3
  DEF ExpectedMatches, sameOptional, AppendOnly, CheckpointAdvances
<1>8. validateCLLTransition(S, N) = "ok"
  BY <1>1, <1>2, <1>3, <1>6, <1>7 DEF validateCLLTransition
<1>9. CLLOutcome(S, size, bytes, N) = "ok"
  BY <1>4, <1>7, <1>8 DEF CLLOutcome
<1>10. /\ a \in State /\ a.size = next.size /\ a.nodes = next.nodes
       /\ a.indexedSeq = next.indexedSeq /\ a.checkpoint = next.checkpoint
       /\ a.firstPendingAt = next.firstPendingAt
       /\ a.witnesses = s.witnesses \cup AddedWitnesses(s, next)
  BY ApplyCLLFields
<1>11. /\ A \in State /\ A.size = N.size /\ A.nodes = N.nodes
       /\ A.indexedSeq = N.indexedSeq /\ A.checkpoint = N.checkpoint
       /\ A.firstPendingAt = N.firstPendingAt
       /\ A.witnesses = S.witnesses \cup AddedWitnesses(S, N)
  BY <1>2, <1>3, ApplyCLLFields
<1> HIDE DEF a, A
<1>12. /\ W \in State /\ W.size = a.size /\ W.nodes = a.nodes
       /\ W.indexedSeq = a.indexedSeq /\ W.checkpoint = a.checkpoint
       /\ W.firstPendingAt = WireTime(a.firstPendingAt)
       /\ W.witnesses = WireRows(a.witnesses)
  BY <1>10, WireFields
<1> HIDE DEF W
<1>13. A.witnesses = W.witnesses
  BY <1>2, <1>5, <1>10, <1>11, <1>12 DEF WireRows
<1>14. A = W
  BY <1>3, <1>10, <1>11, <1>12, <1>13, SameState
<1> QED BY <1>9, <1>14 DEF A, W, S, N, a

(* The same of a witness commit.                                           *)
LEMMA WireWitnessCommit ==
  ASSUME NEW s \in State, validateState(s), NEW attempts,
         NEW next \in WitnessState, WitnessOutcome(s, attempts, next) = "ok"
  PROVE  /\ WitnessOutcome(StateToWire(s), attempts, WitnessToWire(next)) = "ok"
         /\ ApplyWitness(StateToWire(s), attempts, WitnessToWire(next))
              = StateToWire(ApplyWitness(s, attempts, next))
<1> DEFINE S == StateToWire(s)
           n == WitnessToWire(next)
           a == ApplyWitness(s, attempts, next)
           A == ApplyWitness(S, attempts, n)
           W == StateToWire(a)
<1>1. /\ S \in State /\ S.size = s.size /\ S.nodes = s.nodes
      /\ S.indexedSeq = s.indexedSeq /\ S.checkpoint = s.checkpoint
      /\ S.firstPendingAt = WireTime(s.firstPendingAt)
      /\ S.witnesses = WireRows(s.witnesses)
  BY WireFields
<1>2. validateState(S)
  BY WireValid
<1>3. /\ n \in WitnessState /\ WitnessKey(n) = WitnessKey(next)
      /\ n.checkpoint = next.checkpoint
      /\ validateWitness(n) = validateWitness(next)
  BY WireWitness
<1>4. \A w \in s.witnesses : /\ WitnessKey(WitnessToWire(w)) = WitnessKey(w)
                             /\ WitnessToWire(w).checkpoint = w.checkpoint
                             /\ WitnessToWire(w).attempts = w.attempts
  BY WireWitness DEF State
<1> HIDE DEF S, n
<1>5. Replaced(S, attempts, n) = WireRows(Replaced(s, attempts, next))
  BY <1>1, <1>3, <1>4 DEF Replaced, WireRows
<1>6. S.witnesses \ Replaced(S, attempts, n)
        = WireRows(s.witnesses \ Replaced(s, attempts, next))
  BY <1>1, <1>3, <1>4 DEF Replaced, WireRows
<1>7. validateWitness(next) /\ Replaced(s, attempts, next) # {}
  BY DEF WitnessOutcome
<1>8. WitnessOutcome(S, attempts, n) = "ok"
  BY <1>3, <1>5, <1>7 DEF WitnessOutcome, WireRows
<1>9. /\ a \in State /\ a.size = s.size /\ a.nodes = s.nodes
      /\ a.indexedSeq = s.indexedSeq /\ a.checkpoint = s.checkpoint
      /\ a.firstPendingAt = s.firstPendingAt
      /\ a.witnesses = (s.witnesses \ Replaced(s, attempts, next)) \cup {next}
  BY ApplyWitnessFacts
<1>10. /\ A \in State /\ A.size = S.size /\ A.nodes = S.nodes
       /\ A.indexedSeq = S.indexedSeq /\ A.checkpoint = S.checkpoint
       /\ A.firstPendingAt = S.firstPendingAt
       /\ A.witnesses = (S.witnesses \ Replaced(S, attempts, n)) \cup {n}
  BY <1>1, <1>2, <1>3, <1>8, ApplyWitnessFacts
<1> HIDE DEF a, A
<1>11. /\ W \in State /\ W.size = a.size /\ W.nodes = a.nodes
       /\ W.indexedSeq = a.indexedSeq /\ W.checkpoint = a.checkpoint
       /\ W.firstPendingAt = WireTime(a.firstPendingAt)
       /\ W.witnesses = WireRows(a.witnesses)
  BY <1>9, WireFields
<1> HIDE DEF W
<1>12. A.witnesses = W.witnesses
  BY <1>6, <1>9, <1>10, <1>11 DEF WireRows, n
<1>13. A = W
  BY <1>1, <1>9, <1>10, <1>11, <1>12, SameState
<1> QED BY <1>8, <1>13 DEF A, W, S, n, a

(* The stored delta is the delta of the stored states.                     *)
LEMMA WireDelta ==
  ASSUME NEW s \in State, NEW after \in State,
         prefixEqual(s.nodes, after.nodes)
  PROVE  StateToWire(DeltaSince(s, after))
           = DeltaSince(StateToWire(s), StateToWire(after))
<1> DEFINE S == StateToWire(s)
           A == StateToWire(after)
           d == DeltaSince(s, after)
           D == DeltaSince(S, A)
           W == StateToWire(d)
<1>1. /\ S \in State /\ S.nodes = s.nodes
      /\ A \in State /\ A.size = after.size /\ A.nodes = after.nodes
      /\ A.indexedSeq = after.indexedSeq /\ A.checkpoint = after.checkpoint
      /\ A.firstPendingAt = WireTime(after.firstPendingAt)
  BY WireFields
<1>2. AddedWitnesses(S, A) = WireRows(AddedWitnesses(s, after))
  BY WireAdded
<1> HIDE DEF S, A
<1>3. /\ d \in State /\ d.size = after.size /\ d.indexedSeq = after.indexedSeq
      /\ d.nodes = SubSeq(after.nodes, Len(s.nodes) + 1, Len(after.nodes))
      /\ d.firstPendingAt = after.firstPendingAt
      /\ d.checkpoint = after.checkpoint
      /\ d.witnesses = AddedWitnesses(s, after)
  BY DeltaFields
<1>4. /\ D \in State /\ D.size = A.size /\ D.indexedSeq = A.indexedSeq
      /\ D.nodes = SubSeq(A.nodes, Len(S.nodes) + 1, Len(A.nodes))
      /\ D.firstPendingAt = A.firstPendingAt
      /\ D.checkpoint = A.checkpoint
      /\ D.witnesses = AddedWitnesses(S, A)
  BY <1>1, DeltaFields
<1> HIDE DEF d, D
<1>5. /\ W \in State /\ W.size = d.size /\ W.nodes = d.nodes
      /\ W.indexedSeq = d.indexedSeq /\ W.checkpoint = d.checkpoint
      /\ W.firstPendingAt = WireTime(d.firstPendingAt)
      /\ W.witnesses = WireRows(d.witnesses)
  BY <1>3, WireFields
<1> HIDE DEF W
<1>6. /\ W.size = D.size /\ W.nodes = D.nodes /\ W.indexedSeq = D.indexedSeq
      /\ W.firstPendingAt = D.firstPendingAt /\ W.checkpoint = D.checkpoint
      /\ W.witnesses = D.witnesses
  BY <1>1, <1>2, <1>3, <1>4, <1>5, Zenon
<1>7. W = D
  BY <1>4, <1>5, <1>6, SameState
<1> QED BY <1>7 DEF W, D, d, S, A

(* What is journalled of an accepted commit replays to what is stored of   *)
(* its result.                                                             *)
LEMMA JournalledCommit ==
  ASSUME NEW s \in State, NEW next \in State, NEW size, NEW bytes,
         validateState(s), CLLOutcome(s, size, bytes, next) = "ok"
  PROVE  LET after == ApplyCLL(s, next)
             delta == StateToWire(DeltaSince(s, after))
         IN  /\ DeltaOutcome(StateToWire(s), size, bytes, delta) = "ok"
             /\ ApplyDelta(StateToWire(s), delta) = StateToWire(after)
<1> DEFINE S == StateToWire(s)
           N == StateToWire(next)
           after == ApplyCLL(s, next)
           delta == StateToWire(DeltaSince(s, after))
<1>1. /\ ExpectedMatches(s, size, bytes) /\ AppendOnly(s, next)
  BY CLLAccepted
<1>2. /\ CLLOutcome(S, size, bytes, N) = "ok"
      /\ ApplyCLL(S, N) = StateToWire(after)
  BY WireCommit
<1>3. /\ S \in State /\ N \in State /\ S.size = s.size
      /\ S.checkpoint = s.checkpoint
  BY WireFields
<1>4. validateState(S)
  BY WireValid
<1>5. S.size = size /\ S.checkpoint.bytes = bytes
  BY <1>1, <1>3 DEF ExpectedMatches, sameOptional
<1>6. after \in State /\ after.nodes = next.nodes
  BY ApplyCLLFields
<1> HIDE DEF S, N
<1>7. delta = DeltaSince(S, StateToWire(after))
  <2>1. prefixEqual(s.nodes, after.nodes)
    BY <1>1, <1>6 DEF AppendOnly
  <2> HIDE DEF after
  <2> QED BY <1>6, <2>1, WireDelta DEF S
<1> HIDE DEF after, delta
<1>8. LET b == ApplyCLL(S, N)
          d == DeltaSince(S, b)
      IN  /\ DeltaOutcome(S, S.size, S.checkpoint.bytes, d) = "ok"
          /\ ApplyDelta(S, d) = b
  <2>1. CLLOutcome(S, S.size, S.checkpoint.bytes, N) = "ok"
    BY <1>2, <1>5
  <2> QED BY <1>3, <1>4, <2>1, DeltaAccepted, Zenon
<1>9. /\ DeltaOutcome(S, size, bytes, delta) = "ok"
      /\ ApplyDelta(S, delta) = StateToWire(after)
  BY <1>2, <1>5, <1>7, <1>8
<1> QED BY <1>9 DEF S, delta, after
=============================================================================

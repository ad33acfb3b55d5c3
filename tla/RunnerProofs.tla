----------------------------- MODULE RunnerProofs -----------------------------
(***************************************************************************)
(* Safety of competing checkpoint runners, for any log, any number of      *)
(* runners and witnesses, any scan limit and any cadence.                  *)
(***************************************************************************)
EXTENDS CheckpointRunner, TLAPS

-----------------------------------------------------------------------------
(* Facts about the operators.                                              *)

(* Truncating to the millisecond twice is truncating once.                 *)
LEMMA NormalizeIdempotent ==
  ASSUME NEW t \in Time
  PROVE  /\ NormalizeTime(t) \in Time
         /\ NormalizeTime(NormalizeTime(t)) = NormalizeTime(t)
<1>1. t \div Milli \in Nat
  BY MilliAssumption DEF Time
<1> QED
  <2> DEFINE k == t \div Milli
  <2>1. Milli * k \in Nat /\ (Milli * k) \div Milli = k
    <3> HIDE DEF k
    <3> QED BY <1>1, MilliAssumption DEF k
  <2> QED BY <2>1 DEF NormalizeTime, Time

(* The node count determines the leaf count, and the leaf count orders it. *)
LEMMA MMRSizeMonotone ==
  ASSUME NEW m \in 0..MaxSeq, NEW n \in 0..MaxSeq
  PROVE  /\ MMRSize[m] \in Nat
         /\ m < n => MMRSize[m] < MMRSize[n]
         /\ m <= n => MMRSize[m] <= MMRSize[n]
         /\ MMRSize[m] = MMRSize[n] => m = n
  BY MMRSizeAssumption, SeqAssumption

(* What indexing the log yields.                                           *)
LEMMA EntryAt ==
  ASSUME NEW log \in Seq(Entry), NEW i \in 1..Len(log)
  PROVE  /\ log[i] \in Entry /\ log[i].value \in Value
         /\ log[i].appendedAt \in Time /\ log[i].appendedAt # NoTime
<1>1. log[i] \in Entry
  OBVIOUS
<1> QED BY <1>1 DEF Entry, Time, NoTime

(* Two prefixes of the log of one length are equal.                        *)
LEMMA PrefixesAgree ==
  ASSUME NEW log \in Seq(Entry), NEW a \in Seq(Value), NEW b \in Seq(Value),
         IsLogPrefix(log, a), IsLogPrefix(log, b), Len(a) <= Len(b)
  PROVE  /\ prefixEqual(a, b)
         /\ Len(a) = Len(b) => a = b
  BY DEF IsLogPrefix, prefixEqual

(* Appending to the log keeps every sound state sound.                     *)
LEMMA SoundGrows ==
  ASSUME NEW log \in Seq(Entry), NEW e \in Entry, NEW s \in State,
         Sound(log, s)
  PROVE  Sound(Append(log, e), s)
  BY DEF Sound, MatchesLog, Indexes, Attests, IsLogPrefix, Pending, State,
         CheckpointState

(* Appending to the log keeps what a statement attests.                    *)
LEMMA AttestsGrows ==
  ASSUME NEW log \in Seq(Entry), NEW e \in Entry, NEW k \in CheckpointState,
         Attests(log, k)
  PROVE  Attests(Append(log, e), k)
  BY DEF Attests, IsLogPrefix, CheckpointState

(* The header two sound states agree on when size and checkpoint bytes do. *)
LEMMA CompareSuffices ==
  ASSUME NEW log \in Seq(Entry), NEW s \in State, NEW t \in State,
         Sound(log, s), Sound(log, t),
         ExpectedMatches(s, t.size, t.checkpoint.bytes)
  PROVE  /\ s.size = t.size /\ s.nodes = t.nodes
         /\ s.indexedSeq = t.indexedSeq
         /\ s.checkpoint = t.checkpoint
         /\ s.firstPendingAt = t.firstPendingAt
<1>1. s.size = t.size /\ s.checkpoint.bytes = t.checkpoint.bytes
  BY DEF ExpectedMatches, sameOptional
<1>2. s.indexedSeq = t.indexedSeq
  <2>1. /\ s.indexedSeq \in 0..MaxSeq /\ t.indexedSeq \in 0..MaxSeq
        /\ MMRSize[s.indexedSeq] = MMRSize[t.indexedSeq]
    BY <1>1, SeqAssumption DEF Sound, MatchesLog, Indexes, State
  <2> QED BY <2>1, MMRSizeMonotone
<1>3. s.nodes = t.nodes
  <2>1. /\ IsLogPrefix(log, s.nodes) /\ IsLogPrefix(log, t.nodes)
        /\ Len(s.nodes) = Len(t.nodes)
        /\ s.nodes \in Seq(Value) /\ t.nodes \in Seq(Value)
    BY <1>2 DEF Sound, MatchesLog, Indexes, State
  <2> QED BY <2>1, PrefixesAgree
<1>4. s.checkpoint = t.checkpoint
  <2>1. CASE s.checkpoint.bytes = NoBytes
    BY <2>1, <1>1, NoBytesAssumption DEF Sound, MatchesLog, Attests
  <2>2. CASE s.checkpoint.bytes # NoBytes
    <3>1. Attests(log, s.checkpoint) /\ Attests(log, t.checkpoint)
      BY <2>2, <1>1 DEF Sound, MatchesLog, NoCheckpoint
    <3>2. /\ s.checkpoint.size = t.checkpoint.size
          /\ s.checkpoint.peaks = t.checkpoint.peaks
          /\ s.checkpoint.indexedSeq = t.checkpoint.indexedSeq
      BY <3>1, <1>1 DEF Attests
    <3>3. s.checkpoint \in CheckpointState /\ t.checkpoint \in CheckpointState
      BY DEF State
    <3> QED BY <3>2, <3>3, <1>1 DEF CheckpointState
  <2> QED BY <2>1, <2>2
<1>5. s.firstPendingAt = t.firstPendingAt
  BY <1>2, <1>4 DEF Sound, Pending
<1> QED BY <1>1, <1>2, <1>3, <1>4, <1>5

-----------------------------------------------------------------------------
(* What a pass proposes.                                                   *)

(* The scanned batch continues the pass's tree along the log.              *)
LEMMA BatchFacts ==
  ASSUME NEW log \in Seq(Entry), NEW p \in Pass,
         Sound(log, p.state), p.tree = p.state.nodes
  PROVE  /\ Batch(log, p) \in Seq(Entry)
         /\ p.state.indexedSeq + Len(Batch(log, p)) <= Len(log)
         /\ \A i \in 1..Len(Batch(log, p)) :
              Batch(log, p)[i] = log[p.state.indexedSeq + i]
         /\ Extended(log, p) \in Seq(Value)
         /\ Len(Extended(log, p)) = p.state.indexedSeq + Len(Batch(log, p))
         /\ IsLogPrefix(log, Extended(log, p))
         /\ p.state.indexedSeq \in Nat
<1> DEFINE n == p.state.indexedSeq
           hi == IF n + ScanLimit > Len(log) THEN Len(log) ELSE n + ScanLimit
           b == Batch(log, p)
<1>1. p.state \in State /\ p.tree \in Seq(Value)
  BY DEF Pass
<1>2. /\ n \in Nat /\ n <= Len(log) /\ n = Len(p.tree)
      /\ IsLogPrefix(log, p.tree)
  BY <1>1 DEF State, Sound, MatchesLog, Indexes, IsLogPrefix
<1>3. n \in Nat /\ hi \in Nat /\ n <= hi /\ hi <= Len(log)
  BY <1>2, ConfigAssumption
<1>4. b = SubSeq(log, n + 1, hi)
  BY DEF Batch, ScanEntries
<1> DEFINE vs == [i \in 1..Len(b) |-> b[i].value]
<1>5. Extended(log, p) = p.tree \o vs
  BY DEF Extended
<1> HIDE DEF n, hi, b
<1>6. /\ b \in Seq(Entry) /\ Len(b) = hi - n /\ Len(b) \in Nat
      /\ \A i \in 1..Len(b) : b[i] = log[n + i] /\ b[i].value \in Value
  <2>1. b \in Seq(Entry) /\ Len(b) = hi - n
    BY <1>3, <1>4
  <2>2. ASSUME NEW i \in 1..Len(b) PROVE b[i] = log[n + i]
    BY <1>3, <1>4, <2>1
  <2>3. ASSUME NEW i \in 1..Len(b) PROVE b[i].value \in Value
    BY <2>1, EntryAt
  <2>4. Len(b) \in Nat
    BY <2>1
  <2> QED BY <2>1, <2>2, <2>3, <2>4, Zenon
<1> HIDE DEF n, hi, b
<1>7. vs \in Seq(Value) /\ Len(vs) = Len(b)
  BY <1>6
<1>8. /\ Extended(log, p) \in Seq(Value)
      /\ Len(Extended(log, p)) = n + Len(b)
  BY <1>1, <1>2, <1>5, <1>6, <1>7
<1>9. IsLogPrefix(log, Extended(log, p))
  <2>1. ASSUME NEW i \in 1..(n + Len(b))
        PROVE  Extended(log, p)[i] = log[i].value
    <3>1. CASE i <= n
      BY <1>1, <1>2, <1>5, <1>6, <1>7, <3>1 DEF IsLogPrefix
    <3>2. CASE i > n
      <4>1. i - n \in 1..Len(b) /\ n + (i - n) = i
        <5>1. n \in Nat /\ Len(b) \in Nat
          BY <1>2, <1>6
        <5> QED BY <5>1, <3>2
      <4>2. Extended(log, p)[i] = vs[i - n]
        BY <1>1, <1>2, <1>5, <1>6, <1>7, <3>2
      <4> QED BY <4>1, <4>2, <1>6
    <3> QED BY <3>1, <3>2, <1>2, <1>6
  <2> QED BY <2>1, <1>2, <1>3, <1>6, <1>8 DEF IsLogPrefix
<1> QED BY <1>2, <1>3, <1>6, <1>8, <1>9 DEF n, b

(* Indexing the batch gives a sound state under the same checkpoint.       *)
LEMMA IndexedSound ==
  ASSUME NEW log \in Seq(Entry), NEW p \in Pass, LogValid(log),
         Sound(log, p.state), p.tree = p.state.nodes
  PROVE  /\ Indexed(log, p) \in State
         /\ Sound(log, Indexed(log, p))
         /\ Indexed(log, p).checkpoint = p.state.checkpoint
         /\ Indexed(log, p).witnesses = p.state.witnesses
         /\ Indexed(log, p).nodes = Extended(log, p)
         /\ Indexed(log, p).indexedSeq =
              p.state.indexedSeq + Len(Batch(log, p))
<1> DEFINE s == Indexed(log, p)
           k == p.state.checkpoint
           b == Batch(log, p)
<1>1. p.state \in State /\ k \in CheckpointState
  BY DEF Pass, State
<1>2. /\ s.checkpoint = k /\ s.witnesses = p.state.witnesses
      /\ s.nodes = Extended(log, p)
      /\ s.indexedSeq = p.state.indexedSeq + Len(b)
      /\ s.size = MMRSize[Len(Extended(log, p))]
      /\ s.firstPendingAt = FirstPending(log, p)
  BY <1>1 DEF Indexed, State
<1>3. s.indexedSeq \in 0..MaxSeq /\ Indexes(log, s)
  BY <1>2, BatchFacts, SeqAssumption DEF Indexes, LogValid
<1>4. MatchesLog(log, s)
  BY <1>1, <1>2, <1>3, BatchFacts
  DEF MatchesLog, Sound, State, CheckpointState
<1>5. /\ FirstPending(log, p) \in Time \cup {NoTime}
      /\ Pending(log, s)
  <2>1. CASE p.state.firstPendingAt = NoTime /\ b # << >>
    <3>1. p.state.indexedSeq = k.indexedSeq /\ k.indexedSeq \in Nat
      <4>1. /\ k.indexedSeq \in Nat /\ p.state.indexedSeq \in Nat
            /\ k.indexedSeq <= p.state.indexedSeq
            /\ p.state.indexedSeq <= Len(log)
        BY <1>1 DEF Sound, MatchesLog, Indexes, IsLogPrefix, State,
                    CheckpointState
      <4>2. \A i \in 1..Len(log) : log[i].appendedAt # NoTime
        BY EntryAt
      <4> QED BY <4>1, <4>2, <2>1 DEF Sound, Pending
    <3> HIDE DEF b
    <3>2. Len(b) > 0 /\ b[1] = log[k.indexedSeq + 1] /\ b[1] \in Entry
      <4>1. b \in Seq(Entry) /\ Len(b) > 0
        <5>1. b \in Seq(Entry) /\ b # << >>
          BY <2>1, BatchFacts DEF b
        <5> QED BY <5>1
      <4>2. \A i \in 1..Len(b) : b[i] = log[p.state.indexedSeq + i]
        BY BatchFacts DEF b
      <4> QED BY <3>1, <4>1, <4>2
    <3>3. NormalizeTime(b[1].appendedAt) = log[k.indexedSeq + 1].appendedAt
      <4>1. k.indexedSeq + 1 \in 1..Len(log)
        <5>1. /\ p.state.indexedSeq + Len(b) <= Len(log)
              /\ b \in Seq(Entry)
          BY BatchFacts DEF b
        <5> QED BY <5>1, <3>1, <3>2
      <4> QED BY <3>2, <4>1 DEF LogValid
    <3>4. s.indexedSeq # k.indexedSeq
      BY <1>2, <3>1, <3>2, BatchFacts DEF b
    <3>5. FirstPending(log, p) = log[k.indexedSeq + 1].appendedAt
      BY <2>1, <3>3 DEF FirstPending, b
    <3> HIDE DEF s
    <3> QED BY <3>2, <3>4, <3>5, <1>2, EntryAt DEF Pending, Entry
  <2>2. CASE ~(p.state.firstPendingAt = NoTime /\ b # << >>)
    <3>1. FirstPending(log, p) = p.state.firstPendingAt
      BY <2>2 DEF FirstPending
    <3>2. s.indexedSeq = k.indexedSeq <=> p.state.indexedSeq = k.indexedSeq
      <4>1. /\ k.indexedSeq \in Nat /\ p.state.indexedSeq \in Nat
            /\ k.indexedSeq <= p.state.indexedSeq
            /\ p.state.firstPendingAt # NoTime =>
                 p.state.indexedSeq # k.indexedSeq
        BY <1>1 DEF Sound, MatchesLog, Pending, State, CheckpointState
      <4>2. /\ b \in Seq(Entry) /\ Len(b) \in Nat /\ b = << >> => Len(b) = 0
            /\ s.indexedSeq = p.state.indexedSeq + Len(b)
        BY <1>2, BatchFacts
      <4> HIDE DEF b, s, k
      <4> QED BY <2>2, <4>1, <4>2
    <3> QED BY <3>1, <3>2, <1>1, <1>2 DEF Sound, Pending, State
  <2> QED BY <2>1, <2>2
<1>6. s \in State
  <2>1. s.size \in Nat /\ s.nodes \in Seq(Value) /\ s.indexedSeq \in Nat
    BY <1>2, <1>3, BatchFacts, MMRSizeMonotone, SeqAssumption DEF Indexes
  <2> QED BY <1>1, <1>2, <1>5, <2>1, ZenonT(20) DEF Indexed, State
<1> QED BY <1>2, <1>4, <1>5, <1>6 DEF Sound

(* The rows of one fan-out.                                                *)
LEMMA FanOutFacts ==
  ASSUME NEW size \in Nat \ {0}, NEW bytes \in Bytes, NEW at \in Time
  PROVE  /\ FanOut(size, bytes, at) \subseteq WitnessState
         /\ \A w \in FanOut(size, bytes, at) :
              validateWitness(w) /\ w.size = size /\ w.checkpoint = bytes
         /\ UniqueKeys(FanOut(size, bytes, at))
         /\ \A id \in WitnessID : \E w \in FanOut(size, bytes, at) : w.id = id
<1> DEFINE Row(id) ==
      [id |-> id, size |-> size, checkpoint |-> bytes, attempts |-> 0,
       nextAttemptAt |-> at, receipt |-> NoBytes, permanent |-> FALSE]
<1>1. FanOut(size, bytes, at) = {Row(id) : id \in WitnessID}
  BY DEF FanOut
<1>2. \A id \in WitnessID : Row(id) \in WitnessState
  BY DEF WitnessState
<1>3. \A id \in WitnessID :
        /\ validateWitness(Row(id)) /\ Row(id).id = id
        /\ Row(id).size = size /\ Row(id).checkpoint = bytes
  BY NoBytesAssumption DEF validateWitness
<1> HIDE DEF Row
<1>4. UniqueKeys(FanOut(size, bytes, at))
  BY <1>1, <1>3 DEF UniqueKeys, WitnessKey
<1> QED BY <1>1, <1>2, <1>3, <1>4

(* A checkpoint over an indexed state that it does not cover yet.          *)
LEMMA WithCheckpointSound ==
  ASSUME NEW log \in Seq(Entry), NEW p \in Pass, NEW s \in State,
         Sound(log, s), RowsValid(p.state),
         s.checkpoint = p.state.checkpoint, s.witnesses = p.state.witnesses,
         s.checkpoint.indexedSeq < s.indexedSeq
  PROVE  /\ s.checkpoint.size < s.size
         /\ SignedStatement(p, s) \in Bytes
         /\ WithCheckpoint(p, s) \in State
         /\ Sound(log, WithCheckpoint(p, s))
         /\ RowsValid(WithCheckpoint(p, s))
<1> DEFINE t == WithCheckpoint(p, s)
           bytes == SignedStatement(p, s)
           rows == FanOut(s.size, bytes, p.now)
<1>1. /\ s.checkpoint \in CheckpointState /\ s.size \in Nat
      /\ s.indexedSeq \in Nat /\ s.nodes \in Seq(Value)
      /\ s.checkpoint.size \in Nat /\ s.checkpoint.indexedSeq \in Nat
      /\ s.witnesses \subseteq WitnessState
      /\ p.now \in Time /\ p.previous \in Seq(Value)
  BY ZenonT(20) DEF State, CheckpointState, Pass
<1>2. s.indexedSeq \in 1..MaxSeq /\ s.size = MMRSize[s.indexedSeq]
  BY <1>1, SeqAssumption DEF Sound, MatchesLog, Indexes
<1>3. s.checkpoint.size < s.size
  <2>1. s.checkpoint.indexedSeq \in 0..MaxSeq
    BY <1>1, <1>2, SeqAssumption
  <2>2. s.checkpoint.size = MMRSize[s.checkpoint.indexedSeq]
    BY MMRSizeAssumption DEF Sound, MatchesLog, Attests, NoCheckpoint
  <2> QED BY <1>2, <2>1, <2>2, MMRSizeMonotone
<1>4. bytes \in Bytes
  BY <1>1 DEF SignedStatement, Bytes
<1>5. /\ bytes.logSize = s.size /\ bytes.root = s.nodes
  BY DEF SignedStatement
<1>6. /\ t.checkpoint = [bytes |-> bytes, size |-> s.size,
                        indexedSeq |-> s.indexedSeq, peaks |-> s.nodes]
      /\ t.firstPendingAt = NoTime /\ t.witnesses = s.witnesses \cup rows
      /\ t.size = s.size /\ t.nodes = s.nodes /\ t.indexedSeq = s.indexedSeq
      /\ DOMAIN t = DOMAIN s
  BY DEF WithCheckpoint, NewCheckpoint, State
<1>7. /\ rows \subseteq WitnessState /\ UniqueKeys(rows)
      /\ \A w \in rows : validateWitness(w) /\ w.size = s.size
  BY <1>1, <1>3, <1>4, FanOutFacts
<1>8. t \in State
  <2>1. t.checkpoint \in CheckpointState
    BY <1>1, <1>4, <1>6 DEF CheckpointState
  <2> QED BY <1>1, <1>7, <2>1, <1>6, ZenonT(20) DEF WithCheckpoint, State
<1> HIDE DEF t, bytes, rows
<1>9. Sound(log, t)
  <2>1. IsLogPrefix(log, s.nodes) /\ s.indexedSeq = Len(s.nodes)
    BY DEF Sound, MatchesLog, Indexes
  <2>2. Attests(log, t.checkpoint)
    BY <1>2, <1>4, <1>5, <1>6, <2>1 DEF Attests
  <2>3. Indexes(log, t)
    BY <1>6 DEF Sound, MatchesLog, Indexes
  <2>4. t.checkpoint.indexedSeq = t.indexedSeq
    BY <1>6
  <2> QED BY <1>1, <1>6, <2>2, <2>3, <2>4 DEF Sound, MatchesLog, Pending
<1>10. RowsValid(t)
  <2>1. \A w \in s.witnesses : validateWitness(w) /\ w.size < s.size
    BY <1>1, <1>3 DEF RowsValid, WitnessState
  <2>2. \A w \in t.witnesses : validateWitness(w) /\ w.size <= t.checkpoint.size
    BY <1>1, <1>6, <1>7, <2>1 DEF WitnessState
  <2>3. UniqueKeys(t.witnesses)
    <3>1. UniqueKeys(s.witnesses)
      BY DEF RowsValid
    <3>2. \A v \in s.witnesses, w \in rows : v.size # w.size
      BY <1>1, <1>7, <2>1 DEF WitnessState
    <3> QED BY <1>6, <1>7, <3>1, <3>2 DEF UniqueKeys, WitnessKey
  <2> QED BY <2>2, <2>3 DEF RowsValid
<1> QED BY <1>3, <1>4, <1>8, <1>9, <1>10 DEF t, bytes

(* A pass that scans from a sound state can sign a checkpoint that is due, *)
(* and proposes a sound successor.                                         *)
LEMMA ProposalFacts ==
  ASSUME NEW log \in Seq(Entry), NEW stored, NEW p \in Pass, LogValid(log),
         p.pc = "scan", PassSound(log, stored, p)
  PROVE  /\ CheckpointDue(log, p) /\ Claimable(log, p)
              => CanSign(p, Indexed(log, p))
         /\ Proposing(log, p) \in Pass
         /\ PassSound(log, stored, Proposing(log, p))
         /\ ProposalSound(log, Proposing(log, p))
         /\ Proposing(log, p).pc = "commit"
<1> DEFINE s == Indexed(log, p)
           k == p.state.checkpoint
           q == Proposing(log, p)
<1>1. /\ Sound(log, p.state) /\ RowsValid(p.state)
      /\ RowsKnown(p.state.witnesses, stored)
      /\ p.previous = k.peaks /\ p.tree = p.state.nodes
  BY DEF PassSound
<1>2. /\ p.state \in State /\ k \in CheckpointState /\ k.indexedSeq \in Nat
      /\ k.peaks \in Seq(Value) /\ p.state.indexedSeq \in Nat
  BY DEF Pass, State, CheckpointState
<1>3. /\ s \in State /\ Sound(log, s)
      /\ s.checkpoint = k /\ s.witnesses = p.state.witnesses
      /\ s.nodes = Extended(log, p)
      /\ s.indexedSeq \in Nat /\ p.state.indexedSeq <= s.indexedSeq
  <2>1. /\ s \in State /\ Sound(log, s)
        /\ s.checkpoint = k /\ s.witnesses = p.state.witnesses
        /\ s.nodes = Extended(log, p)
        /\ s.indexedSeq = p.state.indexedSeq + Len(Batch(log, p))
    BY <1>1, IndexedSound, Zenon
  <2>2. Batch(log, p) \in Seq(Entry)
    BY <1>1, BatchFacts, Zenon
  <2>3. Len(Batch(log, p)) \in Nat
    BY <2>2
  <2>4. s.indexedSeq \in Nat /\ p.state.indexedSeq <= s.indexedSeq
    <3> HIDE DEF s
    <3> QED BY <1>2, <2>1, <2>3
  <2> QED BY <2>1, <2>4
<1> HIDE DEF s
<1>4. prefixEqual(k.peaks, s.nodes)
  <2>1. k.indexedSeq <= s.indexedSeq /\ s.indexedSeq = Len(s.nodes)
    BY <1>3 DEF Sound, MatchesLog, Indexes
  <2>2. CASE k = NoCheckpoint
    BY <2>2, <1>3 DEF NoCheckpoint, prefixEqual, State
  <2>3. CASE k # NoCheckpoint
    <3>1. IsLogPrefix(log, k.peaks) /\ k.indexedSeq = Len(k.peaks)
      BY <2>3, <1>3 DEF Sound, MatchesLog, Attests
    <3>2. IsLogPrefix(log, s.nodes) /\ s.nodes \in Seq(Value)
      BY <1>3 DEF Sound, MatchesLog, Indexes, State
    <3> QED BY <3>1, <3>2, <2>1, <1>2, PrefixesAgree
  <2> QED BY <2>2, <2>3
<1>5. CheckpointDue(log, p) => k.indexedSeq < s.indexedSeq
  <2>1. k.indexedSeq <= s.indexedSeq
    BY <1>3 DEF Sound, MatchesLog
  <2> QED BY <2>1, <1>2, <1>3 DEF CheckpointDue, Due, s
<1>6. /\ Proposed(log, p) \in State
      /\ Sound(log, Proposed(log, p)) /\ RowsValid(Proposed(log, p))
      /\ Proposed(log, p).nodes = s.nodes
      /\ Proposed(log, p).indexedSeq = s.indexedSeq
      /\ Proposed(log, p).size = s.size
      /\ IF CheckpointDue(log, p)
         THEN /\ k.size < s.size
              /\ Proposed(log, p).checkpoint = NewCheckpoint(p, s)
              /\ Proposed(log, p).witnesses = p.state.witnesses \cup
                   FanOut(s.size, SignedStatement(p, s), p.now)
         ELSE /\ Proposed(log, p).checkpoint = k
              /\ Proposed(log, p).witnesses = p.state.witnesses
  <2>1. CASE CheckpointDue(log, p)
    <3>1. Proposed(log, p) = WithCheckpoint(p, s)
      BY <2>1 DEF Proposed, s
    <3>2. /\ k.size < s.size /\ WithCheckpoint(p, s) \in State
          /\ Sound(log, WithCheckpoint(p, s)) /\ RowsValid(WithCheckpoint(p, s))
      BY <2>1, <1>1, <1>3, <1>5, WithCheckpointSound
    <3> QED BY <2>1, <3>1, <3>2, <1>3 DEF WithCheckpoint, State
  <2>2. CASE ~CheckpointDue(log, p)
    BY <2>2, <1>1, <1>3 DEF Proposed, RowsValid, s
  <2> QED BY <2>1, <2>2
<1>7. /\ q.pc = "commit" /\ q.state = p.state /\ q.previous = p.previous
      /\ q.now = p.now /\ q.next = Proposed(log, p) /\ q.tree = s.nodes
  BY <1>3 DEF Proposing, Pass
<1>8. q \in Pass
  <2>1. Proposed(log, p) \in State /\ Extended(log, p) \in Seq(Value)
    BY <1>3, <1>6 DEF State
  <2> QED BY <2>1, ZenonT(20) DEF Proposing, Pass
<1> HIDE DEF q
<1>9. PassSound(log, stored, q)
  BY <1>1, <1>7 DEF PassSound
<1>10. ProposalSound(log, q)
  <2>1. /\ SignedStatement(q, q.next) = SignedStatement(p, s)
        /\ NewCheckpoint(q, q.next) = NewCheckpoint(p, s)
    BY <1>6, <1>7 DEF SignedStatement, NewCheckpoint
  <2> QED BY <1>3, <1>6, <1>7, <2>1 DEF ProposalSound
<1>11. Claimable(log, p) => s.size <= MaxSize /\ p.now <= MaxTimestamp
  <2>1. /\ s.indexedSeq \in 0..MaxSeq /\ Len(log) \in 0..MaxSeq
        /\ s.indexedSeq <= Len(log) /\ s.size = MMRSize[s.indexedSeq]
    BY <1>3, SeqAssumption
       DEF Sound, MatchesLog, Indexes, IsLogPrefix, LogValid
  <2> QED BY <2>1, MMRSizeMonotone, ConfigAssumption DEF Claimable
<1>12. CheckpointDue(log, p) /\ Claimable(log, p) => CanSign(p, s)
  BY <1>1, <1>4, <1>6, <1>11 DEF CanSign, canonicalFields
<1> QED BY <1>7, <1>8, <1>9, <1>10, <1>12 DEF q, s

-----------------------------------------------------------------------------
(* What the store does with a proposal.                                    *)

(* A sound state passes the store's validation.                            *)
LEMMA SoundIsValid ==
  ASSUME NEW log \in Seq(Entry), NEW s \in State, Sound(log, s), RowsValid(s)
  PROVE  validateState(s)
<1>1. /\ s.indexedSeq \in 0..MaxSeq /\ s.indexedSeq = Len(s.nodes)
      /\ s.size = MMRSize[s.indexedSeq]
  BY SeqAssumption DEF Sound, MatchesLog, Indexes, State
<1>2. ValidCheckpoint(s)
  <2>1. CASE s.checkpoint = NoCheckpoint
    BY <2>1 DEF ValidCheckpoint
  <2>2. CASE s.checkpoint # NoCheckpoint
    <3>1. Attests(log, s.checkpoint) /\ s.checkpoint.indexedSeq <= s.indexedSeq
      BY <2>2 DEF Sound, MatchesLog
    <3>2. /\ s.checkpoint.indexedSeq \in 1..MaxSeq
          /\ s.checkpoint.size = MMRSize[s.checkpoint.indexedSeq]
          /\ s.checkpoint.bytes # NoBytes
      BY <3>1, NoBytesAssumption DEF Attests
    <3>3. 0 \in 0..MaxSeq /\ MMRSize[0] = 0
      BY SeqAssumption, MMRSizeAssumption
    <3>4. MMRSize[0] < s.checkpoint.size
      BY <3>2, <3>3, MMRSizeMonotone, SeqAssumption
    <3>5. s.checkpoint.size <= s.size
      BY <1>1, <3>1, <3>2, MMRSizeMonotone, SeqAssumption
    <3> QED BY <3>1, <3>2, <3>3, <3>4, <3>5 DEF ValidCheckpoint
  <2> QED BY <2>1, <2>2
<1> QED BY <1>1, <1>2 DEF validateState, validateStateMetadata, RowsValid

(* The store never calls a proposal invalid, and a success of its compare  *)
(* means that nothing but delivery state has changed since the load.       *)
LEMMA OutcomeFacts ==
  ASSUME NEW log \in Seq(Entry), NEW s \in State, NEW p \in Pass,
         p.pc = "commit", Sound(log, s), RowsValid(s),
         PassSound(log, s.witnesses, p), ProposalSound(log, p)
  PROVE  LET out == CLLOutcome(s, p.state.size, p.state.checkpoint.bytes, p.next)
         IN  /\ out # "invalid"
             /\ out = "ok" =>
                  /\ s.size = p.state.size /\ s.nodes = p.state.nodes
                  /\ s.indexedSeq = p.state.indexedSeq
                  /\ s.checkpoint = p.state.checkpoint
<1> DEFINE match == ExpectedMatches(s, p.state.size, p.state.checkpoint.bytes)
           out == CLLOutcome(s, p.state.size, p.state.checkpoint.bytes, p.next)
<1>1. /\ p.state \in State /\ p.next \in State
      /\ Sound(log, p.state) /\ Sound(log, p.next) /\ RowsValid(p.next)
      /\ p.state.indexedSeq <= p.next.indexedSeq
  BY DEF Pass, PassSound, ProposalSound
<1>2. CASE ~match
  <2>1. out = "contention"
    BY <1>2 DEF CLLOutcome
  <2> QED BY <2>1
<1>3. CASE match
  <2>1. /\ s.size = p.state.size /\ s.nodes = p.state.nodes
        /\ s.indexedSeq = p.state.indexedSeq
        /\ s.checkpoint = p.state.checkpoint
    BY <1>1, <1>3, CompareSuffices
  <2>2. validateState(p.next)
    BY <1>1, SoundIsValid
  <2>3. AppendOnly(s, p.next)
    <3>1. \A t \in State :
            Sound(log, t) =>
              /\ t.indexedSeq \in 0..MaxSeq /\ t.size = MMRSize[t.indexedSeq]
              /\ Len(t.nodes) = t.indexedSeq
              /\ IsLogPrefix(log, t.nodes) /\ t.nodes \in Seq(Value)
      BY SeqAssumption DEF Sound, MatchesLog, Indexes, State
    <3>2. /\ s.indexedSeq \in 0..MaxSeq /\ p.next.indexedSeq \in 0..MaxSeq
          /\ s.size = MMRSize[s.indexedSeq]
          /\ p.next.size = MMRSize[p.next.indexedSeq]
          /\ Len(s.nodes) = s.indexedSeq
          /\ Len(p.next.nodes) = p.next.indexedSeq
      BY <1>1, <3>1, Zenon
    <3>3. /\ IsLogPrefix(log, s.nodes) /\ IsLogPrefix(log, p.next.nodes)
          /\ s.nodes \in Seq(Value) /\ p.next.nodes \in Seq(Value)
      BY <1>1, <3>1, Zenon
    <3>4. s.indexedSeq <= p.next.indexedSeq
      BY <1>1, <2>1
    <3>5. s.size <= p.next.size
      BY <3>2, <3>4, MMRSizeMonotone
    <3>6. Len(s.nodes) <= Len(p.next.nodes)
      BY <3>2, <3>4, Zenon
    <3>7. prefixEqual(s.nodes, p.next.nodes)
      BY <3>3, <3>6, PrefixesAgree
    <3>8. s.size \in Nat /\ p.next.size \in Nat
      BY <1>1 DEF State
    <3> QED BY <3>2, <3>4, <3>5, <3>7, <3>8 DEF AppendOnly
  <2>4. out = validateCLLTransition(s, p.next)
    BY <1>3, <2>2, <2>3 DEF CLLOutcome
  <2>5. out # "invalid"
    <3>1. ~(p.next.indexedSeq < s.indexedSeq)
      BY <1>1, <2>1 DEF State
    <3> QED BY <2>4, <3>1 DEF validateCLLTransition
  <2> QED BY <2>1, <2>5
<1> QED BY <1>2, <1>3

(* Knowing the rows of a state is transitive.                              *)
LEMMA RowsKnownTransitive ==
  ASSUME NEW A, NEW B, NEW C, RowsKnown(A, B), RowsKnown(B, C)
  PROVE  RowsKnown(A, C)
  BY DEF RowsKnown

(* The state an accepted proposal becomes: sound, with the stored rows as  *)
(* they are and the fan-out of the new checkpoint, if there is one.        *)
LEMMA InstallFacts ==
  ASSUME NEW log \in Seq(Entry), NEW s \in State, NEW p \in Pass,
         p.pc = "commit", Sound(log, s), RowsValid(s),
         PassSound(log, s.witnesses, p), ProposalSound(log, p),
         s.checkpoint = p.state.checkpoint
  PROVE  LET t == ApplyCLL(s, p.next)
             rows == FanOut(p.next.size, SignedStatement(p, p.next), p.now)
         IN  /\ t \in State /\ Sound(log, t) /\ RowsValid(t)
             /\ t.checkpoint = p.next.checkpoint
             /\ RowsKnown(s.witnesses, t.witnesses)
             /\ RowsKnown(p.next.witnesses, t.witnesses)
             /\ \/ /\ t.checkpoint = s.checkpoint
                   /\ t.witnesses = s.witnesses
                \/ /\ s.checkpoint.size < p.next.size
                   /\ t.checkpoint = NewCheckpoint(p, p.next)
                   /\ t.witnesses = s.witnesses \cup rows
<1> DEFINE t == ApplyCLL(s, p.next)
           rows == FanOut(p.next.size, SignedStatement(p, p.next), p.now)
           added == AddedWitnesses(s, p.next)
<1>1. /\ p.next \in State /\ p.state \in State
      /\ Sound(log, p.next) /\ RowsValid(p.next)
      /\ RowsKnown(p.state.witnesses, s.witnesses)
  BY DEF Pass, PassSound, ProposalSound
<1>2. /\ s.witnesses \subseteq WitnessState /\ added \subseteq WitnessState
      /\ s.checkpoint.size \in Nat /\ p.next.size \in Nat
  BY <1>1, ZenonT(20) DEF State, AddedWitnesses, CheckpointState
<1>3. /\ t \in State /\ t.witnesses = s.witnesses \cup added
      /\ t.size = p.next.size /\ t.nodes = p.next.nodes
      /\ t.indexedSeq = p.next.indexedSeq
      /\ t.firstPendingAt = p.next.firstPendingAt
      /\ t.checkpoint = p.next.checkpoint
  BY <1>1, <1>2, ZenonT(20) DEF ApplyCLL, State
<1>4. Sound(log, t)
  BY <1>1, <1>3 DEF Sound, MatchesLog, Indexes, Pending
<1> HIDE DEF t
<1>5. RowsKnown(s.witnesses, t.witnesses)
  BY <1>3 DEF RowsKnown
<1>6. CASE /\ p.next.checkpoint = p.state.checkpoint
           /\ p.next.witnesses = p.state.witnesses
  <2>1. added = {}
    BY <1>1, <1>6 DEF AddedWitnesses, RowsKnown
  <2>2. t.witnesses = s.witnesses /\ t.checkpoint = s.checkpoint
    BY <1>3, <1>6, <2>1
  <2>3. RowsValid(t) /\ RowsKnown(p.next.witnesses, t.witnesses)
    BY <1>1, <1>6, <2>2 DEF RowsValid
  <2> QED BY <1>3, <1>4, <1>5, <2>2, <2>3 DEF t
<1>7. CASE /\ p.state.checkpoint.size < p.next.size
           /\ p.next.checkpoint = NewCheckpoint(p, p.next)
           /\ p.next.witnesses = p.state.witnesses \cup rows
  <2>1. /\ SignedStatement(p, p.next) \in Bytes /\ p.now \in Time
        /\ p.next.checkpoint.size = p.next.size
    <3>1. /\ p.next.size \in Nat /\ p.next.nodes \in Seq(Value)
          /\ p.state.checkpoint \in CheckpointState
      BY <1>1 DEF State
    <3>2. p.state.checkpoint.size \in Nat
      BY <3>1 DEF CheckpointState
    <3>3. p.previous \in Seq(Value) /\ p.now \in Time
      BY DEF Pass
    <3>4. SignedStatement(p, p.next) \in Bytes
      BY <3>1, <3>2, <3>3 DEF SignedStatement, Bytes
    <3>5. p.next.checkpoint.size = p.next.size
      BY <1>7 DEF NewCheckpoint
    <3> QED BY <3>3, <3>4, <3>5
  <2>2. /\ \A w \in rows : validateWitness(w) /\ w.size = p.next.size
        /\ UniqueKeys(rows)
    <3>1. s.checkpoint.size < p.next.size
      BY <1>7
    <3>2. p.next.size \in Nat \ {0}
      BY <1>2, <3>1
    <3> QED BY <2>1, <3>2, FanOutFacts
  <2> HIDE DEF rows
  <2>3. \A v \in s.witnesses : validateWitness(v) /\ v.size < p.next.size
    BY <1>2, <1>7 DEF RowsValid, WitnessState
  <2>4. \A v \in s.witnesses, w \in rows : WitnessKey(v) # WitnessKey(w)
    BY <1>2, <2>2, <2>3 DEF WitnessKey, WitnessState
  <2>5. added = rows
    <3>1. \A w \in p.state.witnesses : w \notin added
      BY <1>1 DEF AddedWitnesses, RowsKnown
    <3>2. \A w \in rows : w \in added
      BY <1>7, <2>4 DEF AddedWitnesses
    <3>3. added \subseteq p.next.witnesses
      BY DEF AddedWitnesses
    <3> QED BY <1>7, <3>1, <3>2, <3>3, ZenonT(20)
  <2>6. t.witnesses = s.witnesses \cup rows
    BY <1>3, <2>5
  <2>7. RowsValid(t)
    <3>1. \A w \in t.witnesses :
            validateWitness(w) /\ w.size <= t.checkpoint.size
      <4>1. t.checkpoint.size = p.next.size
        BY <1>3, <2>1
      <4>2. \A w \in s.witnesses : w.size <= p.next.size
        BY <1>2, <2>3 DEF WitnessState
      <4>3. \A w \in rows : w.size <= p.next.size
        BY <1>2, <2>2
      <4> QED BY <2>2, <2>3, <2>6, <4>1, <4>2, <4>3, Zenon
    <3>2. UniqueKeys(t.witnesses)
      BY <2>2, <2>4, <2>6 DEF RowsValid, UniqueKeys
    <3> QED BY <3>1, <3>2 DEF RowsValid
  <2>8. RowsKnown(p.next.witnesses, t.witnesses)
    BY <1>1, <1>7, <2>6 DEF RowsKnown
  <2> QED BY <1>3, <1>4, <1>5, <1>7, <2>6, <2>7, <2>8 DEF t, rows
<1> QED BY <1>6, <1>7 DEF ProposalSound

-----------------------------------------------------------------------------
(* The invariant holds initially.                                          *)

(* The state of a new engine is a state,                                   *)
LEMMA NewInState == New \in State
<1>1. NoCheckpoint \in CheckpointState
  BY DEF NoCheckpoint, CheckpointState
<1> QED BY <1>1 DEF New, State

(* and it is sound for every log.                                          *)
LEMMA NewIsSound ==
  ASSUME NEW log \in Seq(Entry)
  PROVE  Sound(log, New) /\ RowsValid(New)
<1>3. Sound(log, New)
  BY SeqAssumption, MMRSizeAssumption
  DEF New, Sound, MatchesLog, Indexes, IsLogPrefix, Pending, NoCheckpoint
<1>4. RowsValid(New)
  BY DEF New, RowsValid, UniqueKeys
<1> QED BY <1>3, <1>4

(* An idle runner holds nothing but the new state.                         *)
LEMMA IdleFacts ==
  /\ Idle \in Pass /\ Idle.pc = "idle"
  BY NewInState DEF Idle, Pass, Time

(* The invariant holds in a new store with idle runners.                   *)
LEMMA InitInv == Init => Inv
<1> SUFFICES ASSUME Init PROVE Inv
  OBVIOUS
<1>1. TypeOK
  BY NewInState, IdleFacts DEF Init, TypeOK, Time
<1>2. LogValid(entries)
  BY SeqAssumption DEF Init, LogValid
<1>3. Sound(entries, state) /\ RowsValid(state)
  BY NewIsSound, <1>1, ZenonT(20) DEF Init, TypeOK
<1>4. \A r \in Runner : pass[r].pc = "idle"
  BY IdleFacts DEF Init
<1>5. /\ \A r \in Runner : /\ PassSound(entries, state.witnesses, pass[r])
                          /\ ProposalSound(entries, pass[r])
      /\ RunnersNeverFail
  BY <1>4 DEF PassSound, ProposalSound, RunnersNeverFail
<1>6. CommittedAttest /\ CheckpointChain /\ FanOutExact
  BY DEF Init, CommittedAttest, CheckpointChain, FanOutExact, New
<1> QED BY <1>1, <1>2, <1>3, <1>5, <1>6 DEF Inv

-----------------------------------------------------------------------------
(* Every step preserves it.                                                *)

(* A step of runner r to the local state q that leaves the store alone.    *)
LEMMA PassStep ==
  ASSUME Inv, UNCHANGED storeVars, NEW r \in Runner, NEW q \in Pass,
         pass' = [pass EXCEPT ![r] = q],
         clock' \in Time, aborts' \in Nat, notify' \in [Runner -> BOOLEAN],
         PassSound(entries, state.witnesses, q), ProposalSound(entries, q),
         Claimable(entries, q) => q.pc # "failed"
  PROVE  Inv'
<1>1. TypeOK'
  BY ZenonT(20) DEF Inv, TypeOK, storeVars
<1>2. \A i \in Runner : pass'[i] = IF i = r THEN q ELSE pass[i]
  BY DEF Inv, TypeOK
<1>3. \A i \in Runner : /\ PassSound(entries, state.witnesses, pass'[i])
                        /\ ProposalSound(entries, pass'[i])
                        /\ Claimable(entries, pass'[i])
                             => pass'[i].pc # "failed"
  BY <1>2 DEF Inv, RunnersNeverFail
<1>4. entries' = entries /\ state' = state /\ committed' = committed
  BY DEF storeVars
<1> QED BY <1>1, <1>3, <1>4
        DEF Inv, RunnersNeverFail, CommittedAttest, CheckpointChain, FanOutExact

(* A step that leaves the store and the passes alone.                      *)
LEMMA QuietStep ==
  ASSUME Inv, UNCHANGED <<storeVars, pass>>,
         clock' \in Time, aborts' \in Nat, notify' \in [Runner -> BOOLEAN]
  PROVE  Inv'
  BY DEF Inv, TypeOK, storeVars, RunnersNeverFail, CommittedAttest,
         CheckpointChain, FanOutExact

(* Append, at any moment of any pass, keeps the invariant.                 *)
LEMMA AppendEntryInv ==
  ASSUME Inv, NEW v \in Value, NEW t \in AppendTime, AppendEntry(v, t)
  PROVE  Inv'
<1> DEFINE e == NewEntry(v, t)
<1>1. /\ entries \in Seq(Entry) /\ Len(entries) + 1 <= MaxSeq
      /\ entries' = Append(entries, e)
      /\ UNCHANGED <<state, committed, pass, clock, aborts, notify>>
  BY DEF AppendEntry, Inv, TypeOK
<1>2. /\ e \in Entry /\ NormalizeTime(e.appendedAt) = e.appendedAt
  BY NormalizeIdempotent, BoundAssumption DEF NewEntry, Entry
<1> HIDE DEF e
<1>3. TypeOK'
  BY <1>1, <1>2 DEF Inv, TypeOK
<1>4. LogValid(entries')
  <2>1. LogValid(entries)
    BY DEF Inv
  <2>2. /\ Len(entries') = Len(entries) + 1
        /\ \A i \in 1..Len(entries') :
             entries'[i] = IF i <= Len(entries) THEN entries[i] ELSE e
    BY <1>1, <1>2
  <2>3. \A i \in 1..Len(entries') : i <= Len(entries) => i \in 1..Len(entries)
    BY <1>1, <2>2
  <2> QED BY <1>1, <1>2, <2>1, <2>2, <2>3 DEF LogValid
<1>5. \A s \in State : Sound(entries, s) => Sound(entries', s)
  BY <1>1, <1>2, SoundGrows
<1>6. Sound(entries', state') /\ RowsValid(state')
  BY <1>1, <1>5 DEF Inv, TypeOK
<1>7. ASSUME NEW r \in Runner
      PROVE  /\ PassSound(entries', state'.witnesses, pass'[r])
             /\ ProposalSound(entries', pass'[r])
  <2>1. pass[r].state \in State /\ pass[r].next \in State
    BY DEF Inv, TypeOK, Pass
  <2>2. /\ PassSound(entries, state.witnesses, pass[r])
        /\ ProposalSound(entries, pass[r])
    BY DEF Inv
  <2>3. /\ Sound(entries, pass[r].state) => Sound(entries', pass[r].state)
        /\ Sound(entries, pass[r].next) => Sound(entries', pass[r].next)
    BY <1>5, <2>1
  <2>4. pass'[r] = pass[r] /\ state' = state
    BY <1>1
  <2>5. PassSound(entries', state'.witnesses, pass'[r])
    BY <2>2, <2>3, <2>4 DEF PassSound
  <2>6. ProposalSound(entries', pass'[r])
    BY <2>2, <2>3, <2>4 DEF ProposalSound
  <2> QED BY <2>5, <2>6
<1>8. CommittedAttest'
  BY <1>1, <1>2, AttestsGrows DEF Inv, TypeOK, CommittedAttest
<1>9. \A p : Claimable(entries', p) => Claimable(entries, p)
  <2>1. /\ Len(entries) \in 0..MaxSeq /\ Len(entries') \in 0..MaxSeq
        /\ Len(entries) <= Len(entries')
    BY <1>1, <1>2, SeqAssumption
  <2> QED BY <2>1, MMRSizeMonotone, ConfigAssumption DEF Claimable
<1>10. RunnersNeverFail'
  BY <1>1, <1>9 DEF Inv, RunnersNeverFail
<1>11. CheckpointChain' /\ FanOutExact'
  <2>1. CheckpointChain /\ FanOutExact
    BY DEF Inv
  <2>2. state' = state /\ committed' = committed
    BY <1>1
  <2> QED BY <2>1, <2>2 DEF CheckpointChain, FanOutExact
<1> QED BY <1>3, <1>4, <1>6, <1>7, <1>8, <1>10, <1>11 DEF Inv

(* Recording a delivery outcome keeps the invariant.                       *)
LEMMA DeliverInv ==
  ASSUME Inv, NEW w \in state.witnesses, NEW receipt \in Bytes \cup {NoBytes},
         Deliver(w, receipt)
  PROVE  Inv'
<1> DEFINE u == [w EXCEPT !.attempts = @ + 1, !.receipt = receipt]
           rows == state.witnesses
<1>1. /\ state \in State /\ rows \subseteq WitnessState /\ w \in WitnessState
      /\ RowsValid(state) /\ Sound(entries, state)
  BY DEF Inv, TypeOK, State
<1>2. /\ u \in WitnessState /\ u.id = w.id /\ u.size = w.size
      /\ u.checkpoint = w.checkpoint
  <2> DEFINE n == w.attempts + 1
  <2>1. w.attempts \in Nat /\ n \in Nat
    BY <1>1 DEF WitnessState
  <2>2. u = [w EXCEPT !.attempts = n, !.receipt = receipt]
    OBVIOUS
  <2> HIDE DEF n, u
  <2>3. u \in WitnessState
    BY <1>1, <2>1, <2>2, ZenonT(20) DEF WitnessState
  <2> QED BY <1>1, <2>2, <2>3 DEF WitnessState
<1>3. Replaced(state, w.attempts, u) = {w}
  BY <1>1, <1>2 DEF Replaced, WitnessKey, RowsValid, UniqueKeys
<1>4. /\ state' = [state EXCEPT !.witnesses = (@ \ {w}) \cup {u}]
      /\ UNCHANGED <<entries, committed, pass, clock, aborts, notify>>
  BY <1>3 DEF Deliver, ApplyWitness
<1> HIDE DEF u
<1>5. /\ state'.witnesses = (rows \ {w}) \cup {u}
      /\ state'.size = state.size /\ state'.nodes = state.nodes
      /\ state'.indexedSeq = state.indexedSeq
      /\ state'.checkpoint = state.checkpoint
      /\ state'.firstPendingAt = state.firstPendingAt
  BY <1>1, <1>4 DEF State
<1>6. state' \in State
  BY <1>1, <1>2, <1>4 DEF State
<1>7. TypeOK'
  BY <1>4, <1>6 DEF Inv, TypeOK
<1>8. Sound(entries', state')
  BY <1>1, <1>4, <1>5 DEF Sound, MatchesLog, Indexes, Pending
<1>9. RowsValid(state')
  BY <1>1, <1>2, <1>5 DEF RowsValid, UniqueKeys, WitnessKey, validateWitness
<1>10. RowsKnown(rows, state'.witnesses)
  BY <1>1, <1>2, <1>5 DEF RowsKnown, WitnessKey
<1>11. ASSUME NEW r \in Runner
       PROVE  /\ PassSound(entries', state'.witnesses, pass'[r])
              /\ ProposalSound(entries', pass'[r])
  <2>1. /\ PassSound(entries, rows, pass[r])
        /\ ProposalSound(entries, pass[r])
    BY DEF Inv
  <2> QED BY <2>1, <1>4, <1>10, RowsKnownTransitive DEF PassSound
<1>12. FanOutExact'
  <2>1. FanOutExact
    BY DEF Inv
  <2>2. ASSUME NEW k \in committed, NEW id \in WitnessID
        PROVE  \E v \in state'.witnesses :
                 v.id = id /\ v.size = k.size /\ v.checkpoint = k.bytes
    <3>1. PICK v \in rows :
            v.id = id /\ v.size = k.size /\ v.checkpoint = k.bytes
      BY <2>1 DEF FanOutExact
    <3> QED BY <3>1, <1>2, <1>5
  <2>3. ASSUME NEW v \in state'.witnesses
        PROVE  \E k \in committed : v.size = k.size /\ v.checkpoint = k.bytes
    BY <2>1, <1>2, <1>5 DEF FanOutExact
  <2> QED BY <2>2, <2>3, <1>4 DEF FanOutExact
<1>13. CommittedAttest' /\ CheckpointChain'
  BY <1>4, <1>5 DEF Inv, CommittedAttest, CheckpointChain
<1>14. LogValid(entries') /\ RunnersNeverFail'
  BY <1>4 DEF Inv, RunnersNeverFail
<1> QED BY <1>7, <1>8, <1>9, <1>11, <1>12, <1>13, <1>14 DEF Inv

(* The commit facts of runner r's proposal, collected.                     *)
LEMMA Installed ==
  ASSUME Inv, NEW r \in Runner, Install(r)
  PROVE  LET p == pass[r]
             rows == FanOut(p.next.size, SignedStatement(p, p.next), p.now)
         IN  /\ p \in Pass /\ p.pc = "commit"
             /\ state' = ApplyCLL(state, p.next)
             /\ entries' = entries
             /\ state.checkpoint = p.state.checkpoint
             /\ state' \in State /\ Sound(entries, state') /\ RowsValid(state')
             /\ state'.checkpoint = p.next.checkpoint
             /\ RowsKnown(state.witnesses, state'.witnesses)
             /\ RowsKnown(p.next.witnesses, state'.witnesses)
             /\ \/ /\ state'.checkpoint = state.checkpoint
                   /\ state'.witnesses = state.witnesses
                \/ /\ state.checkpoint.size < p.next.size
                   /\ state'.checkpoint = NewCheckpoint(p, p.next)
                   /\ state'.witnesses = state.witnesses \cup rows
<1>1. /\ pass[r] \in Pass /\ pass[r].pc = "commit" /\ Outcome(r) = "ok"
      /\ state' = ApplyCLL(state, pass[r].next) /\ entries' = entries
  BY DEF Install, Inv, TypeOK
<1>2. /\ entries \in Seq(Entry) /\ state \in State
      /\ Sound(entries, state) /\ RowsValid(state)
      /\ PassSound(entries, state.witnesses, pass[r])
      /\ ProposalSound(entries, pass[r])
  BY DEF Inv, TypeOK
<1>3. state.checkpoint = pass[r].state.checkpoint
  BY <1>1, <1>2, OutcomeFacts DEF Outcome
<1> QED BY <1>1, <1>2, <1>3, InstallFacts, ZenonT(20)

(* The chain grows by the installed checkpoint, linked to its head.        *)
LEMMA InstallHistory ==
  ASSUME Inv, NEW r \in Runner, Install(r)
  PROVE  /\ committed' \subseteq CheckpointState
         /\ CommittedAttest' /\ CheckpointChain' /\ FanOutExact'
<1> DEFINE p == pass[r]
           k == state.checkpoint
           h == state'.checkpoint
           bytes == SignedStatement(p, p.next)
           rows == FanOut(p.next.size, bytes, p.now)
<1>1. /\ p \in Pass /\ entries' = entries
      /\ k = p.state.checkpoint /\ h = p.next.checkpoint
      /\ state' \in State /\ Sound(entries, state')
      /\ committed' = (committed \cup {h}) \ {NoCheckpoint}
      /\ \/ h = k /\ state'.witnesses = state.witnesses
         \/ /\ k.size < p.next.size
            /\ h = NewCheckpoint(p, p.next)
            /\ state'.witnesses = state.witnesses \cup rows
  BY Installed, ZenonT(20) DEF Install
<1>2. /\ committed \subseteq CheckpointState /\ state \in State
      /\ CommittedAttest /\ CheckpointChain /\ FanOutExact
      /\ Sound(entries, state)
  BY DEF Inv, TypeOK
<1>3. NoCheckpoint \notin committed
  BY <1>2, NoBytesAssumption DEF CommittedAttest, Attests, NoCheckpoint
<1>4. CASE h = k /\ state'.witnesses = state.witnesses
  <2>1. committed' = committed
    BY <1>1, <1>2, <1>3, <1>4 DEF CheckpointChain
  <2>2. CommittedAttest'
    BY <1>1, <1>2, <2>1 DEF CommittedAttest
  <2>3. CheckpointChain'
    BY <1>2, <1>4, <2>1 DEF CheckpointChain
  <2>4. FanOutExact'
    BY <1>2, <1>4, <2>1 DEF FanOutExact
  <2> QED BY <1>2, <2>1, <2>2, <2>3, <2>4
<1>5. CASE /\ k.size < p.next.size
           /\ h = NewCheckpoint(p, p.next)
           /\ state'.witnesses = state.witnesses \cup rows
  <2>1. /\ h.size = p.next.size /\ h.bytes = bytes /\ h.peaks = p.next.nodes
        /\ bytes.prevSize = k.size /\ bytes.prevRoot = p.previous
        /\ k \in CheckpointState /\ k.size \in Nat /\ p.now \in Time
        /\ h \in CheckpointState /\ h.size \in Nat
    <3>1. /\ k \in CheckpointState /\ h \in CheckpointState /\ p.now \in Time
      BY <1>1, <1>2 DEF State, Pass
    <3>2. k.size \in Nat /\ h.size \in Nat
      BY <3>1 DEF CheckpointState
    <3>3. h.size = p.next.size /\ h.bytes = bytes /\ h.peaks = p.next.nodes
      <4>1. LET c == NewCheckpoint(p, p.next) IN
            c.size = p.next.size /\ c.bytes = bytes /\ c.peaks = p.next.nodes
        <5> HIDE DEF p, bytes
        <5> QED BY DEF NewCheckpoint, bytes
      <4> HIDE DEF h, p, bytes
      <4> QED BY <1>5, <4>1
    <3>4. bytes.prevSize = k.size /\ bytes.prevRoot = p.previous
      BY <1>1, ZenonT(20) DEF SignedStatement
    <3> QED BY <3>1, <3>2, <3>3, <3>4
  <2>2. p.previous = k.peaks
    BY <1>1, Installed, ZenonT(20) DEF Inv, PassSound
  <2>3. h # NoCheckpoint
    <3>1. NoCheckpoint.size = 0
      BY DEF NoCheckpoint
    <3>2. h.size > 0
      <4> HIDE DEF h, k, p
      <4> QED BY <1>5, <2>1, SMTT(20)
    <3> QED BY <3>1, <3>2
  <2>4. Attests(entries, h)
    BY <1>1, <2>3 DEF Sound, MatchesLog
  <2>5. bytes \in Bytes
    BY <2>1, <2>4 DEF Attests
  <2>6. committed' = committed \cup {h}
    BY <1>1, <1>3, <2>3
  <2> HIDE DEF p, h, bytes, rows
  <2>7. CommittedAttest'
    BY <1>1, <1>2, <2>4, <2>6 DEF CommittedAttest
  <2>8. CheckpointChain'
    <3>1. \A j \in committed :
            /\ j.size \in Nat /\ j.size < h.size /\ j.bytes.prevSize \in Nat
            /\ j.bytes.prevSize < k.size
      <4> SUFFICES ASSUME NEW j \in committed
                   PROVE  /\ j.size \in Nat /\ j.size < h.size
                          /\ j.bytes.prevSize \in Nat
                          /\ j.bytes.prevSize < k.size
        OBVIOUS
      <4>1. j.size \in Nat /\ j.size <= k.size
        BY <1>2 DEF CheckpointChain, CheckpointState
      <4>2. Attests(entries, j)
        BY <1>2 DEF CommittedAttest
      <4>3. j.bytes.prevSize \in Nat /\ 0 < j.size
        BY <4>1, <4>2, SeqAssumption, MMRSizeAssumption DEF Attests, Bytes
      <4>4. j.bytes.prevSize < j.size
        BY <1>2, <4>3 DEF CheckpointChain, CheckpointState
      <4> QED BY <4>1, <4>3, <4>4, <1>5, <2>1
    <3>2. IF k.size = 0 THEN k.peaks = << >>
          ELSE k \in committed /\ k.bytes.root = k.peaks
      <4>1. CASE k = NoCheckpoint
        BY <4>1 DEF NoCheckpoint
      <4>2. CASE k # NoCheckpoint
        <5>1. Attests(entries, k) /\ k \in committed
          BY <4>2, <1>2 DEF Sound, MatchesLog, CheckpointChain
        <5>2. k.size # 0
          BY <5>1, SeqAssumption, MMRSizeAssumption DEF Attests
        <5> QED BY <5>1, <5>2 DEF Attests
      <4> QED BY <4>1, <4>2
    <3>3. ASSUME NEW j \in committed'
          PROVE  /\ j.size <= h.size
                 /\ IF j.bytes.prevSize = 0 THEN j.bytes.prevRoot = << >>
                    ELSE \E i \in committed' : /\ i.size = j.bytes.prevSize
                                               /\ i.size < j.size
                                               /\ i.bytes.root = j.bytes.prevRoot
      <4>1. CASE j = h
        BY <4>1, <1>5, <2>1, <2>2, <2>6, <3>2
      <4>2. CASE j \in committed
        <5>1. j.size <= h.size
          BY <4>2, <2>1, <3>1
        <5>2. IF j.bytes.prevSize = 0 THEN j.bytes.prevRoot = << >>
              ELSE \E i \in committed : /\ i.size = j.bytes.prevSize
                                        /\ i.size < j.size
                                        /\ i.bytes.root = j.bytes.prevRoot
          BY <4>2, <1>2 DEF CheckpointChain
        <5> QED BY <5>1, <5>2, <2>6
      <4> QED BY <4>1, <4>2, <2>6
    <3>4. ASSUME NEW i \in committed', NEW j \in committed',
                 i.size = j.size \/ i.bytes.prevSize = j.bytes.prevSize
          PROVE  i = j
      <4>1. CASE i \in committed /\ j \in committed
        BY <4>1, <3>4, <1>2 DEF CheckpointChain
      <4>2. CASE i = h \/ j = h
        BY <4>2, <3>1, <3>4, <2>1, <2>6
      <4> QED BY <4>1, <4>2, <2>6
    <3> QED BY <3>3, <3>4, <2>6 DEF CheckpointChain, h
  <2>9. FanOutExact'
    <3>1. /\ \A w \in rows : w.size = h.size /\ w.checkpoint = h.bytes
          /\ \A id \in WitnessID : \E w \in rows : w.id = id
      <4>1. h.size \in Nat \ {0}
        BY <1>5, <2>1
      <4>2. rows = FanOut(h.size, h.bytes, p.now)
        BY <2>1 DEF rows, bytes
      <4>3. h.bytes \in Bytes /\ p.now \in Time
        BY <2>1, <2>5
      <4> QED BY <4>1, <4>2, <4>3, FanOutFacts
    <3> QED BY <3>1, <1>2, <1>5, <2>6 DEF FanOutExact
  <2> QED BY <1>2, <2>1, <2>6, <2>7, <2>8, <2>9
<1> QED BY <1>1, <1>4, <1>5

(* An installed commit, whatever becomes of the runner that made it.       *)
LEMMA InstallInv ==
  ASSUME Inv, NEW r \in Runner, Install(r), NEW q \in Pass,
         pass' = [pass EXCEPT ![r] = q], aborts' \in Nat,
         q = Idle \/ q = AfterCommit(pass[r])
  PROVE  Inv'
<1> DEFINE p == pass[r]
<1>1. /\ p \in Pass /\ p.pc = "commit" /\ entries' = entries
      /\ state.checkpoint = p.state.checkpoint
      /\ state' \in State /\ Sound(entries, state') /\ RowsValid(state')
      /\ RowsKnown(state.witnesses, state'.witnesses)
      /\ RowsKnown(p.next.witnesses, state'.witnesses)
      /\ clock' = clock /\ notify' = notify
  BY Installed, ZenonT(20) DEF Install
<1>2. TypeOK'
  BY <1>1, InstallHistory DEF Inv, TypeOK
<1>3. /\ PassSound(entries, state.witnesses, p)
      /\ ProposalSound(entries, p)
  BY DEF Inv
<1>4. /\ PassSound(entries, state'.witnesses, q)
      /\ ProposalSound(entries, q) /\ q.pc # "failed"
  <2>1. CASE q.pc = "idle"
    BY <2>1 DEF PassSound, ProposalSound
  <2>2. CASE q = AfterCommit(p) /\ p.mode # "once"
    <3>1. /\ q.pc = "scan" /\ q.state = p.next /\ q.tree = p.tree
          /\ q.previous = IF p.next.checkpoint = p.state.checkpoint
                          THEN p.previous ELSE p.next.nodes
      BY <1>1, <2>2 DEF AfterCommit, Pass
    <3>2. /\ Sound(entries, p.next) /\ RowsValid(p.next)
          /\ p.tree = p.next.nodes
          /\ \/ p.next.checkpoint = p.state.checkpoint
             \/ p.next.checkpoint = NewCheckpoint(p, p.next)
      BY <1>1, <1>3, ZenonT(20) DEF ProposalSound
    <3>3. p.previous = p.state.checkpoint.peaks
      BY <1>1, <1>3 DEF PassSound
    <3>4. q.previous = q.state.checkpoint.peaks
      <4>1. NewCheckpoint(p, p.next).peaks = p.next.nodes
        BY DEF NewCheckpoint
      <4> HIDE DEF p
      <4> QED BY <3>1, <3>2, <3>3, <4>1
    <3> QED BY <1>1, <3>1, <3>2, <3>4, ZenonT(20) DEF PassSound, ProposalSound
  <2> QED BY <2>1, <2>2, IdleFacts DEF AfterCommit
<1>5. ASSUME NEW i \in Runner
      PROVE  /\ PassSound(entries', state'.witnesses, pass'[i])
             /\ ProposalSound(entries', pass'[i])
             /\ Claimable(entries', pass'[i]) => pass'[i].pc # "failed"
  <2>1. CASE i = r
    BY <2>1, <1>1, <1>4, ZenonT(20) DEF Inv, TypeOK
  <2>2. CASE i # r
    <3>1. /\ PassSound(entries, state.witnesses, pass[i])
          /\ ProposalSound(entries, pass[i])
          /\ Claimable(entries, pass[i]) => pass[i].pc # "failed"
          /\ pass'[i] = pass[i]
      BY <2>2 DEF Inv, TypeOK, RunnersNeverFail
    <3> QED BY <3>1, <1>1, RowsKnownTransitive DEF PassSound
  <2> QED BY <2>1, <2>2
<1> QED BY <1>1, <1>2, <1>5, InstallHistory DEF Inv, RunnersNeverFail

(* The checks of loadRunnerState pass on a sound state.                    *)
LEMMA SoundRestores ==
  ASSUME NEW log \in Seq(Entry), NEW s \in State, Sound(log, s)
  PROVE  Restorable(s)
<1>1. /\ Len(s.nodes) = s.indexedSeq /\ s.indexedSeq \in 0..MaxSeq
      /\ s.size = MMRSize[s.indexedSeq] /\ s.nodes \in Seq(Value)
      /\ IsLogPrefix(log, s.nodes)
  BY SeqAssumption DEF Sound, MatchesLog, Indexes, State
<1>2. ASSUME s.checkpoint # NoCheckpoint
      PROVE  verifyCheckpoint(s)
  <2>1. Attests(log, s.checkpoint) /\ s.checkpoint.indexedSeq <= s.indexedSeq
    BY <1>2 DEF Sound, MatchesLog
  <2>2. /\ s.checkpoint.indexedSeq \in 0..MaxSeq
        /\ s.checkpoint.peaks \in Seq(Value)
        /\ Len(s.checkpoint.peaks) = s.checkpoint.indexedSeq
        /\ s.checkpoint.size = MMRSize[s.checkpoint.indexedSeq]
    BY <2>1, SeqAssumption DEF Attests, State, CheckpointState
  <2>3. s.checkpoint.size <= s.size
    BY <1>1, <2>1, <2>2, MMRSizeMonotone
  <2>4. prefixEqual(s.checkpoint.peaks, s.nodes)
    BY <1>1, <2>1, <2>2, PrefixesAgree DEF Attests
  <2> QED BY <2>1, <2>2, <2>3, <2>4 DEF verifyCheckpoint, Attests
<1> QED BY <1>1, <1>2 DEF Restorable, verifyCheckpoint

(* Starting catchUp or RunOnce keeps the invariant.                        *)
LEMMA StartPassInv ==
  ASSUME Inv, NEW r \in Runner, NEW m \in {"catchUp", "once"},
         StartPass(r, m), notify' \in [Runner -> BOOLEAN]
  PROVE  Inv'
<1> DEFINE q == [pass[r] EXCEPT !.pc = "load", !.mode = m,
                                !.now = NormalizeTime(clock)]
<1>1. pass[r] \in Pass /\ clock \in Time /\ aborts \in Nat
  BY DEF Inv, TypeOK
<1>2. pass' = [pass EXCEPT ![r] = q]
  BY ZenonT(20) DEF StartPass
<1>3. NormalizeTime(clock) \in Time
  BY <1>1, NormalizeIdempotent
<1>4. q \in Pass /\ q.pc = "load"
  BY <1>1, <1>3, ZenonT(20) DEF Pass
<1> HIDE DEF q
<1>5. PassSound(entries, state.witnesses, q) /\ ProposalSound(entries, q)
  BY <1>4 DEF PassSound, ProposalSound
<1> QED BY <1>1, <1>2, <1>4, <1>5, PassStep, ZenonT(20) DEF StartPass

(* loadRunnerState keeps the invariant, and does not fail.                 *)
LEMMA LoadInv ==
  ASSUME Inv, NEW r \in Runner, Load(r)
  PROVE  Inv'
<1> DEFINE previous == IF state.checkpoint = NoCheckpoint THEN << >>
                       ELSE state.checkpoint.bytes.root
           q == [pass[r] EXCEPT !.pc = "scan", !.state = state,
                   !.tree = state.nodes, !.previous = previous]
<1>1. /\ pass[r] \in Pass /\ state \in State /\ entries \in Seq(Entry)
      /\ state.nodes \in Seq(Value) /\ state.checkpoint.peaks \in Seq(Value)
      /\ Sound(entries, state) /\ RowsValid(state)
      /\ clock \in Time /\ aborts \in Nat /\ notify \in [Runner -> BOOLEAN]
  BY ZenonT(20) DEF Inv, TypeOK, State, CheckpointState
<1>2. Restorable(state)
  BY <1>1, SoundRestores
<1>3. pass' = [pass EXCEPT ![r] = q]
  BY <1>2, ZenonT(20) DEF Load
<1>4. previous = state.checkpoint.peaks
  <2>1. CASE state.checkpoint = NoCheckpoint
    <3>1. NoCheckpoint.peaks = << >>
      BY DEF NoCheckpoint
    <3> QED BY <2>1, <3>1
  <2>2. CASE state.checkpoint # NoCheckpoint
    <3>1. Attests(entries, state.checkpoint)
      BY <1>1, <2>2 DEF Sound, MatchesLog
    <3> QED BY <2>2, <3>1 DEF Attests
  <2> QED BY <2>1, <2>2
<1> HIDE DEF previous
<1>5. /\ q \in Pass /\ q.pc = "scan" /\ q.state = state
      /\ q.tree = state.nodes /\ q.previous = state.checkpoint.peaks
  BY <1>1, <1>4, ZenonT(20) DEF Pass
<1> HIDE DEF q
<1>6. RowsKnown(state.witnesses, state.witnesses)
  BY DEF RowsKnown
<1>7. PassSound(entries, state.witnesses, q) /\ ProposalSound(entries, q)
  BY <1>1, <1>5, <1>6, ZenonT(20) DEF PassSound, ProposalSound
<1> QED BY <1>1, <1>3, <1>5, <1>7, PassStep, ZenonT(20) DEF Load

(* Scanning, indexing and signing keep the invariant.                      *)
LEMMA ScanInv ==
  ASSUME Inv, NEW r \in Runner, Scan(r)
  PROVE  Inv'
<1> DEFINE p == pass[r]
<1>1. /\ p \in Pass /\ p.pc = "scan" /\ entries \in Seq(Entry)
      /\ LogValid(entries) /\ PassSound(entries, state.witnesses, p)
      /\ clock \in Time /\ aborts \in Nat /\ notify \in [Runner -> BOOLEAN]
  BY DEF Inv, TypeOK, Scan
<1>2. CheckpointDue(entries, p) /\ Claimable(entries, p)
        => CanSign(p, Indexed(entries, p))
  BY <1>1, ProposalFacts
<1>3. \/ pass' = [pass EXCEPT ![r] = Idle]
      \/ pass' = [pass EXCEPT ![r] = Proposing(entries, p)]
      \/ /\ ~Claimable(entries, p)
         /\ pass' = [pass EXCEPT ![r] = [p EXCEPT !.pc = "failed"]]
  BY <1>2, ZenonT(20) DEF Scan
<1>4. CASE pass' = [pass EXCEPT ![r] = Idle]
  <2>1. PassSound(entries, state.witnesses, Idle) /\ ProposalSound(entries, Idle)
    BY IdleFacts DEF PassSound, ProposalSound
  <2> QED BY <1>1, <1>4, <2>1, IdleFacts, PassStep, ZenonT(20) DEF Scan
<1>5. CASE pass' = [pass EXCEPT ![r] = Proposing(entries, p)]
  <2> DEFINE q == Proposing(entries, p)
  <2>1. /\ q \in Pass /\ q.pc = "commit"
        /\ PassSound(entries, state.witnesses, q) /\ ProposalSound(entries, q)
    BY <1>1, ProposalFacts
  <2> HIDE DEF q
  <2> QED BY <1>1, <1>5, <2>1, PassStep, ZenonT(20) DEF Scan, q
<1>6. CASE /\ ~Claimable(entries, p)
           /\ pass' = [pass EXCEPT ![r] = [p EXCEPT !.pc = "failed"]]
  <2> DEFINE q == [p EXCEPT !.pc = "failed"]
  <2>1. q \in Pass /\ q.pc = "failed" /\ q.now = p.now
    BY <1>1, ZenonT(20) DEF Pass
  <2>2. ~Claimable(entries, q)
    BY <1>6, <2>1 DEF Claimable
  <2> HIDE DEF q
  <2>3. PassSound(entries, state.witnesses, q) /\ ProposalSound(entries, q)
    BY <2>1 DEF PassSound, ProposalSound
  <2> QED BY <1>1, <1>6, <2>1, <2>2, <2>3, PassStep, ZenonT(20) DEF Scan, q
<1> QED BY <1>3, <1>4, <1>5, <1>6

(* A commit the store refuses keeps the invariant.                         *)
LEMMA RefusedInv ==
  ASSUME Inv, NEW r \in Runner, Refused(r)
  PROVE  Inv'
<1> DEFINE p == pass[r]
           q == [p EXCEPT !.pc = "load", !.reloaded = TRUE]
<1>1. /\ p \in Pass /\ p.pc = "commit" /\ entries \in Seq(Entry)
      /\ state \in State /\ Sound(entries, state) /\ RowsValid(state)
      /\ PassSound(entries, state.witnesses, p) /\ ProposalSound(entries, p)
      /\ clock \in Time /\ aborts \in Nat /\ notify \in [Runner -> BOOLEAN]
  BY DEF Inv, TypeOK, Refused
<1>2. Outcome(r) # "invalid"
  BY <1>1, OutcomeFacts DEF Outcome
<1>3. \/ pass' = [pass EXCEPT ![r] = Idle]
      \/ pass' = [pass EXCEPT ![r] = q]
  BY <1>2, ZenonT(20) DEF Refused
<1>4. q \in Pass /\ q.pc = "load"
  BY <1>1, ZenonT(20) DEF Pass
<1> HIDE DEF q
<1>5. /\ PassSound(entries, state.witnesses, Idle) /\ ProposalSound(entries, Idle)
      /\ PassSound(entries, state.witnesses, q) /\ ProposalSound(entries, q)
  BY <1>4, IdleFacts DEF PassSound, ProposalSound
<1>6. UNCHANGED <<storeVars, clock, aborts, notify>>
  BY DEF Refused
<1>7. CASE pass' = [pass EXCEPT ![r] = Idle]
  BY <1>1, <1>5, <1>6, <1>7, IdleFacts, PassStep, ZenonT(20)
<1>8. CASE pass' = [pass EXCEPT ![r] = q]
  BY <1>1, <1>4, <1>5, <1>6, <1>8, PassStep, ZenonT(20)
<1> QED BY <1>3, <1>7, <1>8

(* Cancelling or killing a runner keeps the invariant.                     *)
LEMMA AbortInv ==
  ASSUME Inv, NEW r \in Runner, Abort(r)
  PROVE  Inv'
<1>1. PassSound(entries, state.witnesses, Idle) /\ ProposalSound(entries, Idle)
  BY IdleFacts DEF PassSound, ProposalSound
<1>2. /\ clock \in Time /\ notify \in [Runner -> BOOLEAN] /\ aborts' \in Nat
  BY DEF Inv, TypeOK, Abort, Die
<1> QED BY <1>1, <1>2, IdleFacts, PassStep, ZenonT(20) DEF Abort, Die

(* A commit the store accepts keeps the invariant.                         *)
LEMMA CommitInv ==
  ASSUME Inv, NEW r \in Runner, Commit(r) \/ CommitUnacknowledged(r)
  PROVE  Inv'
<1>1. pass[r] \in Pass /\ aborts \in Nat
  BY DEF Inv, TypeOK
<1>2. CASE Commit(r)
  <2>1. AfterCommit(pass[r]) \in Pass
    BY <1>1, IdleFacts, ZenonT(20) DEF AfterCommit, Pass, State
  <2> QED BY <1>1, <1>2, <2>1, InstallInv, ZenonT(20) DEF Commit
<1>3. CASE CommitUnacknowledged(r)
  <2>1. Install(r) /\ pass' = [pass EXCEPT ![r] = Idle] /\ aborts' = aborts + 1
    BY <1>3 DEF CommitUnacknowledged, Die
  <2>2. aborts' \in Nat
    BY <1>1, <2>1
  <2> QED BY <2>1, <2>2, IdleFacts, InstallInv, ZenonT(20)
<1> QED BY <1>2, <1>3

(* Every step keeps the invariant.                                         *)
LEMMA StepInv == Inv /\ [Next]_vars => Inv'
<1> SUFFICES ASSUME Inv, [Next]_vars PROVE Inv'
  OBVIOUS
<1>0. /\ clock \in Time /\ aborts \in Nat /\ notify \in [Runner -> BOOLEAN]
      /\ state.witnesses \subseteq WitnessState
  BY DEF Inv, TypeOK, State
<1>1. ASSUME NEW v \in Value, NEW t \in AppendTime, AppendEntry(v, t) PROVE Inv'
  BY <1>1, AppendEntryInv
<1>2. CASE Tick
  BY <1>0, <1>2, QuietStep DEF Tick, Time
<1>3. ASSUME NEW w \in state.witnesses, NEW ok \in BOOLEAN,
             Deliver(w, IF ok THEN w.checkpoint ELSE NoBytes)
      PROVE  Inv'
  <2>1. (IF ok THEN w.checkpoint ELSE NoBytes) \in Bytes \cup {NoBytes}
    BY <1>0 DEF WitnessState
  <2> QED BY <1>3, <2>1, DeliverInv
<1>4. ASSUME NEW r \in Runner, Notify(r) PROVE Inv'
  BY <1>0, <1>4, QuietStep DEF Notify
<1>5. ASSUME NEW r \in Runner, WakeNotified(r) PROVE Inv'
  BY <1>0, <1>5, StartPassInv DEF WakeNotified
<1>6. ASSUME NEW r \in Runner, WakeTicker(r) \/ RunOnce(r) PROVE Inv'
  BY <1>0, <1>6, StartPassInv DEF WakeTicker, RunOnce
<1>7. ASSUME NEW r \in Runner, Load(r) \/ Scan(r) \/ Refused(r) \/ Abort(r)
      PROVE  Inv'
  BY <1>7, LoadInv, ScanInv, RefusedInv, AbortInv
<1>8. ASSUME NEW r \in Runner, Commit(r) \/ CommitUnacknowledged(r) PROVE Inv'
  BY <1>8, CommitInv
<1>9. CASE UNCHANGED vars
  BY <1>0, <1>9, QuietStep DEF vars
<1> QED BY <1>1, <1>2, <1>3, <1>4, <1>5, <1>6, <1>7, <1>8, <1>9,
          ZenonT(20) DEF Next

-----------------------------------------------------------------------------
(* The theorems.                                                           *)

(* The inductive invariant of runners, store and history holds always.     *)
THEOREM Invariance == Spec => []Inv
  BY InitInv, StepInv, PTL DEF Spec

(* Every variable of the store and the runners keeps its type.             *)
THEOREM TypeCorrect == Spec => []TypeOK
<1>1. Inv => TypeOK
  BY DEF Inv
<1> QED BY <1>1, Invariance, PTL

(* The durable MMR and checkpoint commit to prefixes of the log, whatever  *)
(* the interleaving of load, scan and commit among runners that crash.     *)
THEOREM LogIsCommitted == Spec => []DurableStateMatchesLog
<1>1. Inv => DurableStateMatchesLog
  BY DEF Inv, Sound, DurableStateMatchesLog
<1> QED BY <1>1, Invariance, PTL

(* FirstPendingAt is the time of the oldest uncheckpointed indexed entry.  *)
THEOREM PendingTimeIsExact == Spec => []FirstPendingExact
<1>1. Inv => FirstPendingExact
  BY DEF Inv, Sound, FirstPendingExact
<1> QED BY <1>1, Invariance, PTL

(* The checkpoints CommitCLL ever installed form one chain.                *)
THEOREM CheckpointsFormChain == Spec => []CheckpointChain
<1>1. Inv => CheckpointChain
  BY DEF Inv
<1> QED BY <1>1, Invariance, PTL

(* Every committed checkpoint is queued for every witness, nothing else is.*)
THEOREM FanOutIsExact == Spec => []FanOutExact
<1>1. Inv => FanOutExact
  BY DEF Inv
<1> QED BY <1>1, Invariance, PTL

(* No pass fails its own restore, signing or proposal checks while a       *)
(* statement can claim the size of the MMR over the log and the time.      *)
THEOREM NoRunnerFails == Spec => []RunnersNeverFail
<1>1. Inv => RunnersNeverFail
  BY DEF Inv
<1> QED BY <1>1, Invariance, PTL

(* CommitCLL's compare on size and checkpoint bytes detects every change.  *)
THEOREM CompareIsSufficient == Spec => []CompareDetectsChange
<1>1. Inv => CompareDetectsChange
  <2> SUFFICES ASSUME Inv, NEW r \in Runner, pass[r].pc = "commit",
                 ExpectedMatches(state, pass[r].state.size,
                                 pass[r].state.checkpoint.bytes)
               PROVE  [state EXCEPT !.witnesses = {}] =
                      [pass[r].state EXCEPT !.witnesses = {}]
    BY DEF CompareDetectsChange
  <2>1. /\ state \in State /\ pass[r].state \in State /\ entries \in Seq(Entry)
        /\ Sound(entries, state) /\ Sound(entries, pass[r].state)
    BY DEF Inv, TypeOK, Pass, PassSound
  <2>2. /\ state.size = pass[r].state.size
        /\ state.nodes = pass[r].state.nodes
        /\ state.indexedSeq = pass[r].state.indexedSeq
        /\ state.checkpoint = pass[r].state.checkpoint
        /\ state.firstPendingAt = pass[r].state.firstPendingAt
    BY <2>1, CompareSuffices
  <2> QED BY <2>1, <2>2, ZenonT(20) DEF State
<1> QED BY <1>1, Invariance, PTL

(* A delivery row, once created, is never dropped, rebound to another      *)
(* checkpoint or set back to fewer attempts, and a receipt is final.       *)
THEOREM DeliveryIsMonotone == Spec => DeliveryNeverRegresses
<1> DEFINE Kept(v, w) ==
             /\ WitnessKey(w) = WitnessKey(v)
             /\ w.checkpoint = v.checkpoint
             /\ w.attempts >= v.attempts
             /\ v.receipt # NoBytes => w = v
<1>1. ASSUME Inv, [Next]_vars
      PROVE  [\A v \in state.witnesses : \E w \in state'.witnesses :
                /\ WitnessKey(w) = WitnessKey(v)
                /\ w.checkpoint = v.checkpoint
                /\ w.attempts >= v.attempts
                /\ v.receipt # NoBytes => w = v]_vars
  <2>1. \A v \in state.witnesses : Kept(v, v) /\ v \in WitnessState
    BY <1>1 DEF Inv, TypeOK, State, WitnessState
  <2>2. CASE state.witnesses \subseteq state'.witnesses
    BY <2>1, <2>2
  <2>3. ASSUME NEW r \in Runner, Install(r)
        PROVE  state.witnesses \subseteq state'.witnesses
    BY <1>1, <2>3, Installed
  <2>4. ASSUME NEW u \in state.witnesses, NEW receipt, Deliver(u, receipt)
        PROVE  \A v \in state.witnesses : \E w \in state'.witnesses : Kept(v, w)
    <3> DEFINE x == [u EXCEPT !.attempts = @ + 1, !.receipt = receipt]
    <3>1. /\ state \in State /\ RowsValid(state) /\ u \in WitnessState
      BY <1>1, <2>1, ZenonT(20) DEF Inv, TypeOK
    <3>2. /\ WitnessKey(x) = WitnessKey(u) /\ x.checkpoint = u.checkpoint
          /\ x.attempts = u.attempts + 1 /\ u.attempts \in Nat
          /\ u.receipt = NoBytes
      BY <3>1, <2>4 DEF WitnessState, WitnessKey, Deliver
    <3>3. state' = ApplyWitness(state, u.attempts, x)
      BY <2>4 DEF Deliver
    <3> HIDE DEF x
    <3>4. Replaced(state, u.attempts, x) = {u}
      BY <3>1, <3>2 DEF Replaced, RowsValid, UniqueKeys
    <3>5. state'.witnesses = (state.witnesses \ {u}) \cup {x}
      BY <3>1, <3>3, <3>4 DEF ApplyWitness, State
    <3>6. Kept(u, x)
      BY <3>2
    <3> HIDE DEF Kept
    <3> QED BY <2>1, <3>5, <3>6
  <2>5. ASSUME NEW r \in Runner,
               \/ Notify(r) \/ WakeNotified(r) \/ WakeTicker(r) \/ RunOnce(r)
               \/ Load(r) \/ Scan(r) \/ Refused(r) \/ Abort(r)
        PROVE  state' = state
    BY <2>5 DEF Notify, WakeNotified, WakeTicker, RunOnce, StartPass, Load, Scan,
                Refused, Abort, storeVars
  <2>6. state' = state \/ (\E r \in Runner : Install(r)) \/
        \E u \in state.witnesses, ok \in BOOLEAN :
          Deliver(u, IF ok THEN u.checkpoint ELSE NoBytes)
    <3>1. CASE UNCHANGED vars
      BY <3>1 DEF vars, storeVars
    <3>2. CASE Next
      BY <3>2, <2>5
      DEF Next, AppendEntry, Tick, Commit, CommitUnacknowledged, storeVars
    <3> QED BY <1>1, <3>1, <3>2
  <2> QED BY <2>1, <2>2, <2>3, <2>4, <2>6
<1> QED BY <1>1, Invariance, PTL DEF Spec, DeliveryNeverRegresses
=============================================================================

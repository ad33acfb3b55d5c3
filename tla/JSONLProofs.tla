----------------------------- MODULE JSONLProofs -----------------------------
(***************************************************************************)
(* Proofs about JSONL, for every log, every combination of faults and any  *)
(* number of crashes and reopenings.                                       *)
(*                                                                         *)
(* The inductive invariant IInv says that whatever the operating system or *)
(* the disk may show replays to a valid engine and starts with the journal *)
(* as it was last acknowledged, and that the engine in memory is what the  *)
(* journal replays to, before and after the mutation in progress.          *)
(***************************************************************************)
EXTENDS JSONL, BackendProofs

-----------------------------------------------------------------------------
(* Replay of a journal that grows.                                         *)

Start(lines) ==
  [ok |-> lines # << >> => lines[1].type = "cll.init", entries |-> << >>,
   state |-> New]

(* One event of replay.                                                    *)
Applied(r, e) == IF r.ok THEN applyEvent(r, e) ELSE r

(* The function Replay chooses, on the first n lines.                      *)
IsReplay(f, lines, n) ==
  f = [i \in 0..n |-> IF i = 0 THEN Start(lines) ELSE Applied(f[i - 1], lines[i])]

(* Any number of lines can be replayed.                                    *)
LEMMA ReplayExists ==
  ASSUME NEW lines
  PROVE  \A n \in Nat : \E f : IsReplay(f, lines, n)
<1> DEFINE S == {n \in Nat : \E f : IsReplay(f, lines, n)}
<1>1. 0 \in S
  <2>1. IsReplay([i \in 0..0 |-> Start(lines)], lines, 0)
    BY DEF IsReplay
  <2> QED BY <2>1
<1>2. ASSUME NEW n \in Nat, n \in S PROVE n + 1 \in S
  <2>1. PICK f : IsReplay(f, lines, n)
    BY <1>2
  <2> DEFINE last == Applied(f[n], lines[n + 1])
             g == [i \in 0..(n + 1) |-> IF i = n + 1 THEN last ELSE f[i]]
  <2>2. ASSUME NEW i \in 0..(n + 1)
        PROVE  g[i] = IF i = 0 THEN Start(lines) ELSE Applied(g[i - 1], lines[i])
    <3>1. CASE i = n + 1
      <4>1. g[i] = last /\ g[i - 1] = f[n] /\ i # 0 /\ i = n + 1
        BY <3>1
      <4> QED BY <4>1
    <3>2. CASE i # n + 1
      <4>1. i \in 0..n /\ g[i] = f[i]
        BY <3>2
      <4>2. i # 0 => i - 1 \in 0..(n + 1) /\ g[i - 1] = f[i - 1]
        BY <3>2
      <4> HIDE DEF g, last
      <4>3. f[i] = IF i = 0 THEN Start(lines) ELSE Applied(f[i - 1], lines[i])
        BY <2>1, <4>1 DEF IsReplay
      <4> QED BY <4>1, <4>2, <4>3
    <3> QED BY <3>1, <3>2
  <2>3. IsReplay(g, lines, n + 1)
    <3>1. g = [i \in 0..(n + 1) |-> g[i]]
      OBVIOUS
    <3> HIDE DEF g, last
    <3> QED BY <2>2, <3>1, Zenon DEF IsReplay
  <2> QED BY <2>3
<1> HIDE DEF S
<1>3. \A n \in Nat : n \in S
  BY <1>1, <1>2, Induction
<1> QED BY <1>3 DEF S

(* Replay is the end of the replay of all lines.                           *)
LEMMA ReplayOf ==
  ASSUME NEW X, NEW lines \in Seq(X)
  PROVE  \E f : IsReplay(f, lines, Len(lines)) /\ Replay(lines) = f[Len(lines)]
<1> DEFINE c == CHOOSE f : IsReplay(f, lines, Len(lines))
<1>1. IsReplay(c, lines, Len(lines))
  <2>1. Len(lines) \in Nat
    OBVIOUS
  <2> QED BY <2>1, ReplayExists, Zenon
<1>2. Replay(lines) = c[Len(lines)]
  BY DEF Replay, IsReplay, Applied, Start
<1> HIDE DEF c
<1> QED BY <1>1, <1>2

(* Nothing replays to a new engine.                                        *)
LEMMA ReplayNothing ==
  Replay(<< >>) = [ok |-> TRUE, entries |-> << >>, state |-> New]
<1>1. << >> \in Seq({}) /\ Len(<< >>) = 0
  OBVIOUS
<1>2. PICK f : IsReplay(f, << >>, 0) /\ Replay(<< >>) = f[0]
  BY <1>1, ReplayOf, ZenonT(20)
<1>3. f[0] = Start(<< >>)
  BY <1>2 DEF IsReplay
<1> QED BY <1>2, <1>3, Zenon DEF Start

(* A journal with one more line replays to what it replayed to, with that  *)
(* event applied.                                                          *)
LEMMA ReplayAppend ==
  ASSUME NEW X, NEW lines \in Seq(X), lines # << >>, NEW e \in X
  PROVE  Replay(Append(lines, e)) = Applied(Replay(lines), e)
<1> DEFINE n == Len(lines)
           more == Append(lines, e)
<1>1. n \in Nat /\ n > 0 /\ more \in Seq(X) /\ Len(more) = n + 1
  OBVIOUS
<1>2. more[n + 1] = e /\ \A i \in 1..n : more[i] = lines[i]
  OBVIOUS
<1>3. more # << >> /\ more[1] = lines[1]
  BY <1>1, <1>2
<1>4. Start(more) = Start(lines)
  BY <1>3 DEF Start
<1> HIDE DEF more
<1>5. PICK f : IsReplay(f, lines, n) /\ Replay(lines) = f[n]
  BY ReplayOf
<1> HIDE DEF n
<1>6. PICK g : IsReplay(g, more, n + 1) /\ Replay(more) = g[n + 1]
  BY <1>1, ReplayOf
<1> DEFINE S == {i \in Nat : i <= n => f[i] = g[i]}
<1>7. 0 \in S
  BY <1>1, <1>4, <1>5, <1>6 DEF IsReplay
<1>8. ASSUME NEW i \in Nat, i \in S PROVE i + 1 \in S
  <2>1. SUFFICES ASSUME i + 1 <= n PROVE f[i + 1] = g[i + 1]
    OBVIOUS
  <2>2. /\ i + 1 \in 0..n /\ i + 1 \in 0..(n + 1) /\ i + 1 # 0
        /\ (i + 1) - 1 = i /\ i + 1 \in 1..n
    BY <1>1, <2>1
  <2>3. f[i + 1] = Applied(f[i], lines[i + 1])
    BY <1>5, <2>2, Zenon DEF IsReplay
  <2>4. g[i + 1] = Applied(g[i], more[i + 1])
    BY <1>6, <2>2, Zenon DEF IsReplay
  <2> QED BY <1>1, <1>2, <1>8, <2>1, <2>2, <2>3, <2>4
<1> HIDE DEF S
<1>9. \A i \in Nat : i \in S
  BY <1>7, <1>8, Induction
<1>10. f[n] = g[n]
  BY <1>1, <1>9 DEF S
<1>11. g[n + 1] = Applied(g[n], more[n + 1])
  BY <1>1, <1>6 DEF IsReplay
<1> QED BY <1>2, <1>5, <1>6, <1>10, <1>11 DEF more

(* A journal of the header alone replays to a new engine.                  *)
LEMMA ReplayHeader ==
  Replay(<<InitEvent>>) = [ok |-> TRUE, entries |-> << >>, state |-> New]
<1> DEFINE lines == <<InitEvent>>
<1>1. lines \in Seq({InitEvent}) /\ Len(lines) = 1 /\ lines[1] = InitEvent
  OBVIOUS
<1>2. lines # << >>
  BY <1>1
<1> HIDE DEF lines
<1>3. PICK f : IsReplay(f, lines, 1) /\ Replay(lines) = f[1]
  BY <1>1, ReplayOf, Zenon
<1>4. f[0] = Start(lines) /\ f[1] = Applied(f[0], InitEvent)
  BY <1>1, <1>3 DEF IsReplay
<1>5. Start(lines) = [ok |-> TRUE, entries |-> << >>, state |-> New]
  <2> DEFINE b == lines # << >> => lines[1].type = "cll.init"
  <2>1. b = TRUE
    BY <1>1, <1>2 DEF InitEvent
  <2>2. Start(lines) = [ok |-> b, entries |-> << >>, state |-> New]
    BY Zenon DEF Start
  <2> HIDE DEF b
  <2> QED BY <2>1, <2>2
<1>6. Applied(Start(lines), InitEvent) = Start(lines)
  <2> DEFINE r == Start(lines)
             b == r.entries = << >> /\ r.state.size = 0
  <2>1. r.ok = TRUE /\ b = TRUE
    BY <1>5 DEF New
  <2>2. applyEvent(r, InitEvent) = [r EXCEPT !.ok = b]
    BY DEF applyEvent, InitEvent
  <2> HIDE DEF b
  <2>3. [r EXCEPT !.ok = b] = r
    BY <1>5, <2>1, Zenon
  <2> QED BY <2>1, <2>2, <2>3, Zenon DEF Applied
<1> QED BY <1>3, <1>4, <1>5, <1>6 DEF lines

-----------------------------------------------------------------------------
(* Replaying the event of a mutation.                                      *)

(* What a journal replays to when the engine in memory has this log and    *)
(* this state.                                                             *)
Replayed(es, s) == [ok |-> TRUE, entries |-> es, state |-> StateToWire(s)]

ValidEngine(es, s) == es \in Seq(Entry) /\ s \in State /\ validateState(s)

(* Append.                                                                 *)
LEMMA AppendReplays ==
  ASSUME NEW es \in Seq(Entry), NEW s, NEW v \in Value, NEW t \in Time,
         ~Present(es, v), Len(es) + 1 <= MaxSeq
  PROVE  /\ NewEntry(v, t) \in Entry
         /\ applyEvent(Replayed(es, s), AppendEvent(Len(es) + 1, NewEntry(v, t)))
              = Replayed(Append(es, NewEntry(v, t)), s)
<1> DEFINE e == NewEntry(v, t)
           ev == AppendEvent(Len(es) + 1, e)
           r == Replayed(es, s)
<1>1. e \in Entry /\ e.value = v /\ e.appendedAt = NormalizeTime(t)
  BY NormalizedTime DEF NewEntry, Entry
<1>2. NewEntry(e.value, e.appendedAt) = e
  BY <1>1, NormalizedOnce DEF NewEntry
<1> HIDE DEF e
<1>3. ev.type = "entry.append" /\ ev.seq = Len(es) + 1 /\ ev.entry = e
  BY DEF AppendEvent
<1> HIDE DEF ev
<1>4. r.entries = es
  BY DEF Replayed
<1>5. applyEvent(r, ev) = [r EXCEPT !.ok = TRUE, !.entries = Append(es, e)]
  BY <1>1, <1>2, <1>3, <1>4, Zenon DEF applyEvent
<1> QED BY <1>1, <1>5, Zenon DEF Replayed, r, ev, e

(* CommitCLL.                                                              *)
LEMMA CommitReplays ==
  ASSUME NEW es, NEW s \in State, NEW next \in State, NEW size, NEW bytes,
         validateState(s), CLLOutcome(s, size, bytes, next) = "ok"
  PROVE  applyEvent(Replayed(es, s),
                    CommitEvent(size, bytes, DeltaSince(s, ApplyCLL(s, next))))
           = Replayed(es, ApplyCLL(s, next))
<1> DEFINE a == ApplyCLL(s, next)
           d == StateToWire(DeltaSince(s, a))
           ev == CommitEvent(size, bytes, DeltaSince(s, a))
           r == Replayed(es, s)
<1>1. /\ DeltaOutcome(StateToWire(s), size, bytes, d) = "ok"
      /\ ApplyDelta(StateToWire(s), d) = StateToWire(a)
  BY JournalledCommit
<1>2. /\ ev.type = "cll.commit" /\ ev.expectedSize = size
      /\ ev.expectedCheckpoint = bytes /\ ev.state = d
  BY DEF CommitEvent
<1>3. r.state = StateToWire(s)
  BY DEF Replayed
<1> HIDE DEF a, d, ev
<1>4. applyEvent(r, ev) = [r EXCEPT !.ok = TRUE, !.state = StateToWire(a)]
  BY <1>1, <1>2, <1>3, Zenon DEF applyEvent
<1> QED BY <1>4, Zenon DEF Replayed, r, ev, a

(* CommitWitness.                                                          *)
LEMMA WitnessReplays ==
  ASSUME NEW es, NEW s \in State, NEW attempts, NEW next \in WitnessState,
         validateState(s), WitnessOutcome(s, attempts, next) = "ok"
  PROVE  applyEvent(Replayed(es, s), WitnessEvent(attempts, next))
           = Replayed(es, ApplyWitness(s, attempts, next))
<1> DEFINE a == ApplyWitness(s, attempts, next)
           n == WitnessToWire(next)
           ev == WitnessEvent(attempts, next)
           r == Replayed(es, s)
<1>1. /\ WitnessOutcome(StateToWire(s), attempts, n) = "ok"
      /\ ApplyWitness(StateToWire(s), attempts, n) = StateToWire(a)
  BY WireWitnessCommit
<1>2. /\ ev.type = "witness.commit" /\ ev.expectedAttempts = attempts
      /\ ev.witness = n
  BY DEF WitnessEvent
<1>3. r.state = StateToWire(s)
  BY DEF Replayed
<1> HIDE DEF a, n, ev
<1>4. applyEvent(r, ev) = [r EXCEPT !.ok = TRUE, !.state = StateToWire(a)]
  BY <1>1, <1>2, <1>3, Zenon DEF applyEvent
<1> QED BY <1>4, Zenon DEF Replayed, r, ev, a

-----------------------------------------------------------------------------
(* The inductive invariant.                                                *)

Events ==
  {InitEvent} \cup {AppendEvent(n, e) : n \in Nat, e \in Entry}
    \cup {CommitEvent(n, b, d) : n \in Nat, b \in Bytes \cup {NoBytes},
                                d \in State}
    \cup {WitnessEvent(n, w) : n \in Nat, w \in WitnessState}

Contents == [lines : Seq(Events), torn : BOOLEAN]

Keeps(lines, ack) ==
  Len(ack) <= Len(lines) /\ SubSeq(lines, 1, Len(ack)) = ack

(* A journal that can be opened and has what was acknowledged.             *)
Good(lines, ack) ==
  /\ lines \in Seq(Events) /\ Keeps(lines, ack)
  /\ \E es, s : ValidEngine(es, s) /\ Replay(lines) = Replayed(es, s)

(* The engine that this journal replays to.                                *)
InMemory(lines, es, s) ==
  lines # << >> /\ ValidEngine(es, s) /\ Replay(lines) = Replayed(es, s)

(* One call took the engine from the snapshot b to this log and state.     *)
Mutation(b, es, s) ==
  \/ \E v \in Value, t \in AppendTime :
       /\ ~Present(b.entries, v) /\ Len(b.entries) + 1 <= MaxSeq
       /\ es = Append(b.entries, NewEntry(v, t)) /\ s = b.state
  \/ \E size \in {MMRSize[n] : n \in 0..MaxSeq},
        bytes \in {x.checkpoint.bytes : x \in CLLInput}, next \in CLLInput :
       /\ CLLOutcome(b.state, size, bytes, next) = "ok"
       /\ s = ApplyCLL(b.state, next) /\ es = b.entries
  \/ \E attempts \in {w.attempts : w \in WitnessInput}, next \in WitnessInput :
       /\ WitnessOutcome(b.state, attempts, next) = "ok"
       /\ s = ApplyWitness(b.state, attempts, next) /\ es = b.entries

(* Everything a process may find opens, and has what was acknowledged.     *)
Stored(f, d, ack) ==
  /\ f \in Contents /\ d \subseteq Contents
  /\ \A c \in d \cup {f} : Good(c.lines, ack)

(* The mutation in progress goes from one such journal to another, and the *)
(* file is at one of the two.                                              *)
Journalling(p, f, b, e, ack) ==
  p # "idle" =>
    /\ Good(b.lines, ack) /\ Good(Append(b.lines, e), ack)
    /\ f.lines \in {b.lines, Append(b.lines, e)}
    /\ p = "write" => f.lines = b.lines
    /\ p = "sync" => f = Image(Append(b.lines, e))

(* The writer's engine is what its journal replays to.                     *)
Holding(h, p, f, es, s, b, e) ==
  /\ h = "none" => p = "idle" /\ b.lines = << >> /\ e = InitEvent
  /\ h = "init" => p # "idle" /\ b.lines = << >> /\ e = InitEvent
  /\ h = "store" /\ p = "idle" => ~f.torn /\ InMemory(f.lines, es, s)
  /\ h = "store" /\ p # "idle" =>
       /\ InMemory(b.lines, b.entries, b.state)
       /\ InMemory(Append(b.lines, e), es, s)
       /\ Mutation(b, es, s)

(* Where power failures are the only fault, the disk is not behind what    *)
(* the writer has left.                                                    *)
Near(fs, p, f, d, b, e) ==
  fs = {"power"} =>
    \A c \in d : IF p \in {"idle", "write"} THEN c.lines = f.lines
                ELSE c.lines \in {b.lines, Append(b.lines, e)}

TypeOK ==
  /\ holder \in {"none", "store", "init"}
  /\ pc \in {"idle", "write", "sync", "rollback"}
  /\ event \in Events /\ acked \in Seq(Events)

IInv ==
  /\ TypeOK
  /\ log = Replay(file.lines)
  /\ Stored(file, disk, acked)
  /\ Journalling(pc, file, before, event, acked)
  /\ Holding(holder, pc, file, entries, state, before, event)
  /\ Near(faults, pc, file, disk, before, event)

-----------------------------------------------------------------------------
(* What is kept when a journal grows.                                      *)

(* A journal keeps itself, and one more line keeps what it kept.           *)
LEMMA KeepsMore ==
  ASSUME NEW X, NEW lines \in Seq(X), NEW ack \in Seq(X)
  PROVE  /\ Keeps(lines, lines)
         /\ Keeps(lines, ack) =>
              \A e \in X : Keeps(Append(lines, e), ack)
<1>1. Keeps(lines, lines)
  BY DEF Keeps
<1>2. ASSUME Keeps(lines, ack), NEW e \in X PROVE Keeps(Append(lines, e), ack)
  <2> DEFINE more == Append(lines, e)
             kept == SubSeq(lines, 1, Len(ack))
             now == SubSeq(more, 1, Len(ack))
  <2>1. /\ more \in Seq(X) /\ Len(more) = Len(lines) + 1
        /\ \A i \in 1..Len(lines) : more[i] = lines[i]
    OBVIOUS
  <2>2. Len(ack) \in Nat /\ Len(ack) <= Len(lines) /\ Len(lines) \in Nat
        /\ kept = ack
    BY <1>2 DEF Keeps
  <2> HIDE DEF more
  <2>3. now \in Seq(X) /\ Len(now) = Len(ack)
        /\ \A i \in 1..Len(ack) : now[i] = more[i]
    BY <2>1, <2>2
  <2>4. \A i \in 1..Len(ack) : kept[i] = lines[i]
    BY <2>2
  <2> HIDE DEF now, kept
  <2>5. now = ack
    BY <2>1, <2>2, <2>3, <2>4
  <2> QED BY <2>1, <2>2, <2>5 DEF Keeps, now, more
<1> QED BY <1>1, <1>2

(* A line that replays after a good journal gives a good journal.          *)
LEMMA GoodMore ==
  ASSUME NEW lines, NEW ack \in Seq(Events), NEW e \in Events,
         Good(lines, ack), NEW es, NEW s, ValidEngine(es, s),
         Replay(Append(lines, e)) = Replayed(es, s)
  PROVE  Good(Append(lines, e), ack)
<1>1. lines \in Seq(Events) /\ Keeps(lines, ack)
  BY DEF Good
<1>2. Append(lines, e) \in Seq(Events) /\ Keeps(Append(lines, e), ack)
  BY <1>1, KeepsMore
<1> QED BY <1>2 DEF Good

(* A good journal is good for what it holds itself.                        *)
LEMMA GoodItself ==
  ASSUME NEW lines, NEW ack, Good(lines, ack)
  PROVE  Good(lines, lines) /\ lines \in Seq(Events)
  BY KeepsMore DEF Good

(* The header line on an empty journal.                                    *)
LEMMA GoodHeader ==
  ASSUME NEW ack \in Seq(Events), Good(<< >>, ack)
  PROVE  /\ Good(Append(<< >>, InitEvent), ack)
         /\ Replay(Append(<< >>, InitEvent)) = Replay(<< >>)
<1>1. Append(<< >>, InitEvent) = <<InitEvent>>
  OBVIOUS
<1>2. Replay(<<InitEvent>>) = Replay(<< >>)
  BY ReplayNothing, ReplayHeader, Zenon
<1>3. PICK es, s : ValidEngine(es, s) /\ Replay(<< >>) = Replayed(es, s)
  BY DEF Good
<1>4. InitEvent \in Events
  BY DEF Events
<1> QED BY <1>1, <1>2, <1>3, <1>4, GoodMore, Zenon

(* The engine a process has after opening a good journal.                  *)
LEMMA OpenedEngine ==
  ASSUME NEW lines, NEW ack, Good(lines, ack), lines # << >>
  PROVE  InMemory(lines, Replay(lines).entries, Replay(lines).state)
<1>1. PICK es, s : ValidEngine(es, s) /\ Replay(lines) = Replayed(es, s)
  BY DEF Good
<1>2. Replay(lines).entries = es /\ Replay(lines).state = StateToWire(s)
  BY <1>1 DEF Replayed
<1>3. /\ StateToWire(s) \in State /\ validateState(StateToWire(s))
      /\ StateToWire(StateToWire(s)) = StateToWire(s)
  BY <1>1, WireFields, WireValid, WireOnce DEF ValidEngine
<1> QED BY <1>1, <1>2, <1>3 DEF InMemory, ValidEngine, Replayed

-----------------------------------------------------------------------------
(* Every step keeps the invariant.                                         *)

(* A process lets go of the journal.                                       *)
LEMMA ReleasedKeeps ==
  ASSUME IInv, Released, log' = Replay(file'.lines), acked' \in Seq(Events),
         Stored(file', disk', acked'),
         faults' = {"power"} => \A c \in disk' : c.lines = file'.lines
  PROVE  IInv'
<1>1. /\ holder' = "none" /\ pc' = "idle" /\ event' = InitEvent
      /\ before'.lines = << >>
  BY DEF Released, NoOp
<1>2. TypeOK'
  BY <1>1 DEF TypeOK, Events
<1>3. Journalling(pc', file', before', event', acked')
  BY <1>1 DEF Journalling
<1>4. Holding(holder', pc', file', entries', state', before', event')
  BY <1>1 DEF Holding
<1>5. Near(faults', pc', file', disk', before', event')
  BY <1>1 DEF Near
<1> QED BY <1>2, <1>3, <1>4, <1>5 DEF IInv

(* A process opens the journal.                                            *)
LEMMA OpenKeeps ==
  ASSUME IInv, Open, log' = Replay(file'.lines), UNCHANGED faults
  PROVE  IInv'
<1>1. /\ holder = "none" /\ holder' = "store" /\ ~file.torn /\ file.lines # << >>
      /\ entries' = log.entries /\ state' = log.state
      /\ UNCHANGED <<file, disk, acked, pc, event, before>>
  BY DEF Open, opVars
<1>2. pc = "idle" /\ Good(file.lines, acked) /\ log = Replay(file.lines)
  BY <1>1, ZenonT(20) DEF IInv, Holding, Stored
<1>3. InMemory(file.lines, entries', state')
  BY <1>1, <1>2, OpenedEngine
<1>4. Holding(holder', pc', file', entries', state', before', event')
  BY <1>1, <1>2, <1>3 DEF Holding
<1> QED BY <1>1, <1>4, Zenon DEF IInv, TypeOK

(* Init goes on to write the header of an empty journal.                   *)
LEMMA HeaderKeeps ==
  ASSUME IInv, WriteHeader, holder = "none",
         file' = Image(<< >>), Stored(file', disk', acked),
         faults = {"power"} => \A c \in disk' : c.lines = << >>,
         UNCHANGED <<engineVars, event, before, acked, faults>>,
         log' = Replay(file'.lines)
  PROVE  IInv'
<1>1. /\ holder' = "init" /\ pc' = "write" /\ event' = InitEvent
      /\ before'.lines = << >> /\ acked' = acked /\ faults' = faults
  BY DEF WriteHeader, IInv, Holding
<1>2. acked \in Seq(Events) /\ file'.lines = << >>
  BY DEF IInv, TypeOK, Image
<1>3. Good(<< >>, acked)
  BY <1>2 DEF Stored
<1>4. Good(Append(<< >>, InitEvent), acked)
  BY <1>2, <1>3, GoodHeader
<1>5. Journalling(pc', file', before', event', acked')
  BY <1>1, <1>2, <1>3, <1>4 DEF Journalling
<1>6. Holding(holder', pc', file', entries', state', before', event')
  BY <1>1 DEF Holding
<1>7. Near(faults', pc', file', disk', before', event')
  BY <1>1, <1>2 DEF Near
<1>8. TypeOK'
  BY <1>1, <1>2 DEF TypeOK, Events
<1> QED BY <1>1, <1>5, <1>6, <1>7, <1>8, ZenonT(20) DEF IInv

(* Init repairs a torn journal.                                            *)
LEMMA InitRepairKeeps ==
  ASSUME IInv, InitRepair, log' = Replay(file'.lines), UNCHANGED faults
  PROVE  IInv'
<1>1. /\ holder = "none" /\ file' = Image(file.lines)
      /\ UNCHANGED <<engineVars, event, before, acked>>
      /\ disk' = {file'} \/ disk' = disk \cup {file'}
      /\ \/ disk' = {file'} /\ file.lines = << >> /\ WriteHeader
         \/ UNCHANGED <<holder, pc>>
  BY DEF InitRepair
<1>2. /\ Stored(file, disk, acked) /\ pc = "idle"
      /\ Holding(holder, pc, file, entries, state, before, event)
      /\ Near(faults, pc, file, disk, before, event)
  BY <1>1, ZenonT(20) DEF IInv, Holding
<1>3. file' \in Contents /\ file'.lines = file.lines
  BY <1>1, <1>2 DEF Stored, Contents, Image
<1>4. Stored(file', disk', acked)
  BY <1>1, <1>2, <1>3 DEF Stored
<1>5. faults = {"power"} => \A c \in disk' : c.lines = file'.lines
  BY <1>1, <1>2, <1>3 DEF Near
<1>6. CASE disk' = {file'} /\ file.lines = << >> /\ WriteHeader
  <2>1. file' = Image(<< >>) /\ \A c \in disk' : c.lines = << >>
    BY <1>1, <1>3, <1>6
  <2> QED BY <1>1, <1>4, <1>6, <2>1, HeaderKeeps
<1>7. CASE UNCHANGED <<holder, pc>>
  <2>1. Journalling(pc', file', before', event', acked')
    BY <1>2, <1>7 DEF Journalling
  <2>2. Holding(holder', pc', file', entries', state', before', event')
    BY <1>1, <1>2, <1>7, ZenonT(20) DEF Holding
  <2>3. Near(faults', pc', file', disk', before', event')
    BY <1>2, <1>5, <1>7, ZenonT(20) DEF Near
  <2> QED BY <1>1, <1>4, <1>7, <2>1, <2>2, <2>3, ZenonT(20) DEF IInv, TypeOK
<1> QED BY <1>1, <1>6, <1>7

(* Init on an empty journal.                                               *)
LEMMA InitHeaderKeeps ==
  ASSUME IInv, InitHeader, log' = Replay(file'.lines), UNCHANGED faults
  PROVE  IInv'
<1>1. /\ holder = "none" /\ file = Image(<< >>) /\ WriteHeader
      /\ UNCHANGED <<file, disk, engineVars, event, before, acked>>
  BY DEF InitHeader
<1>2. /\ Stored(file, disk, acked) /\ pc = "idle" /\ file.lines = << >>
      /\ Near(faults, pc, file, disk, before, event)
  BY <1>1 DEF IInv, Holding, Image
<1>3. faults = {"power"} => \A c \in disk : c.lines = << >>
  BY <1>2 DEF Near
<1> QED BY <1>1, <1>2, <1>3, HeaderKeeps

(* Close and the death of the process leave the file as it is.             *)
LEMMA CloseKeeps ==
  ASSUME IInv, Close \/ Kill, log' = Replay(file'.lines), UNCHANGED faults
  PROVE  IInv'
<1>1. /\ Released /\ UNCHANGED <<file, disk, acked>>
      /\ pc = "idle" \/ "kill" \in faults
  BY DEF Close, Kill
<1>2. /\ Stored(file, disk, acked) /\ acked \in Seq(Events)
      /\ Near(faults, pc, file, disk, before, event)
  BY DEF IInv, TypeOK
<1>3. faults = {"power"} => \A c \in disk : c.lines = file.lines
  BY <1>1, <1>2 DEF Near
<1> QED BY <1>1, <1>2, <1>3, ReleasedKeeps

(* A power failure leaves one of the images.                               *)
LEMMA PowerLossKeeps ==
  ASSUME IInv, PowerLoss, log' = Replay(file'.lines), UNCHANGED faults
  PROVE  IInv'
<1>1. Released /\ file' \in disk /\ disk' = {file'} /\ acked' = acked
  BY DEF PowerLoss
<1>2. Stored(file, disk, acked) /\ acked \in Seq(Events)
  BY DEF IInv, TypeOK
<1>3. Stored(file', disk', acked')
  BY <1>1, <1>2 DEF Stored
<1> QED BY <1>1, <1>2, <1>3, ReleasedKeeps

(* A mutation has changed the engine and goes on to journal its event.     *)
LEMMA BeginKeeps ==
  ASSUME IInv, NEW e \in Events, Begin(e), ValidEngine(entries', state'),
         applyEvent(Replayed(entries, state), e) = Replayed(entries', state'),
         Mutation([entries |-> entries, state |-> state, lines |-> file.lines],
                  entries', state'),
         log' = Replay(file'.lines), UNCHANGED faults
  PROVE  IInv'
<1>1. /\ holder = "store" /\ pc = "idle" /\ pc' = "write" /\ event' = e
      /\ before' = [entries |-> entries, state |-> state, lines |-> file.lines]
      /\ UNCHANGED <<file, disk, holder, acked>>
  BY DEF Begin
<1>2. before'.lines = file.lines /\ before'.entries = entries
      /\ before'.state = state
  BY <1>1
<1>3. /\ acked \in Seq(Events) /\ Stored(file, disk, acked)
      /\ InMemory(file.lines, entries, state)
      /\ Near(faults, pc, file, disk, before, event)
  BY <1>1 DEF IInv, TypeOK, Holding
<1>4. Good(file.lines, acked) /\ file.lines # << >> /\ file.lines \in Seq(Events)
  BY <1>3, ZenonT(20) DEF Stored, InMemory, Good
<1>5. Replay(Append(file.lines, e)) = Replayed(entries', state')
  <2>1. Replay(file.lines) = Replayed(entries, state)
    BY <1>3, ZenonT(20) DEF InMemory
  <2>2. Replay(Append(file.lines, e)) = Applied(Replayed(entries, state), e)
    BY <1>4, <2>1, ReplayAppend, ZenonT(20)
  <2>3. Replayed(entries, state).ok = TRUE
    BY DEF Replayed
  <2> QED BY <2>2, <2>3 DEF Applied
<1>6. Good(Append(file.lines, e), acked)
  BY <1>3, <1>4, <1>5, GoodMore, ZenonT(20)
<1>7. Journalling(pc', file', before', event', acked')
  BY <1>1, <1>2, <1>4, <1>6, ZenonT(20) DEF Journalling
<1>8. InMemory(Append(file.lines, e), entries', state')
  <2>1. Append(file.lines, e) # << >>
    BY <1>4
  <2> QED BY <1>5, <2>1 DEF InMemory
<1>9. Holding(holder', pc', file', entries', state', before', event')
  <2>1. Mutation(before', entries', state')
    BY <1>1
  <2> QED BY <1>1, <1>2, <1>3, <1>8, <2>1, ZenonT(20) DEF Holding
<1>10. Near(faults', pc', file', disk', before', event')
  BY <1>1, <1>2, <1>3, ZenonT(20) DEF Near
<1> QED BY <1>1, <1>3, <1>7, <1>9, <1>10 DEF IInv, TypeOK

(* The events of the mutations.                                            *)
LEMMA EventTypes ==
  /\ \A n \in Nat, e \in Entry : AppendEvent(n, e) \in Events
  /\ \A n \in Nat, b \in Bytes \cup {NoBytes}, d \in State :
       CommitEvent(n, b, d) \in Events
  /\ \A n \in Nat, w \in WitnessState : WitnessEvent(n, w) \in Events
  BY DEF Events

(* The engine of an open, idle store is valid.                             *)
LEMMA IdleEngine ==
  ASSUME IInv, holder = "store", pc = "idle"
  PROVE  entries \in Seq(Entry) /\ state \in State /\ validateState(state)
  BY Zenon DEF IInv, Holding, InMemory, ValidEngine

(* Append of a new value.                                                  *)
LEMMA BeginAppendKeeps ==
  ASSUME IInv, NEW v \in Value, NEW t \in AppendTime, BeginAppend(v, t),
         log' = Replay(file'.lines), UNCHANGED faults
  PROVE  IInv'
<1> DEFINE n == NewEntry(v, t)
           e == AppendEvent(Len(entries) + 1, n)
           b == [entries |-> entries, state |-> state, lines |-> file.lines]
<1>1. /\ ~Present(entries, v) /\ Len(entries) + 1 <= MaxSeq
      /\ entries' = Append(entries, n) /\ state' = state /\ Begin(e)
      /\ holder = "store" /\ pc = "idle"
  BY DEF BeginAppend, Begin
<1>2. entries \in Seq(Entry) /\ state \in State /\ validateState(state)
  BY <1>1, IdleEngine
<1>3. /\ n \in Entry
      /\ applyEvent(Replayed(entries, state), e) = Replayed(Append(entries, n), state)
  BY <1>1, <1>2, AppendReplays, JournalAssumption
<1>4. e \in Events
  <2>1. Len(entries) + 1 \in Nat
    BY <1>2
  <2> HIDE DEF n
  <2> QED BY <1>3, <2>1, EventTypes
<1>5. Mutation(b, entries', state')
  <2>1. b.entries = entries /\ b.state = state
    OBVIOUS
  <2> HIDE DEF b
  <2> QED BY <1>1, <2>1, Zenon DEF Mutation
<1>6. ValidEngine(entries', state')
  <2> HIDE DEF n
  <2> QED BY <1>1, <1>2, <1>3 DEF ValidEngine
<1> HIDE DEF e, n
<1> QED BY <1>1, <1>3, <1>4, <1>5, <1>6, BeginKeeps

(* CommitCLL.                                                              *)
LEMMA BeginCommitCLLKeeps ==
  ASSUME IInv, NEW size \in {MMRSize[n] : n \in 0..MaxSeq},
         NEW bytes \in {s.checkpoint.bytes : s \in CLLInput},
         NEW next \in CLLInput, BeginCommitCLL(size, bytes, next),
         log' = Replay(file'.lines), UNCHANGED faults
  PROVE  IInv'
<1> DEFINE e == CommitEvent(size, bytes, DeltaSince(state, state'))
           b == [entries |-> entries, state |-> state, lines |-> file.lines]
<1>1. /\ CLLOutcome(state, size, bytes, next) = "ok"
      /\ entries' = entries /\ state' = ApplyCLL(state, next) /\ Begin(e)
      /\ holder = "store" /\ pc = "idle"
  BY ZenonT(20) DEF BeginCommitCLL, Begin
<1>2. entries \in Seq(Entry) /\ state \in State /\ validateState(state)
  BY <1>1, IdleEngine, ZenonT(20)
<1>3. next \in State /\ validateState(next)
  BY <1>1, CLLAccepted, JournalAssumption, ZenonT(20)
<1>4. state' \in State /\ validateState(state')
  BY <1>1, <1>2, <1>3, ApplyCLLFields, ApplyCLLValid, ZenonT(20)
<1>5. applyEvent(Replayed(entries, state), e) = Replayed(entries', state')
  BY <1>1, <1>2, <1>3, CommitReplays, ZenonT(20)
<1>6. e \in Events
  <2>1. size \in Nat /\ bytes \in Bytes \cup {NoBytes}
    BY MMRSizeAssumption, JournalAssumption, SMTT(20) DEF State, CheckpointState
  <2>2. DeltaSince(state, state') \in State
    BY <1>2, <1>4, DeltaFields, Zenon
  <2> QED BY <2>1, <2>2, EventTypes, ZenonT(20)
<1>7. Mutation(b, entries', state')
  <2>1. b.entries = entries /\ b.state = state
    OBVIOUS
  <2> HIDE DEF b
  <2> QED BY <1>1, <2>1, Zenon DEF Mutation
<1>8. ValidEngine(entries', state')
  BY <1>1, <1>2, <1>4, ZenonT(20) DEF ValidEngine
<1> HIDE DEF e
<1> QED BY <1>1, <1>5, <1>6, <1>7, <1>8, BeginKeeps, ZenonT(20)

(* CommitWitness.                                                          *)
LEMMA BeginCommitWitnessKeeps ==
  ASSUME IInv, NEW attempts \in {w.attempts : w \in WitnessInput},
         NEW next \in WitnessInput, BeginCommitWitness(attempts, next),
         log' = Replay(file'.lines), UNCHANGED faults
  PROVE  IInv'
<1> DEFINE e == WitnessEvent(attempts, next)
           b == [entries |-> entries, state |-> state, lines |-> file.lines]
<1>1. /\ WitnessOutcome(state, attempts, next) = "ok"
      /\ entries' = entries /\ state' = ApplyWitness(state, attempts, next)
      /\ Begin(e) /\ holder = "store" /\ pc = "idle"
  BY Zenon DEF BeginCommitWitness, Begin
<1>2. entries \in Seq(Entry) /\ state \in State /\ validateState(state)
  BY <1>1, IdleEngine
<1>3. next \in WitnessState /\ attempts \in Nat
  BY JournalAssumption DEF WitnessState
<1>4. state' \in State /\ validateState(state')
  BY <1>1, <1>2, <1>3, ApplyWitnessFacts
<1>5. applyEvent(Replayed(entries, state), e) = Replayed(entries', state')
  BY <1>1, <1>2, <1>3, WitnessReplays, ZenonT(20)
<1>6. e \in Events
  BY <1>3, EventTypes, Zenon
<1>7. Mutation(b, entries', state')
  <2>1. b.entries = entries /\ b.state = state
    BY Zenon
  <2> HIDE DEF b
  <2> QED BY <1>1, <2>1, Zenon DEF Mutation
<1>8. ValidEngine(entries', state')
  BY <1>1, <1>2, <1>4 DEF ValidEngine
<1> HIDE DEF e
<1> QED BY <1>1, <1>5, <1>6, <1>7, <1>8, BeginKeeps, ZenonT(20)

(* An idempotent Append changes nothing but its answer.                    *)
LEMMA AppendIdempotentKeeps ==
  ASSUME IInv, NEW v \in Value, AppendIdempotent(v),
         log' = Replay(file'.lines), UNCHANGED faults
  PROVE  IInv'
<1>1. UNCHANGED <<file, disk, holder, entries, state, pc, event, before, acked>>
  BY DEF AppendIdempotent, engineVars, opVars
<1> QED BY <1>1 DEF IInv, TypeOK

(* An operation fails with the file back where it began.                   *)
LEMMA FailedKeeps ==
  ASSUME IInv, pc # "idle", Failed, log' = Replay(file'.lines),
         UNCHANGED <<acked, faults>>, file'.lines = before.lines, ~file'.torn,
         Stored(file', disk', acked),
         faults = {"power"} => \A c \in disk' : c.lines = file'.lines
  PROVE  IInv'
<1>1. acked \in Seq(Events)
  BY Zenon DEF IInv, TypeOK
<1>2. CASE holder = "init"
  BY <1>1, <1>2, ReleasedKeeps DEF Failed
<1>3. CASE holder # "init"
  <2>1. /\ holder = "store" /\ holder' = holder /\ pc' = "idle"
        /\ entries' = before.entries /\ state' = before.state
        /\ event' = InitEvent
    BY <1>3, ZenonT(20) DEF Failed, Restore, IInv, TypeOK, Holding
  <2>2. InMemory(before.lines, before.entries, before.state)
    BY <2>1, ZenonT(20) DEF IInv, Holding
  <2>3. Holding(holder', pc', file', entries', state', before', event')
    BY <2>1, <2>2 DEF Holding
  <2>4. Journalling(pc', file', before', event', acked')
    BY <2>1 DEF Journalling
  <2>5. Near(faults', pc', file', disk', before', event')
    BY <2>1 DEF Near
  <2>6. TypeOK'
    BY <1>1, <2>1 DEF TypeOK, Events
  <2> QED BY <2>3, <2>4, <2>5, <2>6, ZenonT(20) DEF IInv
<1> QED BY <1>2, <1>3

(* The event is too large.                                                 *)
LEMMA UnencodableKeeps ==
  ASSUME IInv, Unencodable, log' = Replay(file'.lines), UNCHANGED faults
  PROVE  IInv'
<1>1. /\ pc = "write" /\ ~file.torn /\ Failed /\ UNCHANGED <<file, disk, acked>>
  BY DEF Unencodable
<1>2. Stored(file, disk, acked) /\ file.lines = before.lines
  BY <1>1, ZenonT(20) DEF IInv, Journalling
<1>3. faults = {"power"} => \A c \in disk : c.lines = file.lines
  BY <1>1, ZenonT(20) DEF IInv, Near
<1> QED BY <1>1, <1>2, <1>3, FailedKeeps

(* The rollback succeeds.                                                  *)
LEMMA RollbackKeeps ==
  ASSUME IInv, Rollback, log' = Replay(file'.lines), UNCHANGED faults
  PROVE  IInv'
<1>1. /\ pc = "rollback" /\ file' = Image(before.lines) /\ disk' = {file'}
      /\ Failed /\ UNCHANGED acked
  BY DEF Rollback
<1>2. Good(before.lines, acked)
  BY <1>1, ZenonT(20) DEF IInv, Journalling
<1>3. file' \in Contents /\ file'.lines = before.lines /\ ~file'.torn
  BY <1>1, <1>2 DEF Image, Contents, Good
<1>4. Stored(file', disk', acked)
  BY <1>1, <1>2, <1>3 DEF Stored
<1> QED BY <1>1, <1>3, <1>4, FailedKeeps

(* The rollback fails and the store closes itself.                         *)
LEMMA RollbackFailsKeeps ==
  ASSUME IInv, RollbackFails, log' = Replay(file'.lines), UNCHANGED faults
  PROVE  IInv'
<1>1. /\ "rollback" \in faults /\ pc = "rollback" /\ Released /\ UNCHANGED acked
      /\ file' = Image(before.lines) \/ file' = file
      /\ disk' = {file'} \/ disk' = disk \cup {file'}
  BY DEF RollbackFails
<1>2. /\ Good(before.lines, acked) /\ Stored(file, disk, acked)
      /\ acked \in Seq(Events)
  BY <1>1, ZenonT(20) DEF IInv, Journalling, TypeOK
<1>3. /\ Image(before.lines) \in Contents
      /\ Image(before.lines).lines = before.lines
  BY <1>2 DEF Image, Contents, Good
<1>4. Stored(file', disk', acked')
  <2>1. file' \in Contents /\ Good(file'.lines, acked)
    BY <1>1, <1>2, <1>3 DEF Stored
  <2> QED BY <1>1, <1>2, <2>1, ZenonT(20) DEF Stored
<1>5. faults' # {"power"}
  BY <1>1
<1> QED BY <1>1, <1>2, <1>4, <1>5, ReleasedKeeps

(* The line is written, in part or to its end.                             *)
LEMMA WriteKeeps ==
  ASSUME IInv, WriteSome \/ WriteLine, log' = Replay(file'.lines), UNCHANGED faults
  PROVE  IInv'
<1> DEFINE more == Append(before.lines, event)
<1>1. /\ pc = "write"
      /\ UNCHANGED <<holder, entries, state, event, before, acked>>
      /\ \/ /\ file' = Torn(before.lines) /\ disk' = disk \cup {file'}
            /\ pc' = pc
         \/ /\ file' = Image(more)
            /\ disk' = disk \cup {Torn(before.lines), file'} /\ pc' = "sync"
  BY DEF WriteSome, WriteLine, engineVars, opVars
<1>2. /\ Stored(file, disk, acked) /\ Good(before.lines, acked)
      /\ Good(more, acked) /\ file.lines = before.lines
      /\ Near(faults, pc, file, disk, before, event)
      /\ Holding(holder, pc, file, entries, state, before, event)
  BY <1>1, ZenonT(20) DEF IInv, Journalling
<1>3. /\ Torn(before.lines) \in Contents /\ Image(more) \in Contents
      /\ Torn(before.lines).lines = before.lines /\ Image(more).lines = more
  BY <1>2, ZenonT(20) DEF Torn, Image, Contents, Good
<1> HIDE DEF more
<1>4. Stored(file', disk', acked')
  BY <1>1, <1>2, <1>3, ZenonT(20) DEF Stored
<1>5. Journalling(pc', file', before', event', acked')
  BY <1>1, <1>2, <1>3, ZenonT(20) DEF Journalling, more
<1>6. Holding(holder', pc', file', entries', state', before', event')
  BY <1>1, <1>2, ZenonT(20) DEF Holding
<1>7. Near(faults', pc', file', disk', before', event')
  BY <1>1, <1>2, <1>3, ZenonT(20) DEF Near, more
<1>8. TypeOK'
  BY <1>1, ZenonT(20) DEF IInv, TypeOK
<1> QED BY <1>4, <1>5, <1>6, <1>7, <1>8 DEF IInv

(* A write or the fsync fails.                                             *)
LEMMA WriteOrSyncFailsKeeps ==
  ASSUME IInv, WriteOrSyncFails, log' = Replay(file'.lines), UNCHANGED faults
  PROVE  IInv'
<1>1. /\ pc \in {"write", "sync"} /\ pc' = "rollback"
      /\ UNCHANGED <<file, disk, holder, entries, state, event, before, acked>>
  BY DEF WriteOrSyncFails, engineVars
<1>2. /\ Journalling(pc, file, before, event, acked)
      /\ Near(faults, pc, file, disk, before, event)
      /\ Holding(holder, pc, file, entries, state, before, event)
  BY ZenonT(20) DEF IInv
<1>3. Journalling(pc', file', before', event', acked')
  BY <1>1, <1>2, ZenonT(20) DEF Journalling
<1>4. Holding(holder', pc', file', entries', state', before', event')
  BY <1>1, <1>2, ZenonT(20) DEF Holding
<1>5. Near(faults', pc', file', disk', before', event')
  BY <1>1, <1>2, Zenon DEF Near, Journalling
<1> QED BY <1>1, <1>3, <1>4, <1>5 DEF IInv, TypeOK

(* The fsync succeeds: the journal as it is now is acknowledged.           *)
LEMMA SyncSucceedsKeeps ==
  ASSUME IInv, SyncSucceeds, log' = Replay(file'.lines), UNCHANGED faults
  PROVE  IInv'
<1> DEFINE more == Append(before.lines, event)
<1>1. /\ pc = "sync" /\ disk' = {file} /\ acked' = file.lines /\ file' = file
      /\ IF holder = "init" THEN Released
         ELSE /\ pc' = "idle" /\ event' = InitEvent
              /\ UNCHANGED <<holder, entries, state>>
  BY DEF SyncSucceeds, engineVars
<1>2. /\ Stored(file, disk, acked) /\ file = Image(more)
      /\ Holding(holder, pc, file, entries, state, before, event)
  BY <1>1, ZenonT(20) DEF IInv, Journalling
<1>3. file.lines \in Seq(Events) /\ Good(file.lines, file.lines)
  BY <1>2, GoodItself DEF Stored
<1>4. Stored(file', disk', acked')
  BY <1>1, <1>2, <1>3 DEF Stored
<1>5. CASE holder = "init"
  BY <1>1, <1>3, <1>4, <1>5, ReleasedKeeps
<1>6. CASE holder # "init"
  <2>1. holder = "store" /\ holder' = holder /\ pc' = "idle"
        /\ event' = InitEvent /\ entries' = entries /\ state' = state
    BY <1>1, <1>2, <1>6, ZenonT(20) DEF Holding, IInv, TypeOK
  <2>2. InMemory(more, entries, state) /\ file.lines = more /\ ~file.torn
    BY <1>1, <1>2, <2>1, ZenonT(20) DEF Holding, Image
  <2> HIDE DEF more
  <2>3. Holding(holder', pc', file', entries', state', before', event')
    BY <1>1, <2>1, <2>2, ZenonT(20) DEF Holding
  <2>4. Journalling(pc', file', before', event', acked')
    BY <2>1, Zenon DEF Journalling
  <2>5. Near(faults', pc', file', disk', before', event')
    BY <1>1, <2>1 DEF Near
  <2>6. TypeOK'
    BY <1>1, <1>3, <2>1 DEF TypeOK, Events
  <2> QED BY <1>4, <2>3, <2>4, <2>5, <2>6 DEF IInv
<1> QED BY <1>5, <1>6

(* A new engine's state is stored as it is.                                *)
LEMMA NewStored == StateToWire(New) = New
<1>1. New.witnesses = {} /\ New.firstPendingAt = NoTime
  BY DEF New
<1>2. {WitnessToWire(w) : w \in New.witnesses} = New.witnesses
  BY <1>1
<1> QED BY <1>1, <1>2, NewState, ZenonT(20) DEF StateToWire, WireTime, State

(* The invariant holds to begin with.                                      *)
LEMMA InitHolds == Init => IInv
<1> SUFFICES ASSUME Init PROVE IInv
  OBVIOUS
<1>1. /\ file = Image(<< >>) /\ disk = {file} /\ holder = "none" /\ pc = "idle"
      /\ event = InitEvent /\ before.lines = << >> /\ acked = << >>
      /\ log = Replay(file.lines) /\ file.lines = << >>
  BY DEF Init, NoOp, Image
<1>2. TypeOK
  BY <1>1, SMTT(20) DEF TypeOK, Events
<1>3. Good(<< >>, << >>)
  <2>1. ValidEngine(<< >>, New)
    BY NewState DEF ValidEngine
  <2>2. StateToWire(New) = New
    BY NewStored
  <2>3. Replay(<< >>) = Replayed(<< >>, New)
    BY <2>2, ReplayNothing DEF Replayed
  <2>4. << >> \in Seq(Events) /\ Keeps(<< >>, << >>)
    BY DEF Keeps
  <2> QED BY <2>1, <2>3, <2>4 DEF Good
<1>4. Stored(file, disk, acked)
  BY <1>1, <1>3, SMTT(20) DEF Stored, Contents, Image
<1>5. Journalling(pc, file, before, event, acked)
  BY <1>1 DEF Journalling
<1>6. Holding(holder, pc, file, entries, state, before, event)
  BY <1>1 DEF Holding
<1>7. Near(faults, pc, file, disk, before, event)
  BY <1>1 DEF Near
<1> QED BY <1>1, <1>2, <1>4, <1>5, <1>6, <1>7, ZenonT(20) DEF IInv

(* Every step keeps it.                                                    *)
LEMMA Inductive == IInv /\ [Next]_vars => IInv'
<1> SUFFICES ASSUME IInv, [Next]_vars PROVE IInv'
  OBVIOUS
<1>1. CASE UNCHANGED vars
  BY <1>1 DEF vars, engineVars, opVars, IInv, TypeOK
<1>2. CASE Next
  <2>1. Step /\ log' = Replay(file'.lines) /\ UNCHANGED faults
    BY <1>2 DEF Next
  <2>2. CASE Open \/ InitRepair \/ InitHeader \/ Close \/ Kill \/ PowerLoss
    BY <2>1, <2>2, OpenKeeps, InitRepairKeeps, InitHeaderKeeps, CloseKeeps,
       PowerLossKeeps
  <2>3. CASE \E v \in Value, t \in AppendTime : BeginAppend(v, t)
    BY <2>1, <2>3, BeginAppendKeeps
  <2>4. CASE \E v \in Value : AppendIdempotent(v)
    BY <2>1, <2>4, AppendIdempotentKeeps
  <2>5. CASE \E size \in {MMRSize[n] : n \in 0..MaxSeq},
                bytes \in {s.checkpoint.bytes : s \in CLLInput},
                next \in CLLInput : BeginCommitCLL(size, bytes, next)
    BY <2>1, <2>5, BeginCommitCLLKeeps
  <2>6. CASE \E attempts \in {w.attempts : w \in WitnessInput},
                next \in WitnessInput : BeginCommitWitness(attempts, next)
    BY <2>1, <2>6, BeginCommitWitnessKeeps
  <2>7. CASE Unencodable \/ WriteSome \/ WriteLine \/ WriteOrSyncFails
    BY <2>1, <2>7, UnencodableKeeps, WriteKeeps, WriteOrSyncFailsKeeps
  <2>8. CASE SyncSucceeds \/ Rollback \/ RollbackFails
    BY <2>1, <2>8, SyncSucceedsKeeps, RollbackKeeps, RollbackFailsKeeps
  <2> QED BY <2>1, <2>2, <2>3, <2>4, <2>5, <2>6, <2>7, <2>8, ZenonT(20) DEF Step
<1> QED BY <1>1, <1>2

(* The invariant holds of every journal.                                   *)
THEOREM Invariant == Spec => []IInv
  BY InitHolds, Inductive, PTL DEF Spec

(* Whatever a crash leaves, at any moment and after any earlier crashes,   *)
(* can be opened again (replay).                                           *)
THEOREM EveryImageOpens == Spec => []EveryImageReplays
<1>1. IInv => EveryImageReplays
  <2>1. ASSUME NEW lines, NEW ack, Good(lines, ack) PROVE Replay(lines).ok
    BY <2>1 DEF Good, Replayed
  <2> QED BY <2>1, ZenonT(20) DEF IInv, Stored, EveryImageReplays, Images
<1> QED BY <1>1, Invariant, PTL

(* No crash, failed write, failed rollback or reopening loses or reorders  *)
(* an event whose mutation was answered with success.                      *)
THEOREM AcknowledgedSurvive == Spec => []AcknowledgedEventsSurvive
<1>1. IInv => AcknowledgedEventsSurvive
  <2>1. ASSUME NEW lines, NEW ack, Good(lines, ack)
        PROVE  Len(ack) <= Len(lines) /\ SubSeq(lines, 1, Len(ack)) = ack
    BY <2>1 DEF Good, Keeps
  <2> QED BY <2>1, Zenon DEF IInv, Stored, AcknowledgedEventsSurvive, Images
<1> QED BY <1>1, Invariant, PTL

-----------------------------------------------------------------------------
(* The journalled store implements the engine.                             *)

(* The operators of the engine are those of the backend.                   *)
LEMMA SameOperators ==
  /\ \A es, v : Contract!Present(es, v) <=> Present(es, v)
  /\ \A v, t : Contract!NewEntry(v, t) = NewEntry(v, t)
  /\ \A s, size, bytes, next :
       /\ Contract!CLLOutcome(s, size, bytes, next)
            = CLLOutcome(s, size, bytes, next)
       /\ Contract!ApplyCLL(s, next) = ApplyCLL(s, next)
       /\ Contract!WitnessOutcome(s, size, next) = WitnessOutcome(s, size, next)
       /\ Contract!ApplyWitness(s, size, next) = ApplyWitness(s, size, next)
<1>1. \A es, v : Contract!Present(es, v) <=> Present(es, v)
  BY DEF Present, Contract!Present
<1>2. \A v, t : Contract!NewEntry(v, t) = NewEntry(v, t)
  BY DEF NewEntry, Contract!NewEntry, NormalizeTime, Contract!NormalizeTime
<1>3. ASSUME NEW s, NEW size, NEW bytes, NEW next
      PROVE  Contract!CLLOutcome(s, size, bytes, next)
               = CLLOutcome(s, size, bytes, next)
  BY Zenon
  DEF CLLOutcome, Contract!CLLOutcome, ExpectedMatches,
      Contract!ExpectedMatches, sameOptional, Contract!sameOptional,
      validateState, Contract!validateState, validateStateMetadata,
      Contract!validateStateMetadata, ValidCheckpoint,
      Contract!ValidCheckpoint, NoCheckpoint, Contract!NoCheckpoint,
      validateWitness, Contract!validateWitness, UniqueKeys,
      Contract!UniqueKeys, WitnessKey, Contract!WitnessKey, AppendOnly,
      Contract!AppendOnly, prefixEqual, Contract!prefixEqual,
      validateCLLTransition, Contract!validateCLLTransition,
      CheckpointAdvances, Contract!CheckpointAdvances, WitnessesKept,
      Contract!WitnessesKept
<1>4. ASSUME NEW s, NEW next
      PROVE  Contract!ApplyCLL(s, next) = ApplyCLL(s, next)
  BY Zenon DEF ApplyCLL, Contract!ApplyCLL, AddedWitnesses,
               Contract!AddedWitnesses, WitnessKey, Contract!WitnessKey
<1>5. ASSUME NEW s, NEW n, NEW next
      PROVE  /\ Contract!WitnessOutcome(s, n, next) = WitnessOutcome(s, n, next)
             /\ Contract!ApplyWitness(s, n, next) = ApplyWitness(s, n, next)
  BY Zenon DEF ApplyWitness, Contract!ApplyWitness, WitnessOutcome,
               Contract!WitnessOutcome, Replaced, Contract!Replaced,
               validateWitness, Contract!validateWitness, WitnessKey,
               Contract!WitnessKey
<1> QED BY <1>1, <1>2, <1>3, <1>4, <1>5, Zenon

(* A client sees no change.                                                *)
LEMMA Unseen ==
  ASSUME Visible'.entries = Visible.entries,
         StateToWire(Visible'.state) = StateToWire(Visible.state)
  PROVE  UNCHANGED Contract!vars
  BY Zenon DEF Contract!vars

(* The answers an engine with one more entry has given.                    *)
LEMMA OneMoreAnswer ==
  ASSUME NEW es \in Seq(Entry), NEW n \in Entry
  PROVE  {<<i, Append(es, n)[i]>> : i \in 1..Len(Append(es, n))}
           = {<<i, es[i]>> : i \in 1..Len(es)} \cup {<<Len(es) + 1, n>>}
<1> DEFINE more == Append(es, n)
<1>1. /\ Len(more) = Len(es) + 1 /\ more[Len(es) + 1] = n /\ Len(es) \in Nat
      /\ \A i \in 1..Len(es) : more[i] = es[i]
  OBVIOUS
<1> HIDE DEF more
<1>2. 1..Len(more) = 1..Len(es) \cup {Len(es) + 1}
  BY <1>1
<1>3. {<<i, more[i]>> : i \in 1..Len(more)}
        = {<<i, es[i]>> : i \in 1..Len(es)} \cup {<<Len(es) + 1, n>>}
  BY <1>1, <1>2
<1> QED BY <1>3 DEF more

(* A client sees a mutation happen: a step of the engine.                  *)
LEMMA Seen ==
  ASSUME NEW b, NEW es, NEW s, ValidEngine(b.entries, b.state),
         Mutation(b, es, s),
         Visible.entries = b.entries,
         StateToWire(Visible.state) = StateToWire(b.state),
         Visible'.entries = es, StateToWire(Visible'.state) = StateToWire(s)
  PROVE  Contract!Next
<1> DEFINE S == StateToWire(Visible.state)
           T == StateToWire(Visible'.state)
<1>1. b.entries \in Seq(Entry) /\ b.state \in State /\ validateState(b.state)
  BY DEF ValidEngine
<1>2. ASSUME NEW v \in Value, NEW t \in AppendTime,
             ~Present(b.entries, v), Len(b.entries) + 1 <= MaxSeq,
             es = Append(b.entries, NewEntry(v, t)), s = b.state
      PROVE  Contract!Next
  <2>1. NewEntry(v, t) \in Entry
    BY NormalizedTime, JournalAssumption DEF NewEntry, Entry
  <2>2. {<<i, es[i]>> : i \in 1..Len(es)}
          = {<<i, b.entries[i]>> : i \in 1..Len(b.entries)}
              \cup {<<Len(b.entries) + 1, NewEntry(v, t)>>}
    BY <1>1, <1>2, <2>1, OneMoreAnswer, SMTT(20)
  <2>3. Contract!AppendInserted(v, t)
    BY <1>2, <2>2, SameOperators, Zenon DEF Contract!AppendInserted
  <2> QED BY <2>3, Zenon DEF Contract!Next
<1>3. ASSUME NEW size \in {MMRSize[n] : n \in 0..MaxSeq},
             NEW bytes \in {x.checkpoint.bytes : x \in CLLInput},
             NEW next \in CLLInput,
             CLLOutcome(b.state, size, bytes, next) = "ok",
             s = ApplyCLL(b.state, next), es = b.entries
      PROVE  Contract!Next
  <2> DEFINE inputs == {StateToWire(x) : x \in CLLInput}
             N == StateToWire(next)
  <2>1. CLLOutcome(S, size, bytes, N) = "ok" /\ T = ApplyCLL(S, N)
    <3>1. next \in State
      BY JournalAssumption, Zenon
    <3>2. /\ CLLOutcome(StateToWire(b.state), size, bytes, N) = "ok"
          /\ ApplyCLL(StateToWire(b.state), N)
               = StateToWire(ApplyCLL(b.state, next))
      BY <1>1, <1>3, <3>1, WireCommit, ZenonT(20)
    <3> QED BY <1>3, <3>2, Zenon
  <2>2. N \in inputs /\ bytes \in {x.checkpoint.bytes : x \in inputs}
    <3>1. PICK x \in CLLInput : bytes = x.checkpoint.bytes
      BY Zenon
    <3>2. StateToWire(x).checkpoint = x.checkpoint
      BY WireFields, JournalAssumption, ZenonT(20)
    <3>3. StateToWire(x) \in inputs /\ bytes = StateToWire(x).checkpoint.bytes
      BY <3>1, <3>2, Zenon
    <3>4. N \in inputs
      BY Zenon
    <3> QED BY <3>3, <3>4, Zenon
  <2>3. Contract!CommitCLL(size, bytes, N)
    <3>1. /\ Contract!CLLOutcome(S, size, bytes, N)
               = CLLOutcome(S, size, bytes, N)
          /\ Contract!ApplyCLL(S, N) = ApplyCLL(S, N)
      BY SameOperators, Zenon
    <3> QED BY <1>3, <2>1, <3>1, Zenon DEF Contract!CommitCLL
  <2> QED BY <2>2, <2>3, Zenon DEF Contract!Next
<1>4. ASSUME NEW attempts \in {w.attempts : w \in WitnessInput},
             NEW next \in WitnessInput,
             WitnessOutcome(b.state, attempts, next) = "ok",
             s = ApplyWitness(b.state, attempts, next), es = b.entries
      PROVE  Contract!Next
  <2> DEFINE inputs == {WitnessToWire(w) : w \in WitnessInput}
             n == WitnessToWire(next)
  <2>1. WitnessOutcome(S, attempts, n) = "ok" /\ T = ApplyWitness(S, attempts, n)
    <3>1. next \in WitnessState
      BY JournalAssumption, Zenon
    <3>2. /\ WitnessOutcome(StateToWire(b.state), attempts, n) = "ok"
          /\ ApplyWitness(StateToWire(b.state), attempts, n)
               = StateToWire(ApplyWitness(b.state, attempts, next))
      BY <1>1, <1>4, <3>1, WireWitnessCommit, ZenonT(20)
    <3> QED BY <1>4, <3>2, Zenon
  <2>2. n \in inputs /\ attempts \in {w.attempts : w \in inputs}
    <3>1. PICK w \in WitnessInput : attempts = w.attempts
      BY Zenon
    <3>2. WitnessToWire(w).attempts = w.attempts
      BY WireWitness, JournalAssumption, ZenonT(20)
    <3>3. WitnessToWire(w) \in inputs /\ attempts = WitnessToWire(w).attempts
      BY <3>1, <3>2, Zenon
    <3>4. n \in inputs
      BY Zenon
    <3> QED BY <3>3, <3>4, Zenon
  <2>3. Contract!CommitWitness(attempts, n)
    <3>1. /\ Contract!WitnessOutcome(S, attempts, n)
               = WitnessOutcome(S, attempts, n)
          /\ Contract!ApplyWitness(S, attempts, n)
               = ApplyWitness(S, attempts, n)
      BY SameOperators, Zenon
    <3> QED BY <1>4, <2>1, <3>1, Zenon DEF Contract!CommitWitness
  <2> QED BY <2>2, <2>3, Zenon DEF Contract!Next
<1> QED BY <1>2, <1>3, <1>4, Zenon DEF Mutation

(* What a client sees of a journal that replays to this engine.            *)
LEMMA SeenOfReplay ==
  ASSUME NEW es, NEW s, ValidEngine(es, s)
  PROVE  /\ Replayed(es, s).entries = es
         /\ StateToWire(Replayed(es, s).state) = StateToWire(s)
  BY WireOnce DEF ValidEngine, Replayed

(* The writer in the middle of a mutation goes, and the file is left with  *)
(* or without the line: the mutation happened, or it did not.              *)
LEMMA LandsEitherWay ==
  ASSUME IInv, holder = "store", pc # "idle", holder' = "none",
         log' = Replay(file'.lines),
         file'.lines \in {before.lines, Append(before.lines, event)}
  PROVE  Contract!Next \/ UNCHANGED Contract!vars
<1>1. /\ InMemory(before.lines, before.entries, before.state)
      /\ InMemory(Append(before.lines, event), entries, state)
      /\ Mutation(before, entries, state)
  BY Zenon DEF IInv, Holding
<1>2. Visible = before /\ Visible' = log'
  BY DEF Visible
<1>3. CASE file'.lines = before.lines
  <2>1. /\ Visible'.entries = before.entries
        /\ StateToWire(Visible'.state) = StateToWire(before.state)
    <3>1. /\ ValidEngine(before.entries, before.state)
          /\ Visible' = Replayed(before.entries, before.state)
      BY <1>1, <1>2, <1>3, Zenon DEF InMemory
    <3>2. LET r == Replayed(before.entries, before.state) IN
          r.entries = before.entries
          /\ StateToWire(r.state) = StateToWire(before.state)
      BY <3>1, SeenOfReplay, Zenon
    <3> QED BY <3>1, <3>2, Zenon
  <2> QED BY <1>2, <2>1, Unseen
<1>4. CASE file'.lines = Append(before.lines, event)
  <2>1. /\ Visible'.entries = entries
        /\ StateToWire(Visible'.state) = StateToWire(state)
    <3>1. ValidEngine(entries, state) /\ Visible' = Replayed(entries, state)
      BY <1>1, <1>2, <1>4, Zenon DEF InMemory
    <3>2. LET r == Replayed(entries, state) IN
          r.entries = entries /\ StateToWire(r.state) = StateToWire(state)
      BY <3>1, SeenOfReplay, Zenon
    <3> QED BY <3>1, <3>2, Zenon
  <2>2. ValidEngine(before.entries, before.state)
    BY <1>1, ZenonT(20) DEF InMemory
  <2> QED BY <1>1, <1>2, <2>1, <2>2, Seen, ZenonT(20)
<1> QED BY <1>3, <1>4

(* An idle writer goes and the file keeps its lines.                       *)
LEMMA LandsIdle ==
  ASSUME IInv, holder = "store", pc = "idle", holder' = "none",
         log' = Replay(file'.lines), file'.lines = file.lines
  PROVE  UNCHANGED Contract!vars
<1>1. InMemory(file.lines, entries, state)
  BY Zenon DEF IInv, Holding
<1>2. Visible = [entries |-> entries, state |-> state] /\ Visible' = log'
  BY DEF Visible
<1>3. /\ Visible'.entries = entries
      /\ StateToWire(Visible'.state) = StateToWire(state)
  <2>1. ValidEngine(entries, state) /\ Visible' = Replayed(entries, state)
    BY <1>1, <1>2, Zenon DEF InMemory
  <2>2. LET r == Replayed(entries, state) IN
        r.entries = entries /\ StateToWire(r.state) = StateToWire(state)
    BY <2>1, SeenOfReplay, Zenon
  <2> QED BY <2>1, <2>2, Zenon
<1>4. Visible.entries = entries /\ Visible.state = state
  BY <1>2
<1> QED BY <1>3, <1>4, Unseen

(* Nobody has the store open, before or after, and the file keeps its      *)
(* lines but for the header: Init in any of its steps.                     *)
LEMMA InitUnseen ==
  ASSUME IInv, holder # "store", holder' # "store", log' = Replay(file'.lines),
         \/ file'.lines = file.lines
         \/ /\ holder = "init"
            /\ file'.lines \in {before.lines, Append(before.lines, event)}
  PROVE  UNCHANGED Contract!vars
<1>1. Visible = log /\ Visible' = log' /\ log = Replay(file.lines)
  BY DEF Visible, IInv
<1>2. CASE file'.lines = file.lines
  BY <1>1, <1>2, Unseen
<1>3. CASE /\ holder = "init"
           /\ file'.lines \in {before.lines, Append(before.lines, event)}
  <2>1. /\ before.lines = << >> /\ event = InitEvent /\ acked \in Seq(Events)
        /\ file.lines \in {before.lines, Append(before.lines, event)}
        /\ Good(before.lines, acked)
    BY <1>3, ZenonT(20) DEF IInv, TypeOK, Holding, Journalling
  <2>2. Replay(Append(<< >>, InitEvent)) = Replay(<< >>)
    BY <2>1, GoodHeader, ZenonT(20)
  <2>3. log' = log
    BY <1>1, <1>3, <2>1, <2>2
  <2> QED BY <1>1, <2>3, Unseen
<1> QED BY <1>2, <1>3

(* The writer keeps the store open and its mutation in progress.           *)
LEMMA MutationUnseen ==
  ASSUME holder = "store", pc # "idle", UNCHANGED <<holder, before>>, pc' # "idle"
  PROVE  UNCHANGED Contract!vars
<1>1. Visible = before /\ Visible' = before
  BY DEF Visible
<1> QED BY <1>1, Unseen

(* Opening, closing and crashing.                                          *)
LEMMA LifecycleRefines ==
  ASSUME IInv, Synced, log' = Replay(file'.lines),
         Open \/ InitRepair \/ InitHeader \/ Close \/ Kill \/ PowerLoss
  PROVE  Contract!Next \/ UNCHANGED Contract!vars
<1>1. /\ holder \in {"none", "store", "init"}
      /\ pc # "idle" => file.lines \in {before.lines, Append(before.lines, event)}
  BY ZenonT(20) DEF IInv, TypeOK, Journalling
<1>2. CASE Open
  <2>1. /\ Visible = log
        /\ Visible' = [entries |-> log.entries, state |-> log.state]
    BY <1>2 DEF Visible, Open, opVars, IInv, Holding
  <2>2. Visible'.entries = Visible.entries /\ Visible'.state = Visible.state
    BY <2>1
  <2> QED BY <2>2, Unseen
<1>3. CASE InitRepair \/ InitHeader
  <2>1. holder = "none" /\ holder' # "store" /\ file'.lines = file.lines
    <3>1. CASE InitRepair
      <4>1. /\ holder = "none" /\ file' = Image(file.lines)
            /\ holder' = holder \/ WriteHeader
        BY <3>1, Zenon DEF InitRepair
      <4>2. Image(file.lines).lines = file.lines
        BY DEF Image
      <4> QED BY <4>1, <4>2 DEF WriteHeader
    <3>2. CASE InitHeader
      BY <3>2 DEF InitHeader, WriteHeader, Image
    <3> QED BY <1>3, <3>1, <3>2
  <2> QED BY <2>1, InitUnseen
<1>4. CASE Close \/ Kill
  <2>1. holder' = "none" /\ file' = file
    BY <1>4 DEF Close, Kill, Released
  <2> QED BY <1>1, <2>1, LandsEitherWay, LandsIdle, InitUnseen, ZenonT(20)
<1>5. CASE PowerLoss
  <2>1. /\ holder' = "none" /\ file' \in disk /\ faults = {"power"}
    BY <1>5 DEF PowerLoss, Released, Synced
  <2>2. IF pc \in {"idle", "write"} THEN file'.lines = file.lines
        ELSE file'.lines \in {before.lines, Append(before.lines, event)}
    BY <2>1, ZenonT(20) DEF IInv, Near
  <2>3. holder = "none" => pc = "idle"
    BY ZenonT(20) DEF IInv, Holding
  <2>4. holder = "init" => pc # "idle"
    BY ZenonT(20) DEF IInv, Holding
  <2>5. CASE pc = "idle"
    <3>1. holder = "none" \/ holder = "store"
      BY <1>1, <2>4, <2>5, ZenonT(20)
    <3> QED BY <2>1, <2>2, <2>5, <3>1, LandsIdle, InitUnseen, ZenonT(20)
  <2>6. CASE pc # "idle"
    <3>1. holder = "init" \/ holder = "store"
      BY <1>1, <2>3, <2>6
    <3>2. file'.lines \in {before.lines, Append(before.lines, event)}
      BY <1>1, <2>2, <2>6
    <3> QED BY <2>1, <2>6, <3>1, <3>2, LandsEitherWay, InitUnseen
  <2> QED BY <2>5, <2>6
<1> QED BY <1>2, <1>3, <1>4, <1>5

(* A mutation begins: nobody sees it yet.                                  *)
LEMMA BeginRefines ==
  ASSUME NEW e, Begin(e)
  PROVE  UNCHANGED Contract!vars
<1>1. /\ Visible = [entries |-> entries, state |-> state]
      /\ Visible' = [entries |-> entries, state |-> state, lines |-> file.lines]
  BY DEF Visible, Begin
<1>2. Visible'.entries = Visible.entries /\ Visible'.state = Visible.state
  BY <1>1
<1> QED BY <1>2, Unseen

(* An operation that fails and leaves the store open was never seen.       *)
LEMMA FailedRefines ==
  ASSUME IInv, pc # "idle", Failed, log' = Replay(file'.lines),
         file'.lines = before.lines
  PROVE  UNCHANGED Contract!vars
<1>1. CASE holder = "init"
  <2>1. holder' # "store"
    BY <1>1 DEF Failed, Released
  <2> QED BY <1>1, <2>1, InitUnseen
<1>2. CASE holder # "init"
  <2>1. holder = "store"
    BY <1>2, Zenon DEF IInv, TypeOK, Holding
  <2>2. /\ Visible = before
        /\ Visible' = [entries |-> before.entries, state |-> before.state]
    BY <1>2, <2>1 DEF Visible, Failed, Restore
  <2>3. Visible'.entries = Visible.entries /\ Visible'.state = Visible.state
    BY <2>2
  <2> QED BY <2>3, Unseen
<1> QED BY <1>1, <1>2

(* The steps that journal a mutation.                                      *)
LEMMA JournalRefines ==
  ASSUME IInv, log' = Replay(file'.lines),
         \/ Unencodable \/ WriteSome \/ WriteLine \/ WriteOrSyncFails
         \/ SyncSucceeds \/ Rollback \/ RollbackFails
  PROVE  Contract!Next \/ UNCHANGED Contract!vars
<1> DEFINE more == Append(before.lines, event)
<1>1. /\ pc # "idle" /\ holder \in {"store", "init"}
      /\ file.lines \in {before.lines, more}
  <2>1. pc # "idle"
    BY DEF Unencodable, WriteSome, WriteLine, WriteOrSyncFails, SyncSucceeds,
           Rollback, RollbackFails
  <2> QED BY <2>1, ZenonT(20) DEF IInv, TypeOK, Holding, Journalling
<1>2. CASE Unencodable
  <2>1. file'.lines = before.lines /\ Failed
    BY <1>2, ZenonT(20) DEF Unencodable, IInv, Journalling
  <2> QED BY <1>1, <2>1, FailedRefines
<1>3. CASE WriteSome \/ WriteLine \/ WriteOrSyncFails
  <2>1. /\ UNCHANGED <<holder, before>> /\ pc' # "idle"
        /\ file'.lines \in {before.lines, more}
    <3>1. CASE WriteSome
      BY <3>1 DEF WriteSome, opVars, Torn
    <3>2. CASE WriteLine
      BY <3>2 DEF WriteLine, Image
    <3>3. CASE WriteOrSyncFails
      BY <1>1, <3>3 DEF WriteOrSyncFails
    <3> QED BY <1>3, <3>1, <3>2, <3>3
  <2> QED BY <1>1, <2>1, MutationUnseen, InitUnseen, ZenonT(20)
<1>4. CASE SyncSucceeds
  <2>1. CASE holder = "init"
    <3>1. holder' # "store" /\ file'.lines = file.lines
      BY <1>4, <2>1 DEF SyncSucceeds, Released
    <3> QED BY <2>1, <3>1, InitUnseen
  <2>2. CASE holder = "store"
    <3>1. /\ Visible = before
          /\ Visible' = [entries |-> entries, state |-> state]
      BY <1>4, <2>2 DEF Visible, SyncSucceeds, engineVars
    <3>2. Visible'.entries = entries /\ Visible'.state = state
      BY <3>1
    <3>3. Mutation(before, entries, state)
          /\ ValidEngine(before.entries, before.state)
      BY <1>1, <2>2, ZenonT(20) DEF IInv, Holding, InMemory
    <3> QED BY <3>1, <3>2, <3>3, Seen
  <2> QED BY <1>1, <2>1, <2>2
<1>5. CASE Rollback
  <2>1. file'.lines = before.lines /\ Failed
    BY <1>5 DEF Rollback, Image
  <2> QED BY <1>1, <2>1, FailedRefines
<1>6. CASE RollbackFails
  <2>1. holder' = "none" /\ file'.lines \in {before.lines, more}
    <3>1. holder' = "none" /\ file' \in {Image(before.lines), file}
      BY <1>6 DEF RollbackFails, Released
    <3>2. Image(before.lines).lines = before.lines
      BY DEF Image
    <3> QED BY <1>1, <3>1, <3>2
  <2> QED BY <1>1, <2>1, LandsEitherWay, InitUnseen
<1> QED BY <1>2, <1>3, <1>4, <1>5, <1>6

(* Every step is one of the engine, or is not seen.                        *)
LEMMA StepRefines ==
  ASSUME IInv, [Next]_vars, Synced
  PROVE  Contract!Next \/ UNCHANGED Contract!vars
<1>1. CASE UNCHANGED vars
  <2>1. Visible' = Visible
    BY <1>1 DEF vars, engineVars, opVars, Visible
  <2> QED BY <2>1, Unseen
<1>2. CASE Next
  <2>1. Step /\ log' = Replay(file'.lines)
    BY <1>2 DEF Next
  <2>2. CASE Open \/ InitRepair \/ InitHeader \/ Close \/ Kill \/ PowerLoss
    BY <2>1, <2>2, LifecycleRefines
  <2>3. CASE \E v \in Value, t \in AppendTime : BeginAppend(v, t)
    BY <2>3, BeginRefines DEF BeginAppend
  <2>4. CASE \E v \in Value : AppendIdempotent(v)
    <3>1. UNCHANGED <<holder, pc, entries, state>> /\ holder = "store" /\ pc = "idle"
      BY <2>4 DEF AppendIdempotent, engineVars, opVars
    <3>2. Visible' = Visible
      BY <3>1 DEF Visible
    <3> QED BY <3>2, Unseen
  <2>5. CASE \E size \in {MMRSize[n] : n \in 0..MaxSeq},
                bytes \in {s.checkpoint.bytes : s \in CLLInput},
                next \in CLLInput : BeginCommitCLL(size, bytes, next)
    BY <2>5, BeginRefines, ZenonT(20) DEF BeginCommitCLL
  <2>6. CASE \E attempts \in {w.attempts : w \in WitnessInput},
                next \in WitnessInput : BeginCommitWitness(attempts, next)
    BY <2>6, BeginRefines DEF BeginCommitWitness
  <2>7. CASE \/ Unencodable \/ WriteSome \/ WriteLine \/ WriteOrSyncFails
             \/ SyncSucceeds \/ Rollback \/ RollbackFails
    BY <2>1, <2>7, JournalRefines
  <2> QED BY <2>1, <2>2, <2>3, <2>4, <2>5, <2>6, <2>7, ZenonT(20) DEF Step
<1> QED BY <1>1, <1>2

(* Through failed writes, rollbacks, crashes and reopening the store       *)
(* behaves as the engine: a mutation that is not answered happens          *)
(* completely or not at all.                                               *)
THEOREM JournalImplementsEngine == Spec => ImplementsEngine
<1>1. Init => (Synced => Contract!Init)
  <2> SUFFICES ASSUME Init PROVE Contract!Init
    OBVIOUS
  <2>1. Visible = log /\ log = Replay(<< >>)
    BY DEF Init, Visible, Image
  <2>2. Visible.entries = << >> /\ Visible.state = New
    BY <2>1, ReplayNothing
  <2>3. StateToWire(New) = New
    BY NewStored
  <2>4. {<<i, Visible.entries[i]>> : i \in 1..Len(Visible.entries)} = {}
    BY <2>2
  <2> QED BY <2>2, <2>3, <2>4, Zenon
          DEF Contract!Init, Contract!New, New, Contract!NoCheckpoint,
              NoCheckpoint, Contract!NoTime, NoTime
<1>2. IInv /\ [Next]_vars =>
        [Synced => Contract!Next \/ UNCHANGED Contract!vars]_vars
  BY StepRefines
<1> QED BY <1>1, <1>2, Invariant, PTL DEF Spec, ImplementsEngine
=============================================================================

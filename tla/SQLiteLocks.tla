------------------------------ MODULE SQLiteLocks ------------------------------
(***************************************************************************)
(* An inductive invariant of the SQLite backend's locks, for any number of *)
(* processes, clients and handles, and any calls.                          *)
(***************************************************************************)
EXTENDS SQLite, TLAPS

-----------------------------------------------------------------------------
(* The invariant.                                                          *)

Label ==
  {"idle", "drain", "lock", "close", "create", "insert log", "begin", "operate",
   "commit"} \cup Loading

LockTypes ==
  /\ deployed \in Deployment
  /\ items \in [Process -> Lock \cup {NoLock}]
  /\ refs \in [Lock -> Nat]
  /\ mu \in [Lock -> Client \cup {NoClient}]
  /\ handle \in [Handle -> [state : {"closed", "opening", "open"},
                            lock : Lock \cup {NoLock}]]
  /\ pc \in [Client -> Label]
  /\ call \in [Client -> Call \cup {NoCall}]
  /\ on \in [Client -> Handle \cup {NoHandle}]

(* A handle in use has its process's lock.                                 *)
HandlesHaveLocks ==
  \A h \in Handle :
    IF handle[h].state = "closed" THEN handle[h].lock = NoLock
    ELSE items[Home(h)] # NoLock /\ handle[h].lock = items[Home(h)]

(* Processes have different locks.                                         *)
LocksApart ==
  \A p, q \in Process : p # q /\ items[p] # NoLock => items[p] # items[q]

(* A lock that is in no table is not referred to.                          *)
UnusedLocks ==
  \A l \in Lock : (\A p \in Process : items[p] # l) => refs[l] = 0

(* A call is on a handle of its process, which is there while the call     *)
(* runs; an open has a handle of its own.                                  *)
AtHome(c) ==
  /\ pc[c] = "idle" <=> on[c] = NoHandle
  /\ on[c] # NoHandle => Home(on[c]) = Home(c)
  /\ pc[c] \notin {"idle", "drain"} => handle[on[c]].state # "closed"
  /\ pc[c] = "close" => call[c].op = "close"
  /\ pc[c] # "idle" /\ call[c].op \in Opening =>
       pc[c] # "drain" /\ handle[on[c]].state = "opening"

CallsAtHome == \A c \in Client : AtHome(c)

(* What lifecycle is for: while a call opens or closes a handle no other   *)
(* call is on it, except a Close that waits.                               *)
Exclusive ==
  \A c \in Client :
    pc[c] \notin {"idle", "drain"} /\ call[c].op \in Opening \cup {"close"} =>
      \A d \in Client \ {c} : on[d] = on[c] => pc[d] = "drain"

(* A call in its transaction holds its handle's lock.                      *)
HoldsLock == \A c \in Client : InTransaction(c) => mu[Shared(c)] = c

LInv ==
  /\ LockTypes /\ HandlesHaveLocks /\ LocksApart /\ UnusedLocks
  /\ CallsAtHome /\ Exclusive /\ HoldsLock /\ LockTableExact

(* What the proofs use of Cardinality.                                     *)
HandleCounts ==
  \A S \in SUBSET Handle, h \in Handle :
    /\ Cardinality(S) \in Nat /\ (Cardinality(S) = 0 <=> S = {})
    /\ h \notin S => Cardinality(S \cup {h}) = Cardinality(S) + 1
    /\ h \in S => Cardinality(S \ {h}) = Cardinality(S) - 1

-----------------------------------------------------------------------------
(* Facts about the deployment and the labels.                              *)

LEMMA HomeType ==
  ASSUME deployed \in Deployment
  PROVE  /\ \A x \in Client \cup Handle : Home(x) \in Process
         /\ \A c \in Client : Calls(c) \subseteq Call
  BY CallAssumption DEF Home, Calls

LEMMA CloseCall == [op |-> "close"] \in Call
  BY DEF Call

-----------------------------------------------------------------------------
(* Steps that leave the lock table alone.                                  *)

LEMMA SameTable ==
  ASSUME HandlesHaveLocks, LocksApart, UnusedLocks, LockTableExact,
         deployed' = deployed, items' = items, refs' = refs, handle' = handle
  PROVE  HandlesHaveLocks' /\ LocksApart' /\ UnusedLocks' /\ LockTableExact'
<1>1. HandlesHaveLocks' /\ LocksApart' /\ UnusedLocks'
  BY DEF HandlesHaveLocks, LocksApart, UnusedLocks, Home
<1>2. \A p \in Process : Live(p)' = Live(p)
  BY DEF Live, Home
<1>3. LockTableExact'
  BY <1>2 DEF LockTableExact
<1> QED BY <1>1, <1>3

(* A client that is not concerned stays where it is.                       *)
LEMMA SameClient ==
  ASSUME NEW d, AtHome(d), deployed' = deployed,
         pc'[d] = pc[d], on'[d] = on[d], call'[d] = call[d],
         pc[d] \notin {"idle", "drain"} => handle'[on[d]] = handle[on[d]]
  PROVE  AtHome(d)'
<1>1. Home(on[d])' = Home(on[d]) /\ Home(d)' = Home(d)
  BY DEF Home
<1> QED BY <1>1 DEF AtHome

(* A statement of a transaction.                                           *)
LEMMA StatementLInv ==
  ASSUME LInv, NEW c \in Client, InTransaction(c), pc[c] # "close",
         NEW label \in Label \ {"idle", "drain", "lock", "close"}, Goes(c, label),
         UNCHANGED <<deployed, mu, tableVars, call, on>>
  PROVE  LInv'
<1>1. /\ pc' = [pc EXCEPT ![c] = label] /\ deployed' = deployed /\ mu' = mu
      /\ items' = items /\ refs' = refs /\ handle' = handle
      /\ call' = call /\ on' = on
  BY DEF Goes, tableVars
<1>2. pc \in [Client -> Label] /\ pc[c] \notin {"idle", "drain", "lock", "close"}
  BY DEF LInv, LockTypes, InTransaction
<1>3. LockTypes'
  BY <1>1, <1>2 DEF LInv, LockTypes
<1>4. HandlesHaveLocks' /\ LocksApart' /\ UnusedLocks' /\ LockTableExact'
  BY <1>1, SameTable DEF LInv
<1>5. CallsAtHome'
  BY <1>1, <1>2 DEF LInv, CallsAtHome, AtHome, Home
<1>6. Exclusive'
  BY <1>1, <1>2 DEF LInv, Exclusive
<1>7. HoldsLock'
  BY <1>1, <1>2 DEF LInv, HoldsLock, InTransaction, Shared
<1> QED BY <1>3, <1>4, <1>5, <1>6, <1>7 DEF LInv

(* A call ends and leaves its handle as it is.                             *)
LEMMA EndsLInv ==
  ASSUME LInv, NEW c \in Client, Ends(c), UNCHANGED <<deployed, tableVars>>
  PROVE  LInv'
<1>1. /\ pc' = [pc EXCEPT ![c] = "idle"] /\ deployed' = deployed
      /\ items' = items /\ refs' = refs /\ handle' = handle
      /\ call' = [call EXCEPT ![c] = NoCall] /\ on' = [on EXCEPT ![c] = NoHandle]
      /\ mu' = [l \in Lock |-> IF mu[l] = c THEN NoClient ELSE mu[l]]
  BY DEF Ends, Goes, tableVars
<1>2. /\ pc \in [Client -> Label] /\ on \in [Client -> Handle \cup {NoHandle}]
      /\ call \in [Client -> Call \cup {NoCall}] /\ "idle" \in Label
      /\ mu \in [Lock -> Client \cup {NoClient}]
  BY DEF LInv, LockTypes, Label
<1>3. LockTypes'
  BY <1>1, <1>2 DEF LInv, LockTypes
<1>4. HandlesHaveLocks' /\ LocksApart' /\ UnusedLocks' /\ LockTableExact'
  BY <1>1, SameTable DEF LInv
<1>5. CallsAtHome'
  BY <1>1, <1>2 DEF LInv, CallsAtHome, AtHome, Home
<1>6. Exclusive'
  BY <1>1, <1>2, CallAssumption DEF LInv, Exclusive, CallsAtHome, AtHome
<1>7. HoldsLock'
  <2> SUFFICES ASSUME NEW d \in Client, InTransaction(d)' PROVE mu'[Shared(d)'] = d
    BY DEF HoldsLock
  <2>1. d # c /\ InTransaction(d) /\ Shared(d)' = Shared(d) /\ on[d] \in Handle
    BY <1>1, <1>2 DEF InTransaction, Shared, LInv, CallsAtHome, AtHome
  <2>2. mu[Shared(d)] = d /\ Shared(d) \in Lock
    <3>1. handle[on[d]].state # "closed"
      BY <2>1 DEF LInv, CallsAtHome, AtHome, InTransaction
    <3>2. Home(on[d]) \in Process
      BY <2>1, HomeType DEF LInv, LockTypes
    <3> QED BY <2>1, <3>1, <3>2
            DEF LInv, HoldsLock, HandlesHaveLocks, LockTypes, Shared
  <2> QED BY <1>1, <2>1, <2>2
<1> QED BY <1>3, <1>4, <1>5, <1>6, <1>7 DEF LInv

-----------------------------------------------------------------------------
(* The lock table itself.                                                  *)

(* acquireShared finds a lock that no other process has.                   *)
LEMMA LockFound ==
  ASSUME LInv, NEW p \in Process
  PROVE  \E l \in Lock :
           /\ l = IF items[p] # NoLock THEN items[p] ELSE CHOOSE f \in Fresh : TRUE
           /\ \A q \in Process \ {p} : items[q] # l
           /\ items[p] = NoLock => \A q \in Process : items[q] # l
<1>1. CASE items[p] # NoLock
  BY <1>1 DEF LInv, LockTypes, LocksApart
<1>2. CASE items[p] = NoLock
  <2>1. PICK f \in Lock : \A q \in Process : items[q] # f
    BY <1>2, LockAssumption DEF LInv, LockTypes
  <2>2. f \in Fresh
    <3> SUFFICES ASSUME NEW h \in Handle PROVE handle[h].lock # f
      BY <2>1 DEF Fresh
    <3>1. Home(h) \in Process
      BY HomeType DEF LInv, LockTypes
    <3> QED BY <2>1, <3>1, CallAssumption DEF LInv, HandlesHaveLocks
  <2>3. (CHOOSE g \in Fresh : TRUE) \in Fresh
    BY <2>2
  <2> QED BY <1>2, <2>3 DEF Fresh
<1> QED BY <1>1, <1>2

(* acquireShared counts the handle.                                        *)
LEMMA AcquireTable ==
  ASSUME HandleCounts, LInv, NEW h \in Handle, handle[h].state = "closed", acquireShared(h),
         deployed' = deployed
  PROVE  /\ items' \in [Process -> Lock \cup {NoLock}]
         /\ refs' \in [Lock -> Nat]
         /\ \E l \in Lock :
              handle' = [handle EXCEPT ![h] = [state |-> "opening", lock |-> l]]
         /\ HandlesHaveLocks' /\ LocksApart' /\ UnusedLocks' /\ LockTableExact'
<1>1. PICK p \in Process : p = Home(h) /\ \A g \in Handle : Home(g) \in Process
  BY HomeType DEF LInv, LockTypes
<1>2. PICK l \in Lock :
        /\ l = IF items[p] # NoLock THEN items[p] ELSE CHOOSE f \in Fresh : TRUE
        /\ \A q \in Process \ {p} : items[q] # l
        /\ items[p] = NoLock => \A q \in Process : items[q] # l
  BY <1>1, LockFound
<1>3. /\ items' = [items EXCEPT ![p] = l]
      /\ refs' = [refs EXCEPT ![l] = @ + 1]
      /\ handle' = [handle EXCEPT ![h] = [state |-> "opening", lock |-> l]]
  BY <1>1, <1>2 DEF acquireShared
<1>4. /\ items \in [Process -> Lock \cup {NoLock}] /\ refs \in [Lock -> Nat]
      /\ handle \in [Handle -> [state : {"closed", "opening", "open"},
                                lock : Lock \cup {NoLock}]]
      /\ NoLock \notin Lock
  BY CallAssumption DEF LInv, LockTypes
<1>5. \A x : Home(x)' = Home(x)
  BY DEF Home
<1>6. items' \in [Process -> Lock \cup {NoLock}] /\ refs' \in [Lock -> Nat]
  BY <1>1, <1>3, <1>4
<1>7. HandlesHaveLocks'
  <2> SUFFICES ASSUME NEW g \in Handle
               PROVE  IF handle'[g].state = "closed" THEN handle'[g].lock = NoLock
                      ELSE items'[Home(g)] # NoLock /\ handle'[g].lock = items'[Home(g)]
    BY <1>5 DEF HandlesHaveLocks
  <2>1. CASE g = h
    BY <1>1, <1>3, <1>4, <2>1
  <2>2. CASE g # h
    BY <1>1, <1>2, <1>3, <1>4, <2>2 DEF LInv, HandlesHaveLocks
  <2> QED BY <2>1, <2>2
<1>8. LocksApart'
  BY <1>1, <1>2, <1>3, <1>4 DEF LInv, LocksApart
<1>9. UnusedLocks'
  BY <1>1, <1>2, <1>3, <1>4 DEF LInv, UnusedLocks
<1>10. LockTableExact'
  <2> SUFFICES ASSUME NEW q \in Process
               PROVE  IF Live(q)' = {} THEN items'[q] = NoLock
                      ELSE /\ items'[q] # NoLock
                           /\ refs'[items'[q]] = Cardinality(Live(q)')
                           /\ \A g \in Live(q)' : handle'[g].lock = items'[q]
    BY DEF LockTableExact
  <2>1. CASE q = p
    <3>1. Live(p)' = Live(p) \cup {h} /\ h \notin Live(p)
      BY <1>1, <1>3, <1>4, <1>5 DEF Live
    <3>2. Live(p) \subseteq Handle
      BY DEF Live
    <3>3. Cardinality(Live(p)') = Cardinality(Live(p)) + 1
      BY <3>1, <3>2 DEF HandleCounts
    <3>4. refs[l] = Cardinality(Live(p))
      <4>1. CASE items[p] = NoLock
        <5>1. refs[l] = 0 /\ Live(p) = {}
          BY <1>1, <1>2, <4>1 DEF LInv, UnusedLocks, LockTableExact
        <5> QED BY <3>2, <5>1 DEF HandleCounts
      <4>2. CASE items[p] # NoLock
        BY <1>1, <1>2, <4>2 DEF LInv, LockTableExact
      <4> QED BY <4>1, <4>2
    <3>5. \A g \in Live(p)' : handle'[g].lock = l
      <4> SUFFICES ASSUME NEW g \in Live(p), g # h PROVE handle[g].lock = l
        BY <1>3, <1>4, <3>1 DEF Live
      <4> QED BY <1>1, <1>2 DEF LInv, LockTableExact
    <3>6. items'[q] = l /\ refs'[l] = refs[l] + 1
      BY <1>1, <1>3, <1>4, <2>1
    <3>7. Live(q)' # {} /\ l # NoLock
      BY <1>4, <2>1, <3>1
    <3> QED BY <2>1, <3>3, <3>4, <3>5, <3>6, <3>7
  <2>2. CASE q # p
    <3>1. Live(q)' = Live(q) /\ h \notin Live(q)
      BY <1>1, <1>3, <1>4, <1>5, <2>2 DEF Live
    <3>2. items'[q] = items[q] /\ items[q] # l
      BY <1>2, <1>3, <1>4, <2>2
    <3>3. \A g \in Live(q) : handle'[g] = handle[g]
      BY <1>3, <1>4, <3>1 DEF Live
    <3> QED BY <1>3, <1>4, <3>1, <3>2, <3>3 DEF LInv, LockTableExact
  <2> QED BY <2>1, <2>2
<1> QED BY <1>3, <1>6, <1>7, <1>8, <1>9, <1>10

(* releaseShared takes the handle out of the count.                        *)
LEMMA ReleaseTable ==
  ASSUME HandleCounts, LInv, NEW h \in Handle, handle[h].state # "closed", releaseShared(h),
         handle' = [handle EXCEPT ![h] = NotOpen], deployed' = deployed
  PROVE  /\ items' \in [Process -> Lock \cup {NoLock}]
         /\ refs' \in [Lock -> Nat]
         /\ HandlesHaveLocks' /\ LocksApart' /\ UnusedLocks' /\ LockTableExact'
<1>1. PICK p \in Process : p = Home(h) /\ \A g \in Handle : Home(g) \in Process
  BY HomeType DEF LInv, LockTypes
<1>2. /\ items \in [Process -> Lock \cup {NoLock}] /\ refs \in [Lock -> Nat]
      /\ handle \in [Handle -> [state : {"closed", "opening", "open"},
                                lock : Lock \cup {NoLock}]]
      /\ NoLock \notin Lock
  BY CallAssumption DEF LInv, LockTypes
<1>3. PICK l \in Lock : l = items[p] /\ \A q \in Process \ {p} : items[q] # l
  BY <1>1, <1>2 DEF LInv, HandlesHaveLocks, LocksApart
<1>4. /\ refs' = [refs EXCEPT ![l] = @ - 1]
      /\ items' = [items EXCEPT ![p] = IF refs[l] = 1 THEN NoLock ELSE @]
  BY <1>1, <1>3 DEF releaseShared
<1>5. \A x : Home(x)' = Home(x)
  BY DEF Home
<1>6. /\ Live(p)' = Live(p) \ {h} /\ h \in Live(p)
      /\ \A q \in Process \ {p} : Live(q)' = Live(q) /\ h \notin Live(q)
  BY <1>1, <1>2, <1>5 DEF Live, NotOpen
<1>7. /\ refs[l] = Cardinality(Live(p)) /\ refs[l] \in Nat \ {0}
      /\ Cardinality(Live(p)') = refs[l] - 1
      /\ Live(p)' = {} <=> refs[l] = 1
  <2>1. refs[l] = Cardinality(Live(p)) /\ Live(p) \subseteq Handle
    BY <1>1, <1>3, <1>6 DEF LInv, LockTableExact, Live
  <2>2. Live(p) \ {h} \subseteq Handle
    BY <2>1
  <2>3. /\ Cardinality(Live(p)) \in Nat \ {0}
        /\ Cardinality(Live(p) \ {h}) = Cardinality(Live(p)) - 1
    BY <1>6, <2>1 DEF HandleCounts
  <2>4. Live(p) \ {h} = {} <=> Cardinality(Live(p) \ {h}) = 0
    BY <2>2 DEF HandleCounts
  <2> QED BY <1>6, <2>1, <2>3, <2>4
<1>8. items' \in [Process -> Lock \cup {NoLock}] /\ refs' \in [Lock -> Nat]
  BY <1>1, <1>2, <1>3, <1>4, <1>7
<1>9. /\ items'[p] = IF refs[l] = 1 THEN NoLock ELSE l
      /\ \A q \in Process \ {p} : items'[q] = items[q]
      /\ refs'[l] = refs[l] - 1
      /\ \A m \in Lock \ {l} : refs'[m] = refs[m]
  BY <1>1, <1>2, <1>3, <1>4
<1>10. HandlesHaveLocks'
  <2> SUFFICES ASSUME NEW g \in Handle
               PROVE  IF handle'[g].state = "closed" THEN handle'[g].lock = NoLock
                      ELSE items'[Home(g)] # NoLock /\ handle'[g].lock = items'[Home(g)]
    BY <1>5 DEF HandlesHaveLocks
  <2>1. CASE g = h
    BY <1>2, <2>1 DEF NotOpen
  <2>2. CASE g # h /\ handle[g].state = "closed"
    BY <1>2, <2>2 DEF LInv, HandlesHaveLocks
  <2>3. CASE g # h /\ handle[g].state # "closed"
    <3>1. handle'[g] = handle[g] /\ g \in Live(Home(g))
      BY <1>2, <2>3 DEF Live
    <3>2. items'[Home(g)] = items[Home(g)]
      <4>1. CASE Home(g) = p
        <5>1. Live(p)' # {}
          BY <1>6, <2>3, <3>1, <4>1
        <5> QED BY <1>3, <1>7, <1>9, <4>1, <5>1
      <4>2. CASE Home(g) # p
        BY <1>1, <1>9, <4>2
      <4> QED BY <4>1, <4>2
    <3> QED BY <2>3, <3>1, <3>2 DEF LInv, HandlesHaveLocks
  <2> QED BY <2>1, <2>2, <2>3
<1>11. LocksApart'
  BY <1>1, <1>2, <1>3, <1>9 DEF LInv, LocksApart
<1>12. UnusedLocks'
  <2> SUFFICES ASSUME NEW m \in Lock, \A q \in Process : items'[q] # m
               PROVE  refs'[m] = 0
    BY DEF UnusedLocks
  <2>1. CASE m = l
    BY <1>1, <1>7, <1>9, <2>1
  <2>2. CASE m # l
    <3>1. \A q \in Process : items[q] # m
      BY <1>3, <1>9, <2>2
    <3> QED BY <1>9, <2>2, <3>1 DEF LInv, UnusedLocks
  <2> QED BY <2>1, <2>2
<1>13. LockTableExact'
  <2> SUFFICES ASSUME NEW q \in Process
               PROVE  IF Live(q)' = {} THEN items'[q] = NoLock
                      ELSE /\ items'[q] # NoLock
                           /\ refs'[items'[q]] = Cardinality(Live(q)')
                           /\ \A g \in Live(q)' : handle'[g].lock = items'[q]
    BY DEF LockTableExact
  <2>1. CASE q = p
    <3>1. CASE refs[l] = 1
      BY <1>7, <1>9, <2>1, <3>1
    <3>2. CASE refs[l] # 1
      <4>1. items'[p] = l /\ l # NoLock /\ Live(p)' # {}
        BY <1>2, <1>3, <1>7, <1>9, <3>2
      <4>2. \A g \in Live(p)' : handle'[g].lock = l
        <5> SUFFICES ASSUME NEW g \in Live(p), g # h PROVE handle[g].lock = l
          BY <1>2, <1>6 DEF Live
        <5> QED BY <1>1, <1>3, <1>6 DEF LInv, LockTableExact
      <4> QED BY <1>7, <1>9, <2>1, <4>1, <4>2
    <3> QED BY <3>1, <3>2
  <2>2. CASE q # p
    <3>1. Live(q)' = Live(q) /\ items'[q] = items[q] /\ items[q] # l
      BY <1>3, <1>6, <1>9, <2>2
    <3>2. \A g \in Live(q) : handle'[g] = handle[g]
      BY <1>2, <1>6, <2>2 DEF Live
    <3>3. items[q] # NoLock => refs'[items[q]] = refs[items[q]]
      BY <1>2, <1>9, <3>1
    <3> QED BY <3>1, <3>2, <3>3 DEF LInv, LockTableExact
  <2> QED BY <2>1, <2>2
<1> QED BY <1>8, <1>10, <1>11, <1>12, <1>13

-----------------------------------------------------------------------------
(* Steps that begin calls.                                                 *)

(* A lock in use is a lock of the call's handle.                           *)
LEMMA SharedLock ==
  ASSUME LInv, NEW c \in Client, pc[c] \notin {"idle", "drain"}
  PROVE  /\ on[c] \in Handle /\ handle[on[c]].state # "closed"
         /\ Home(on[c]) = Home(c) /\ Home(c) \in Process
         /\ Shared(c) = items[Home(c)] /\ Shared(c) \in Lock
<1>1. on[c] \in Handle /\ handle[on[c]].state # "closed" /\ Home(on[c]) = Home(c)
  BY DEF LInv, LockTypes, CallsAtHome, AtHome
<1>2. Home(c) \in Process
  BY HomeType DEF LInv, LockTypes
<1> QED BY <1>1, <1>2 DEF LInv, LockTypes, HandlesHaveLocks, Shared

LEMMA BeginFacts ==
  ASSUME LInv, NEW c \in Client, NEW h \in Handle, NEW k \in Call,
         NEW label \in Label, Begins(c, k, h, label)
  PROVE  /\ pc' = [pc EXCEPT ![c] = label] /\ call' = [call EXCEPT ![c] = k]
         /\ on' = [on EXCEPT ![c] = h] /\ mu' = mu /\ deployed' = deployed
         /\ pc' \in [Client -> Label] /\ call' \in [Client -> Call \cup {NoCall}]
         /\ on' \in [Client -> Handle \cup {NoHandle}]
<1>1. /\ pc' = [pc EXCEPT ![c] = label] /\ call' = [call EXCEPT ![c] = k]
      /\ on' = [on EXCEPT ![c] = h] /\ mu' = mu /\ deployed' = deployed
  BY DEF Begins, Goes, fileVars
<1>2. /\ pc \in [Client -> Label] /\ call \in [Client -> Call \cup {NoCall}]
      /\ on \in [Client -> Handle \cup {NoHandle}]
  BY DEF LInv, LockTypes
<1> QED BY <1>1, <1>2

LEMMA StartOpenLInv ==
  ASSUME HandleCounts, LInv, NEW c \in Client, NEW h \in Handle, StartOpen(c, h)
  PROVE  LInv'
<1>1. PICK k \in Call : k.op \in Opening /\ Begins(c, k, h, "lock")
  BY HomeType DEF StartOpen, LInv, LockTypes
<1>2. /\ pc[c] = "idle" /\ Home(h) = Home(c) /\ handle[h].state = "closed"
      /\ \A d \in Client : on[d] # h
      /\ acquireShared(h) /\ NoHandle \notin Handle
  BY CallAssumption DEF StartOpen
<1>3. /\ pc' = [pc EXCEPT ![c] = "lock"] /\ call' = [call EXCEPT ![c] = k]
      /\ on' = [on EXCEPT ![c] = h] /\ mu' = mu /\ deployed' = deployed
      /\ pc' \in [Client -> Label] /\ call' \in [Client -> Call \cup {NoCall}]
      /\ on' \in [Client -> Handle \cup {NoHandle}]
  BY <1>1, BeginFacts DEF Label
<1>4. /\ items' \in [Process -> Lock \cup {NoLock}] /\ refs' \in [Lock -> Nat]
      /\ HandlesHaveLocks' /\ LocksApart' /\ UnusedLocks' /\ LockTableExact'
  BY <1>2, <1>3, AcquireTable
<1>5. PICK l \in Lock :
        handle' = [handle EXCEPT ![h] = [state |-> "opening", lock |-> l]]
  BY <1>2, <1>3, AcquireTable
<1>6. /\ handle \in [Handle -> [state : {"closed", "opening", "open"},
                                lock : Lock \cup {NoLock}]]
      /\ pc \in [Client -> Label] /\ call \in [Client -> Call \cup {NoCall}]
      /\ on \in [Client -> Handle \cup {NoHandle}]
      /\ mu \in [Lock -> Client \cup {NoClient}] /\ deployed \in Deployment
  BY DEF LInv, LockTypes
<1>7. /\ handle' \in [Handle -> [state : {"closed", "opening", "open"},
                                 lock : Lock \cup {NoLock}]]
      /\ handle'[h].state = "opening"
      /\ \A g \in Handle \ {h} : handle'[g] = handle[g]
  BY <1>5, <1>6
<1>8. LockTypes'
  BY <1>3, <1>4, <1>6, <1>7 DEF LockTypes
<1>9. CallsAtHome'
  <2> SUFFICES ASSUME NEW d \in Client PROVE AtHome(d)'
    BY DEF CallsAtHome
  <2>0. AtHome(d)
    BY DEF LInv, CallsAtHome
  <2>1. CASE d = c
    BY <1>1, <1>2, <1>3, <1>6, <1>7, <2>1 DEF AtHome, Home
  <2>2. CASE d # c
    <3>1. pc'[d] = pc[d] /\ on'[d] = on[d] /\ call'[d] = call[d]
      BY <1>3, <1>6, <2>2
    <3>2. on[d] # NoHandle => handle'[on[d]] = handle[on[d]]
      BY <1>2, <1>6, <1>7
    <3>3. pc[d] # "idle" => on[d] # NoHandle
      BY <2>0 DEF AtHome
    <3> QED BY <1>3, <2>0, <3>1, <3>2, <3>3, SameClient
  <2> QED BY <2>1, <2>2
<1>10. Exclusive'
  <2> SUFFICES ASSUME NEW d \in Client, pc'[d] \notin {"idle", "drain"},
                      call'[d].op \in Opening \cup {"close"},
                      NEW e \in Client \ {d}, on'[e] = on'[d]
               PROVE  pc'[e] = "drain"
    BY DEF Exclusive
  <2>1. d # c /\ e # c
    BY <1>2, <1>3, <1>6
  <2>2. /\ pc'[d] = pc[d] /\ on'[d] = on[d] /\ call'[d] = call[d]
        /\ pc'[e] = pc[e] /\ on'[e] = on[e]
    BY <1>3, <1>6, <2>1
  <2> QED BY <2>2 DEF LInv, Exclusive
<1>11. HoldsLock'
  <2> SUFFICES ASSUME NEW d \in Client, InTransaction(d)'
               PROVE  mu'[Shared(d)'] = d
    BY DEF HoldsLock
  <2>1. d # c /\ InTransaction(d)
    BY <1>3, <1>6 DEF InTransaction
  <2>2. Shared(d)' = Shared(d)
    BY <1>2, <1>3, <1>6, <1>7, <2>1, SharedLock DEF Shared, InTransaction
  <2> QED BY <1>3, <2>1, <2>2 DEF LInv, HoldsLock
<1> QED BY <1>4, <1>8, <1>9, <1>10, <1>11 DEF LInv

(* A call on an open Store, or a Close.                                    *)
LEMMA StartOtherLInv ==
  ASSUME LInv, NEW c \in Client, NEW h \in Handle, NEW k \in Call,
         NEW label \in {"lock", "drain"}, Begins(c, k, h, label),
         pc[c] = "idle", Home(h) = Home(c), handle[h].state = "open",
         k.op \notin Opening, UNCHANGED tableVars,
         label = "lock" => /\ k.op # "close"
                           /\ \A d \in Client : on[d] = h => call[d].op # "close"
  PROVE  LInv'
<1>1. /\ pc' = [pc EXCEPT ![c] = label] /\ call' = [call EXCEPT ![c] = k]
      /\ on' = [on EXCEPT ![c] = h] /\ mu' = mu /\ deployed' = deployed
      /\ pc' \in [Client -> Label] /\ call' \in [Client -> Call \cup {NoCall}]
      /\ on' \in [Client -> Handle \cup {NoHandle}]
  BY BeginFacts DEF Label
<1>2. items' = items /\ refs' = refs /\ handle' = handle
  BY DEF tableVars
<1>3. /\ pc \in [Client -> Label] /\ call \in [Client -> Call \cup {NoCall}]
      /\ on \in [Client -> Handle \cup {NoHandle}] /\ NoHandle \notin Handle
  BY CallAssumption DEF LInv, LockTypes
<1>4. LockTypes'
  BY <1>1, <1>2 DEF LInv, LockTypes
<1>5. HandlesHaveLocks' /\ LocksApart' /\ UnusedLocks' /\ LockTableExact'
  BY <1>1, <1>2, SameTable DEF LInv
<1>6. CallsAtHome'
  BY <1>1, <1>2, <1>3 DEF LInv, CallsAtHome, AtHome, Home
<1>7. Exclusive'
  <2> SUFFICES ASSUME NEW d \in Client, pc'[d] \notin {"idle", "drain"},
                      call'[d].op \in Opening \cup {"close"},
                      NEW e \in Client \ {d}, on'[e] = on'[d]
               PROVE  pc'[e] = "drain"
    BY DEF Exclusive
  <2>1. d # c
    BY <1>1, <1>3
  <2>2. pc[d] \notin {"idle", "drain"} /\ call[d].op \in Opening \cup {"close"}
    BY <1>1, <1>3, <2>1
  <2>3. CASE e # c
    BY <1>1, <1>3, <2>1, <2>2, <2>3 DEF LInv, Exclusive
  <2>4. CASE e = c
    <3>1. on[d] = h
      BY <1>1, <1>3, <2>1, <2>4
    <3>2. call[d].op = "close"
      BY <2>2, <3>1 DEF LInv, CallsAtHome, AtHome
    <3> QED BY <1>1, <1>3, <2>4, <3>1, <3>2
  <2> QED BY <2>3, <2>4
<1>8. HoldsLock'
  BY <1>1, <1>2, <1>3 DEF LInv, HoldsLock, InTransaction, Shared
<1> QED BY <1>4, <1>5, <1>6, <1>7, <1>8 DEF LInv

-----------------------------------------------------------------------------
(* Steps that change a handle, take its lock or give it up.                *)

LEMMA EndFacts ==
  ASSUME LInv, NEW c \in Client, Ends(c)
  PROVE  /\ pc' = [pc EXCEPT ![c] = "idle"] /\ call' = [call EXCEPT ![c] = NoCall]
         /\ on' = [on EXCEPT ![c] = NoHandle]
         /\ mu' = [l \in Lock |-> IF mu[l] = c THEN NoClient ELSE mu[l]]
         /\ pc' \in [Client -> Label] /\ call' \in [Client -> Call \cup {NoCall}]
         /\ on' \in [Client -> Handle \cup {NoHandle}]
         /\ mu' \in [Lock -> Client \cup {NoClient}]
         /\ \A d \in Client \ {c} :
              pc'[d] = pc[d] /\ on'[d] = on[d] /\ call'[d] = call[d]
         /\ pc'[c] = "idle" /\ on'[c] = NoHandle
<1>1. /\ pc' = [pc EXCEPT ![c] = "idle"] /\ call' = [call EXCEPT ![c] = NoCall]
      /\ on' = [on EXCEPT ![c] = NoHandle]
      /\ mu' = [l \in Lock |-> IF mu[l] = c THEN NoClient ELSE mu[l]]
  BY DEF Ends, Goes
<1>2. /\ pc \in [Client -> Label] /\ call \in [Client -> Call \cup {NoCall}]
      /\ on \in [Client -> Handle \cup {NoHandle}] /\ "idle" \in Label
      /\ mu \in [Lock -> Client \cup {NoClient}]
  BY DEF LInv, LockTypes, Label
<1> QED BY <1>1, <1>2

(* A call that opens or closes a handle ends, and its handle becomes g.    *)
LEMMA HandleLInv ==
  ASSUME LInv, NEW c \in Client, Ends(c), pc[c] \notin {"idle", "drain"},
         call[c].op \in Opening \cup {"close"}, deployed' = deployed,
         NEW g \in [state : {"closed", "opening", "open"}, lock : Lock \cup {NoLock}],
         handle' = [handle EXCEPT ![on[c]] = g],
         items' \in [Process -> Lock \cup {NoLock}], refs' \in [Lock -> Nat],
         HandlesHaveLocks', LocksApart', UnusedLocks', LockTableExact'
  PROVE  LInv'
<1>1. /\ pc' \in [Client -> Label] /\ call' \in [Client -> Call \cup {NoCall}]
      /\ on' \in [Client -> Handle \cup {NoHandle}]
      /\ mu' \in [Lock -> Client \cup {NoClient}]
      /\ mu' = [l \in Lock |-> IF mu[l] = c THEN NoClient ELSE mu[l]]
  BY EndFacts
<1>2. /\ \A d \in Client \ {c} :
           pc'[d] = pc[d] /\ on'[d] = on[d] /\ call'[d] = call[d]
      /\ pc'[c] = "idle" /\ on'[c] = NoHandle
  BY EndFacts
<1>3. /\ handle \in [Handle -> [state : {"closed", "opening", "open"},
                                lock : Lock \cup {NoLock}]]
      /\ on[c] \in Handle /\ NoHandle \notin Handle
      /\ on \in [Client -> Handle \cup {NoHandle}]
      /\ deployed \in Deployment
  BY SharedLock, CallAssumption DEF LInv, LockTypes
<1>4. LockTypes'
  BY <1>1, <1>3 DEF LockTypes
<1>5. \A d \in Client \ {c} : on[d] = on[c] => pc[d] = "drain"
  BY DEF LInv, Exclusive
<1>6. CallsAtHome'
  <2> SUFFICES ASSUME NEW d \in Client PROVE AtHome(d)'
    BY DEF CallsAtHome
  <2>0. AtHome(d)
    BY DEF LInv, CallsAtHome
  <2>1. CASE d = c
    BY <1>2, <2>1 DEF AtHome
  <2>2. CASE d # c
    <3>1. pc'[d] = pc[d] /\ on'[d] = on[d] /\ call'[d] = call[d]
      BY <1>2, <2>2
    <3>2. pc[d] \notin {"idle", "drain"} => on[d] \in Handle /\ on[d] # on[c]
      BY <1>3, <1>5, <2>0, <2>2 DEF AtHome
    <3>3. pc[d] \notin {"idle", "drain"} => handle'[on[d]] = handle[on[d]]
      BY <1>3, <3>2
    <3> QED BY <2>0, <3>1, <3>3, SameClient
  <2> QED BY <2>1, <2>2
<1>7. Exclusive'
  <2> SUFFICES ASSUME NEW d \in Client, pc'[d] \notin {"idle", "drain"},
                      call'[d].op \in Opening \cup {"close"},
                      NEW e \in Client \ {d}, on'[e] = on'[d]
               PROVE  pc'[e] = "drain"
    BY DEF Exclusive
  <2>1. d # c /\ on[d] # NoHandle
    BY <1>2 DEF LInv, CallsAtHome, AtHome
  <2>2. e # c
    BY <1>2, <2>1
  <2> QED BY <1>2, <2>1, <2>2 DEF LInv, Exclusive
<1>8. HoldsLock'
  <2> SUFFICES ASSUME NEW d \in Client, InTransaction(d)'
               PROVE  mu'[Shared(d)'] = d
    BY DEF HoldsLock
  <2>1. d # c /\ InTransaction(d) /\ on'[d] = on[d] /\ pc[d] # "drain"
    BY <1>2 DEF InTransaction
  <2>2. on[d] \in Handle /\ on[d] # on[c] /\ Shared(d) \in Lock
    BY <1>5, <2>1, SharedLock DEF InTransaction
  <2>3. Shared(d)' = Shared(d)
    BY <1>3, <2>1, <2>2 DEF Shared
  <2>4. mu[Shared(d)] = d
    BY <2>1 DEF LInv, HoldsLock
  <2> QED BY <1>1, <2>1, <2>2, <2>3, <2>4
<1> QED BY <1>4, <1>6, <1>7, <1>8 DEF LInv

(* A failed open, or Close.                                                *)
LEMMA ReleasedLInv ==
  ASSUME HandleCounts, LInv, NEW c \in Client, Ends(c), pc[c] \notin {"idle", "drain"},
         call[c].op \in Opening \cup {"close"}, deployed' = deployed,
         handle' = [handle EXCEPT ![on[c]] = NotOpen], releaseShared(on[c])
  PROVE  LInv'
<1>1. on[c] \in Handle /\ handle[on[c]].state # "closed"
  BY SharedLock
<1>2. /\ items' \in [Process -> Lock \cup {NoLock}] /\ refs' \in [Lock -> Nat]
      /\ HandlesHaveLocks' /\ LocksApart' /\ UnusedLocks' /\ LockTableExact'
  BY <1>1, ReleaseTable
<1>3. NotOpen \in [state : {"closed", "opening", "open"}, lock : Lock \cup {NoLock}]
  BY DEF NotOpen
<1> QED BY <1>2, <1>3, HandleLInv

LEMMA FailsLInv ==
  ASSUME HandleCounts, LInv, NEW c \in Client, Fails(c), InTransaction(c), deployed' = deployed
  PROVE  LInv'
<1>1. CASE call[c].op \in Opening
  BY <1>1, ReleasedLInv DEF Fails, InTransaction
<1>2. CASE call[c].op \notin Opening
  BY <1>2, EndsLInv DEF Fails
<1> QED BY <1>1, <1>2

(* Open hands out the Store.                                               *)
LEMMA OpenedLInv ==
  ASSUME LInv, NEW c \in Client, Ends(c), InTransaction(c), deployed' = deployed,
         call[c].op \in Opening, UNCHANGED <<items, refs>>,
         handle' = [handle EXCEPT ![on[c]].state = "open"]
  PROVE  LInv'
<1>1. /\ on[c] \in Handle /\ handle[on[c]].state # "closed"
      /\ pc[c] \notin {"idle", "drain"}
  BY SharedLock DEF InTransaction
<1>2. /\ handle \in [Handle -> [state : {"closed", "opening", "open"},
                                lock : Lock \cup {NoLock}]]
      /\ items \in [Process -> Lock \cup {NoLock}] /\ refs \in [Lock -> Nat]
  BY DEF LInv, LockTypes
<1>3. PICK g \in [state : {"closed", "opening", "open"}, lock : Lock \cup {NoLock}] :
        g = [handle[on[c]] EXCEPT !.state = "open"]
  BY <1>1, <1>2
<1>4. handle' = [handle EXCEPT ![on[c]] = g]
  BY <1>1, <1>2, <1>3
<1>5. \A h \in Handle : /\ handle'[h].lock = handle[h].lock
                        /\ handle'[h].state = "closed" <=> handle[h].state = "closed"
  BY <1>1, <1>2, <1>3, <1>4
<1>6. HandlesHaveLocks' /\ LocksApart' /\ UnusedLocks'
  BY <1>5 DEF LInv, HandlesHaveLocks, LocksApart, UnusedLocks, Home
<1>7. \A q \in Process : Live(q)' = Live(q) /\ Live(q) \subseteq Handle
  BY <1>5 DEF Live, Home
<1>8. LockTableExact'
  BY <1>5, <1>7 DEF LInv, LockTableExact
<1> QED BY <1>1, <1>2, <1>4, <1>6, <1>8, HandleLInv

(* Init gives the lock up and closes its Store.                            *)
LEMMA InitedLInv ==
  ASSUME LInv, NEW c \in Client, InTransaction(c), call[c].op = "init",
         mu' = [mu EXCEPT ![Shared(c)] = NoClient],
         call' = [call EXCEPT ![c] = [op |-> "close"]], Goes(c, "drain"),
         UNCHANGED <<deployed, tableVars, on>>
  PROVE  LInv'
<1>1. /\ pc' = [pc EXCEPT ![c] = "drain"] /\ deployed' = deployed /\ on' = on
      /\ items' = items /\ refs' = refs /\ handle' = handle
  BY DEF Goes, tableVars
<1>2. /\ pc \in [Client -> Label] /\ on \in [Client -> Handle \cup {NoHandle}]
      /\ call \in [Client -> Call \cup {NoCall}] /\ "drain" \in Label
      /\ mu \in [Lock -> Client \cup {NoClient}]
      /\ pc[c] \notin {"idle", "drain", "lock"}
  BY DEF LInv, LockTypes, Label, InTransaction
<1>3. LockTypes'
  BY <1>1, <1>2, CloseCall DEF LInv, LockTypes
<1>4. HandlesHaveLocks' /\ LocksApart' /\ UnusedLocks' /\ LockTableExact'
  BY <1>1, SameTable DEF LInv
<1>5. CallsAtHome'
  BY <1>1, <1>2 DEF LInv, CallsAtHome, AtHome, Home, Opening
<1>6. Exclusive'
  BY <1>1, <1>2 DEF LInv, Exclusive
<1>7. HoldsLock'
  <2> SUFFICES ASSUME NEW d \in Client, InTransaction(d)'
               PROVE  mu'[Shared(d)'] = d
    BY DEF HoldsLock
  <2>1. d # c /\ InTransaction(d) /\ Shared(d)' = Shared(d)
    BY <1>1, <1>2 DEF InTransaction, Shared
  <2>2. mu[Shared(d)] = d /\ mu[Shared(c)] = c
    BY <2>1 DEF LInv, HoldsLock
  <2> QED BY <1>2, <2>1, <2>2
<1> QED BY <1>3, <1>4, <1>5, <1>6, <1>7 DEF LInv

LEMMA DrainedLInv ==
  ASSUME LInv, NEW c \in Client, Drained(c)
  PROVE  LInv'
<1>1. /\ pc[c] = "drain" /\ deployed' = deployed
      /\ \A d \in Client \ {c} : on[d] = on[c] => pc[d] = "drain"
      /\ UNCHANGED tableVars
  BY DEF Drained, fileVars
<1>2. CASE handle[on[c]].state = "closed"
  BY <1>1, <1>2, EndsLInv DEF Drained
<1>3. CASE handle[on[c]].state # "closed"
  <2>1. /\ pc' = [pc EXCEPT ![c] = "lock"] /\ mu' = mu /\ call' = call /\ on' = on
        /\ items' = items /\ refs' = refs /\ handle' = handle
    BY <1>3 DEF Drained, Goes, tableVars
  <2>2. pc \in [Client -> Label] /\ "lock" \in Label
    BY DEF LInv, LockTypes, Label
  <2>3. LockTypes'
    BY <1>1, <2>1, <2>2 DEF LInv, LockTypes
  <2>4. HandlesHaveLocks' /\ LocksApart' /\ UnusedLocks' /\ LockTableExact'
    BY <1>1, <2>1, SameTable DEF LInv
  <2>5. CallsAtHome'
    BY <1>1, <1>3, <2>1, <2>2 DEF LInv, CallsAtHome, AtHome, Home
  <2>6. Exclusive'
    BY <1>1, <2>1, <2>2 DEF LInv, Exclusive
  <2>7. HoldsLock'
    BY <1>1, <2>1, <2>2 DEF LInv, HoldsLock, InTransaction, Shared
  <2> QED BY <2>3, <2>4, <2>5, <2>6, <2>7 DEF LInv
<1> QED BY <1>2, <1>3

LEMMA LockSharedLInv ==
  ASSUME LInv, NEW c \in Client, LockShared(c)
  PROVE  LInv'
<1>1. PICK label \in {"create", "close", "begin"} :
        /\ pc' = [pc EXCEPT ![c] = label]
        /\ label = "close" => call[c].op = "close"
  BY DEF LockShared, Goes
<1>2. /\ pc[c] = "lock" /\ mu[Shared(c)] = NoClient
      /\ mu' = [mu EXCEPT ![Shared(c)] = c]
      /\ deployed' = deployed /\ call' = call /\ on' = on
      /\ items' = items /\ refs' = refs /\ handle' = handle
  BY DEF LockShared, fileVars, tableVars
<1>3. /\ pc \in [Client -> Label] /\ label \in Label /\ NoClient \notin Client
      /\ mu \in [Lock -> Client \cup {NoClient}] /\ Shared(c) \in Lock
  BY <1>1, <1>2, SharedLock, CallAssumption DEF LInv, LockTypes, Label
<1>4. LockTypes'
  BY <1>1, <1>2, <1>3 DEF LInv, LockTypes
<1>5. HandlesHaveLocks' /\ LocksApart' /\ UnusedLocks' /\ LockTableExact'
  BY <1>2, SameTable DEF LInv
<1>6. CallsAtHome'
  BY <1>1, <1>2, <1>3 DEF LInv, CallsAtHome, AtHome, Home
<1>7. Exclusive'
  BY <1>1, <1>2, <1>3 DEF LInv, Exclusive
<1>8. HoldsLock'
  <2> SUFFICES ASSUME NEW d \in Client, InTransaction(d)'
               PROVE  mu'[Shared(d)'] = d
    BY DEF HoldsLock
  <2>1. Shared(d)' = Shared(d)
    BY <1>2 DEF Shared
  <2>2. CASE d = c
    BY <1>2, <1>3, <2>1, <2>2
  <2>3. CASE d # c
    <3>1. InTransaction(d)
      BY <1>1, <1>3, <2>3 DEF InTransaction
    <3>2. mu[Shared(d)] = d
      BY <3>1 DEF LInv, HoldsLock
    <3> QED BY <1>2, <1>3, <2>1, <2>3, <3>2
  <2> QED BY <2>2, <2>3
<1> QED BY <1>4, <1>5, <1>6, <1>7, <1>8 DEF LInv

-----------------------------------------------------------------------------
(* A process dies.                                                         *)
LEMMA KillLInv ==
  ASSUME LInv, NEW p \in Process, Kill(p)
  PROVE  LInv'
<1> DEFINE locks == {handle[h].lock : h \in {g \in Handle : Home(g) = p}}
<1>1. /\ handle' = [h \in Handle |-> IF Home(h) = p THEN NotOpen ELSE handle[h]]
      /\ items' = [items EXCEPT ![p] = NoLock]
      /\ refs' = [l \in Lock |-> IF l \in locks THEN 0 ELSE refs[l]]
      /\ mu' = [l \in Lock |-> IF l \in locks THEN NoClient ELSE mu[l]]
      /\ deployed' = deployed
  BY DEF Kill, fileVars
<1>2. \A c \in Client :
        /\ Home(c) = p => pc'[c] = "idle" /\ call'[c] = NoCall /\ on'[c] = NoHandle
        /\ Home(c) # p => pc'[c] = pc[c] /\ call'[c] = call[c] /\ on'[c] = on[c]
  BY DEF Kill
<1>3. /\ pc' \in [Client -> Label] /\ call' \in [Client -> Call \cup {NoCall}]
      /\ on' \in [Client -> Handle \cup {NoHandle}]
  BY DEF Kill, LInv, LockTypes, Label
<1>4. /\ items \in [Process -> Lock \cup {NoLock}] /\ refs \in [Lock -> Nat]
      /\ handle \in [Handle -> [state : {"closed", "opening", "open"},
                                lock : Lock \cup {NoLock}]]
      /\ mu \in [Lock -> Client \cup {NoClient}] /\ NoLock \notin Lock
      /\ deployed \in Deployment
  BY CallAssumption DEF LInv, LockTypes
<1>5. \A l \in Lock : l \in locks <=> l = items[p]
  <2> SUFFICES ASSUME NEW l \in Lock PROVE l \in locks <=> l = items[p]
    OBVIOUS
  <2>1. ASSUME l \in locks PROVE l = items[p]
    <3>1. PICK h \in Handle : Home(h) = p /\ handle[h].lock = l
      BY <2>1
    <3> QED BY <1>4, <3>1 DEF LInv, HandlesHaveLocks
  <2>2. ASSUME l = items[p] PROVE l \in locks
    <3>1. Live(p) # {} /\ \A h \in Live(p) : handle[h].lock = l
      BY <1>4, <2>2 DEF LInv, LockTableExact
    <3>2. PICK h \in Handle : Home(h) = p /\ handle[h].lock = l
      BY <3>1 DEF Live
    <3> QED BY <3>2
  <2> QED BY <2>1, <2>2
<1> HIDE DEF locks
<1>6. LockTypes'
  BY <1>1, <1>3, <1>4 DEF LockTypes, NotOpen
<1>7. \A h \in Handle : /\ Home(h) = p => handle'[h] = NotOpen
                        /\ Home(h) # p => handle'[h] = handle[h]
  BY <1>1
<1>8. items'[p] = NoLock /\ \A q \in Process \ {p} : items'[q] = items[q]
  BY <1>1, <1>4
<1>9. \A l \in Lock : IF l = items[p] THEN refs'[l] = 0
                       ELSE refs'[l] = refs[l] /\ mu'[l] = mu[l]
  BY <1>1, <1>4, <1>5
<1>10. HandlesHaveLocks'
  <2> SUFFICES ASSUME NEW h \in Handle
               PROVE  IF handle'[h].state = "closed" THEN handle'[h].lock = NoLock
                      ELSE items'[Home(h)] # NoLock /\ handle'[h].lock = items'[Home(h)]
    BY <1>1 DEF HandlesHaveLocks, Home
  <2>1. CASE Home(h) = p
    BY <1>7, <2>1 DEF NotOpen
  <2>2. CASE Home(h) # p
    <3>1. Home(h) \in Process
      BY <1>4, HomeType
    <3> QED BY <1>7, <1>8, <2>2, <3>1 DEF LInv, HandlesHaveLocks
  <2> QED BY <2>1, <2>2
<1>11. LocksApart'
  <2> SUFFICES ASSUME NEW q \in Process, NEW r \in Process, q # r,
                      items'[q] # NoLock
               PROVE  items'[q] # items'[r]
    BY DEF LocksApart
  <2>1. q # p /\ items'[q] = items[q]
    BY <1>8
  <2>2. CASE r = p
    BY <1>8, <2>2
  <2>3. CASE r # p
    <3>1. items[q] # items[r]
      BY <2>1 DEF LInv, LocksApart
    <3> QED BY <1>8, <2>1, <2>3, <3>1
  <2> QED BY <2>2, <2>3
<1>12. UnusedLocks'
  <2> SUFFICES ASSUME NEW l \in Lock, \A q \in Process : items'[q] # l
               PROVE  refs'[l] = 0
    BY DEF UnusedLocks
  <2>1. CASE l = items[p]
    BY <1>9, <2>1
  <2>2. CASE l # items[p]
    <3>1. \A q \in Process : items[q] # l
      BY <1>8, <2>2
    <3> QED BY <1>9, <2>2, <3>1 DEF LInv, UnusedLocks
  <2> QED BY <2>1, <2>2
<1>13. LockTableExact'
  <2> SUFFICES ASSUME NEW q \in Process
               PROVE  IF Live(q)' = {} THEN items'[q] = NoLock
                      ELSE /\ items'[q] # NoLock
                           /\ refs'[items'[q]] = Cardinality(Live(q)')
                           /\ \A h \in Live(q)' : handle'[h].lock = items'[q]
    BY DEF LockTableExact
  <2>1. CASE q = p
    <3>1. Live(p)' = {}
      BY <1>1, <1>7 DEF Live, Home, NotOpen
    <3> QED BY <1>8, <2>1, <3>1
  <2>2. CASE q # p
    <3>1. Live(q)' = Live(q)
      BY <1>1, <1>7, <2>2 DEF Live, Home
    <3>2. \A h \in Live(q) : handle'[h] = handle[h]
      BY <1>7, <2>2 DEF Live
    <3>3. items'[q] = items[q]
      BY <1>8, <2>2
    <3>4. items[q] # NoLock => items[q] # items[p]
      BY <2>2 DEF LInv, LocksApart
    <3>5. items[q] # NoLock => refs'[items[q]] = refs[items[q]]
      BY <1>4, <1>9, <3>4
    <3>6. IF Live(q) = {} THEN items[q] = NoLock
          ELSE /\ items[q] # NoLock
               /\ refs[items[q]] = Cardinality(Live(q))
               /\ \A h \in Live(q) : handle[h].lock = items[q]
      BY DEF LInv, LockTableExact
    <3> QED BY <3>1, <3>2, <3>3, <3>5, <3>6
  <2> QED BY <2>1, <2>2
<1>14. CallsAtHome'
  <2> SUFFICES ASSUME NEW c \in Client PROVE AtHome(c)'
    BY DEF CallsAtHome
  <2>0. AtHome(c)
    BY DEF LInv, CallsAtHome
  <2>1. CASE Home(c) = p
    BY <1>2, <2>1 DEF AtHome
  <2>2. CASE Home(c) # p
    <3>1. pc[c] # "idle" => Home(on[c]) = Home(c) /\ on[c] \in Handle
      BY <2>0 DEF LInv, LockTypes, AtHome
    <3>2. pc[c] # "idle" => handle'[on[c]] = handle[on[c]]
      BY <1>7, <2>2, <3>1
    <3>3. pc'[c] = pc[c] /\ call'[c] = call[c] /\ on'[c] = on[c]
      BY <1>2, <2>2
    <3> QED BY <1>1, <2>0, <3>2, <3>3, SameClient
  <2> QED BY <2>1, <2>2
<1>15. Exclusive'
  <2> SUFFICES ASSUME NEW c \in Client, pc'[c] \notin {"idle", "drain"},
                      call'[c].op \in Opening \cup {"close"},
                      NEW d \in Client \ {c}, on'[d] = on'[c]
               PROVE  pc'[d] = "drain"
    BY DEF Exclusive
  <2>1. Home(c) # p
    BY <1>2
  <2>2. on[c] # NoHandle
    BY <1>2, <2>1 DEF LInv, CallsAtHome, AtHome
  <2>3. Home(d) # p
    BY <1>2, <2>1, <2>2
  <2> QED BY <1>2, <2>1, <2>3 DEF LInv, Exclusive
<1>16. HoldsLock'
  <2> SUFFICES ASSUME NEW c \in Client, InTransaction(c)'
               PROVE  mu'[Shared(c)'] = c
    BY DEF HoldsLock
  <2>1. Home(c) # p /\ InTransaction(c) /\ on'[c] = on[c]
    BY <1>2 DEF InTransaction
  <2>2. /\ on[c] \in Handle /\ Home(on[c]) = Home(c) /\ Home(c) \in Process
        /\ Shared(c) = items[Home(c)] /\ Shared(c) \in Lock
    BY <2>1, SharedLock DEF InTransaction
  <2>3. Shared(c)' = Shared(c)
    BY <1>7, <2>1, <2>2 DEF Shared
  <2>4. Shared(c) # items[p]
    BY <1>4, <2>1, <2>2 DEF LInv, LocksApart
  <2> QED BY <1>9, <2>1, <2>2, <2>3, <2>4 DEF LInv, HoldsLock
<1> QED BY <1>6, <1>10, <1>11, <1>12, <1>13, <1>14, <1>15, <1>16 DEF LInv

-----------------------------------------------------------------------------
(* The induction.                                                          *)

LEMMA InitLInv == Init => LInv
<1> SUFFICES ASSUME Init PROVE LInv
  OBVIOUS
<1>1. /\ deployed \in Deployment /\ items = [p \in Process |-> NoLock]
      /\ refs = [l \in Lock |-> 0] /\ mu = [l \in Lock |-> NoClient]
      /\ handle = [h \in Handle |-> NotOpen] /\ pc = [c \in Client |-> "idle"]
      /\ call = [c \in Client |-> NoCall] /\ on = [c \in Client |-> NoHandle]
  BY DEF Init
<1>2. LockTypes
  BY <1>1 DEF LockTypes, NotOpen, Label
<1>3. \A p \in Process : Live(p) = {}
  BY <1>1 DEF Live, NotOpen
<1>4. HandlesHaveLocks /\ LocksApart /\ UnusedLocks /\ LockTableExact
  BY <1>1, <1>3
     DEF HandlesHaveLocks, LocksApart, UnusedLocks, LockTableExact, NotOpen
<1>5. CallsAtHome /\ Exclusive /\ HoldsLock
  BY <1>1 DEF CallsAtHome, AtHome, Exclusive, HoldsLock, InTransaction
<1> QED BY <1>2, <1>4, <1>5 DEF LInv

LEMMA LoadDoneLInv ==
  ASSUME HandleCounts, LInv, NEW c \in Client, LoadDone(c)
  PROVE  LInv'
<1>1. InTransaction(c) /\ deployed' = deployed
  BY DEF LoadDone, InTransaction, fileVars
<1>2. CASE Fails(c)
  BY <1>1, <1>2, FailsLInv
<1>3. CASE Ends(c) /\ UNCHANGED tableVars
  BY <1>1, <1>3, EndsLInv
<1>4. CASE /\ call[c].op = "open" /\ handle' = [handle EXCEPT ![on[c]].state = "open"]
           /\ Ends(c) /\ UNCHANGED <<items, refs>>
  BY <1>1, <1>4, OpenedLInv DEF Opening
<1>5. CASE /\ call[c].op = "init" /\ mu' = [mu EXCEPT ![Shared(c)] = NoClient]
           /\ call' = [call EXCEPT ![c] = [op |-> "close"]]
           /\ Goes(c, "drain") /\ UNCHANGED <<writer, tableVars, on>>
  BY <1>1, <1>5, InitedLInv
<1> QED BY <1>2, <1>3, <1>4, <1>5 DEF LoadDone

(* The statements, each of which goes on or fails.                         *)
LEMMA StatementsLInv ==
  ASSUME HandleCounts, LInv, NEW c \in Client,
         \/ CreateTables(c) \/ InsertLog(c) \/ BeginRead(c) \/ BeginWrite(c)
         \/ ValidateEntries(c) \/ SelectMeta(c) \/ SelectNodes(c)
         \/ SelectWitnesses(c) \/ Operate(c)
  PROVE  LInv'
<1> DEFINE Inner == Label \ {"idle", "drain", "lock", "close"}
<1>1. /\ InTransaction(c) /\ pc[c] # "close" /\ deployed' = deployed
      /\ \/ Fails(c)
         \/ /\ \E label \in Inner : Goes(c, label)
            /\ UNCHANGED <<mu, tableVars, call, on>>
  <2>1. /\ "insert log" \in Inner /\ "begin" \in Inner /\ "meta" \in Inner
        /\ "entries" \in Inner /\ "operate" \in Inner /\ "nodes" \in Inner
        /\ "witnesses" \in Inner /\ "loaded" \in Inner /\ "commit" \in Inner
    BY DEF Label, Loading
  <2> HIDE DEF Inner
  <2>2. CASE CreateTables(c)
    BY <2>1, <2>2 DEF CreateTables, InTransaction
  <2>3. CASE InsertLog(c)
    BY <2>1, <2>3 DEF InsertLog, InTransaction
  <2>4. CASE BeginRead(c)
    BY <2>1, <2>4 DEF BeginRead, InTransaction, fileVars
  <2>5. CASE BeginWrite(c)
    BY <2>1, <2>5 DEF BeginWrite, InTransaction, fileVars
  <2>6. CASE ValidateEntries(c)
    BY <2>1, <2>6 DEF ValidateEntries, InTransaction, fileVars
  <2>7. CASE SelectMeta(c)
    BY <2>1, <2>7 DEF SelectMeta, InTransaction, fileVars
  <2>8. CASE SelectNodes(c)
    BY <2>1, <2>8 DEF SelectNodes, InTransaction, fileVars
  <2>9. CASE SelectWitnesses(c)
    BY <2>1, <2>9 DEF SelectWitnesses, InTransaction, fileVars
  <2>10. CASE Operate(c)
    BY <2>1, <2>10 DEF Operate, InTransaction, fileVars
  <2> QED BY <2>2, <2>3, <2>4, <2>5, <2>6, <2>7, <2>8, <2>9, <2>10
<1>2. CASE Fails(c)
  BY <1>1, <1>2, FailsLInv
<1>3. CASE /\ \E label \in Inner : Goes(c, label)
           /\ UNCHANGED <<mu, tableVars, call, on>>
  BY <1>1, <1>3, StatementLInv
<1> QED BY <1>1, <1>2, <1>3

LEMMA StepLInv ==
  ASSUME HandleCounts, LInv, NEW c \in Client, Step(c)
  PROVE  LInv'
<1>1. CASE \E h \in Handle : StartOpen(c, h)
  BY <1>1, StartOpenLInv
<1>2. CASE \E h \in Handle : StartCall(c, h)
  <2>1. PICK h \in Handle : StartCall(c, h)
    BY <1>2
  <2>2. PICK k \in Call : k.op \notin Opening \cup {"close"} /\ Begins(c, k, h, "lock")
    BY <2>1, HomeType DEF StartCall, LInv, LockTypes
  <2> QED BY <2>1, <2>2, StartOtherLInv DEF StartCall
<1>3. CASE \E h \in Handle : StartClose(c, h)
  <2>1. PICK h \in Handle : StartClose(c, h)
    BY <1>3
  <2>2. PICK k \in Call : k.op \notin Opening /\ Begins(c, k, h, "drain")
    BY <2>1, CloseCall DEF StartClose, Opening
  <2> QED BY <2>1, <2>2, StartOtherLInv DEF StartClose
<1>4. CASE LockShared(c)
  BY <1>4, LockSharedLInv
<1>5. CASE Abort(c)
  BY <1>5, FailsLInv DEF Abort, InTransaction, fileVars
<1>6. CASE CommitUnanswered(c) \/ Commit(c)
  BY <1>6, EndsLInv DEF CommitUnanswered, Commit
<1>7. CASE Drained(c)
  BY <1>7, DrainedLInv
<1>8. CASE CloseHandle(c)
  <2>1. call[c].op = "close" /\ pc[c] \notin {"idle", "drain"}
    BY <1>8 DEF CloseHandle, LInv, CallsAtHome, AtHome
  <2> QED BY <1>8, <2>1, ReleasedLInv DEF CloseHandle, fileVars
<1>9. CASE LoadDone(c)
  BY <1>9, LoadDoneLInv
<1> QED BY <1>1, <1>2, <1>3, <1>4, <1>5, <1>6, <1>7, <1>8, <1>9, StatementsLInv
        DEF Step, Advance

LEMMA NextLInv == HandleCounts /\ LInv /\ [Next]_vars => LInv'
<1> SUFFICES ASSUME HandleCounts, LInv, [Next]_vars PROVE LInv'
  OBVIOUS
<1>1. CASE \E c \in Client : Step(c)
  BY <1>1, StepLInv
<1>2. CASE \E p \in Process : Kill(p)
  BY <1>2, KillLInv
<1>3. CASE UNCHANGED vars
  <2>1. /\ deployed' = deployed /\ mu' = mu /\ items' = items /\ refs' = refs
        /\ handle' = handle /\ pc' = pc /\ call' = call /\ on' = on
    BY <1>3 DEF vars, fileVars, tableVars, clientVars
  <2>2. HandlesHaveLocks' /\ LocksApart' /\ UnusedLocks' /\ LockTableExact'
    BY <2>1, SameTable DEF LInv
  <2>3. LockTypes'
    BY <2>1 DEF LInv, LockTypes
  <2>4. CallsAtHome'
    BY <2>1, SameClient DEF LInv, CallsAtHome
  <2>5. Exclusive' /\ HoldsLock'
    BY <2>1 DEF LInv, Exclusive, HoldsLock, InTransaction, Shared
  <2> QED BY <2>2, <2>3, <2>4, <2>5 DEF LInv
<1> QED BY <1>1, <1>2, <1>3 DEF Next
=============================================================================

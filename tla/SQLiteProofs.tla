----------------------------- MODULE SQLiteProofs -----------------------------
(***************************************************************************)
(* What the locks of the SQLite backend guarantee.                         *)
(***************************************************************************)
EXTENDS SQLiteLocks, FiniteSetTheorems

LEMMA HandlesCount == HandleCounts
<1> SUFFICES ASSUME NEW S \in SUBSET Handle, NEW h \in Handle
             PROVE  /\ Cardinality(S) \in Nat /\ (Cardinality(S) = 0 <=> S = {})
                    /\ h \notin S => Cardinality(S \cup {h}) = Cardinality(S) + 1
                    /\ h \in S => Cardinality(S \ {h}) = Cardinality(S) - 1
  BY DEF HandleCounts
<1>1. IsFiniteSet(S)
  BY LockAssumption, FS_Subset
<1>2. Cardinality(S) \in Nat /\ (Cardinality(S) = 0 <=> S = {})
  BY <1>1, FS_CardinalityType, FS_EmptySet
<1>3. h \notin S => Cardinality(S \cup {h}) = Cardinality(S) + 1
  BY <1>1, FS_AddElement
<1>4. h \in S => Cardinality(S \ {h}) = Cardinality(S) - 1
  BY <1>1, FS_RemoveElement
<1> QED BY <1>2, <1>3, <1>4

(* LInv is an invariant of the SQLite backend.                             *)
THEOREM Invariance == Spec => []LInv
  BY InitLInv, NextLInv, HandlesCount, PTL DEF Spec

(* The calls of one process on the log run one after the other, whichever  *)
(* handles they use: sharedLock.mu is one mutex for all of them, although  *)
(* opens that fail, closes and the death of other processes make and drop  *)
(* locks all the time.                                                     *)
THEOREM Serializes == Spec => []ProcessSerializes
<1>1. LInv => ProcessSerializes
  <2> SUFFICES ASSUME LInv, NEW c \in Client, NEW d \in Client, c # d,
                      Home(c) = Home(d), InTransaction(c), InTransaction(d)
               PROVE  FALSE
    BY DEF ProcessSerializes
  <2>1. Shared(c) = items[Home(c)] /\ Shared(d) = items[Home(d)]
    BY SharedLock DEF InTransaction
  <2>2. mu[Shared(c)] = c /\ mu[Shared(d)] = d
    BY DEF LInv, HoldsLock
  <2> QED BY <2>1, <2>2
<1> QED BY <1>1, Invariance, PTL

(* sharedLocks counts exactly the handles that are open or being opened.   *)
THEOREM LocksCounted == Spec => []LockTableExact
<1>1. LInv => LockTableExact
  BY DEF LInv
<1> QED BY <1>1, Invariance, PTL
=============================================================================

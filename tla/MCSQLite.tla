------------------------------- MODULE MCSQLite -------------------------------
(* Two goroutines with two Stores over one SQLite log.  Together in one    *)
(* process they open, close and append.  Apart in two processes they       *)
(* append different values, or one indexes and checkpoints while the other *)
(* loads and delivers.                                                     *)
EXTENDS SQLiteEngine, MCRelational, TLC

CONSTANTS app, other, here, there

Together == [x \in Client \cup Handle |-> here]
Apart == [x \in Client \cup Handle |-> IF x \in {other, 2} THEN there ELSE here]

Opens == {[op |-> "init"], [op |-> "open"]}

MCDeployment ==
  {[home |-> Together,
    calls |-> app :> Opens \cup {[op |-> "close"], Append1(a)}
                @@ other :> {[op |-> "open"], [op |-> "close"], Append1(a)}],
   [home |-> Apart,
    calls |-> app :> Opens \cup {[op |-> "load"], Append1(a)}
                @@ other :> {[op |-> "open"], Append1(a), Append1(b)}],
   [home |-> Apart,
    calls |-> app :> Opens \cup {Append1(a)} \cup Indexing
                @@ other :> {[op |-> "open"], [op |-> "load"],
                             Witness1(0, Row(1, 3, NoBytes))}]}
=============================================================================

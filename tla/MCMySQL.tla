------------------------------- MODULE MCMySQL -------------------------------
(* Three processes of a deployment over one MySQL log: one provisions it,  *)
(* appends and delivers, one appends, indexes and checkpoints, one         *)
(* delivers to the same witness.                                           *)
EXTENDS MySQL, MCRelational

CONSTANTS app, index, deliver

MCCalls ==
  [c \in Client |->
     CASE c = app -> {[op |-> "init"], [op |-> "open"], [op |-> "close"],
                      Append1(a), Witness1(0, Row(1, 3, Statement))}
       [] c = index -> {[op |-> "open"], Append1(b)} \cup Indexing
       [] c = deliver -> {[op |-> "open"], [op |-> "load"],
                          Witness1(0, Row(1, 3, NoBytes))}]
=============================================================================

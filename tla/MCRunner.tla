------------------------------ MODULE MCRunner ------------------------------
(* Small instances of CheckpointRunner.                                    *)
EXTENDS CheckpointRunner

MCMMRSize == [n \in 0..MaxSeq |-> <<0, 1, 3, 4, 7>>[n + 1]]

(* The values are interchangeable: they arrive in this order.              *)
ValuesInOrder ==
  \A i \in DOMAIN entries' : entries'[i].value = <<"a", "b", "c">>[i]

(* Bound: the host of r1 notifies its runner, that of r2 calls RunOnce;    *)
(* both run loops with tickers.                                            *)
HostRoles == ~notify'["r2"] /\ pass'["r1"].mode # "once"

OrderedSpec ==
  Init /\ [][Next /\ ValuesInOrder /\ HostRoles]_vars /\ Fairness
=============================================================================

------------------------------ MODULE MCDelivery ------------------------------
(* Small instances of Delivery.                                            *)
EXTENDS Delivery, TLC

CONSTANTS r1, r2

MCMMRSize == [n \in 0..1 |-> n]

(* r2 is configured for the second witness only.                           *)
MCClients == (r1 :> WitnessID) @@ (r2 :> {2})
MCAllClients == [r \in Runner |-> WitnessID]

(* Witnesses answer in every way, or the first is down for ever.           *)
MCAnyAnswer == [id \in WitnessID |-> Answer]
MCFirstDown ==
  [id \in WitnessID |-> IF id = 1 THEN {"retry"} ELSE {"receipt", "retry", "lost"}]
=============================================================================

-------------------------------- MODULE MCMMR --------------------------------
(* Small instance of the tree and of what is signed about it: hosts that   *)
(* keep the tree in memory, and hosts with a node file for logs of three   *)
(* leaves.                                                                 *)
EXTENDS NodeFile, Receipt

MCLogs == {<< >>} \cup [1..3 -> Value]
=============================================================================

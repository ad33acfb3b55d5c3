--------------------------------- MODULE Wire ---------------------------------
(***************************************************************************)
(* The portable encoding of states and witness rows                        *)
(* (internal/backend/wire.go), as the journal and the SQL tables store it. *)
(* Of the conversion only what a reader can tell is kept: times lose what  *)
(* is below a millisecond, an absent time stays absent, and the metadata   *)
(* projection leaves out nodes and witness rows.  Numbers, base64 and JSON *)
(* come back as they went in.                                              *)
(***************************************************************************)
EXTENDS Backend

WireTime(t) == IF t = NoTime THEN NoTime ELSE NormalizeTime(t)

WitnessToWire(w) == [w EXCEPT !.nextAttemptAt = WireTime(@)]

StateToWire(s) ==
  [s EXCEPT !.firstPendingAt = WireTime(@),
            !.witnesses = {WitnessToWire(w) : w \in @}]

(* MarshalMetadata: the row of cll_meta.                                   *)
MarshalMetadata(s) ==
  StateToWire([s EXCEPT !.nodes = << >>, !.witnesses = {}])

(* What WitnessFromWire and StateFromWire refuse as corrupt.               *)
WitnessFromWire(w) == validateWitness(w)

StateFromWire(s) ==
  /\ \A w \in s.witnesses : WitnessFromWire(w)
  /\ validateState(s)
=============================================================================

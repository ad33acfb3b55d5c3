------------------------------- MODULE Statement -------------------------------
(***************************************************************************)
(* Signed checkpoint statements (checkpoint/checkpoint.go): the canonical  *)
(* payload, signing, and parsing a statement back.  Canonical JSON and     *)
(* CBOR are injective and their decoders accept nothing else, so bytes are *)
(* the records they encode; a signature is the key and the bytes signed.   *)
(* A statement's time keeps its full precision; the model's instants lie   *)
(* in the years 0 to 9999 that formatTimestamp accepts.                    *)
(***************************************************************************)
EXTENDS MMR

CONSTANTS
  Key,                \* Ed25519 public keys
  LogID,              \* valid log identifiers
  MaxPortableInteger  \* bound of portable sizes (2^53 - 1 in the code)

ASSUME StatementAssumption ==
  MaxPortableInteger \in Nat /\ Key # {} /\ LogID # {}

Refused == [refused |-> TRUE]
NoRoot == << >>      \* PrevRoot of a first checkpoint: the empty string
NoCadence == 0 - 1   \* a nil cadence
NoProof == [none |-> TRUE]

(* Fault: the size may exceed the portable range by one.                   *)
canonicalFieldsWide(p) ==
  /\ p.logID \in LogID /\ p.keyID \in Key
  /\ p.mmrSize \in 1..(MaxPortableInteger + 1)
  /\ p.prevSize < p.mmrSize
  /\ (p.prevSize = 0) = (p.prevRoot = NoRoot)

(* The payload has a canonical projection.                                 *)
canonicalFields(p) ==
  /\ p.logID \in LogID /\ p.keyID \in Key
  /\ p.mmrSize \in 1..MaxPortableInteger /\ p.prevSize <= MaxPortableInteger
  /\ p.prevSize < p.mmrSize
  /\ (p.prevSize = 0) = (p.prevRoot = NoRoot)

(* ParsePayload accepts exactly the projections CanonicalJSON makes.       *)
ParsePayload(p) == canonicalFields(p)

(* The hash under which a witness logs the statement with this payload.    *)
EntryHash(p) == <<"sha256", <<"sha256", p>>>>

validCadence(cadence) == cadence = NoCadence \/ cadence \in 1..MaxPortableInteger

validatePeakCommitments(p, newPeaks, prevPeaks) ==
  /\ newPeaks # << >> /\ RootFromPeaks(newPeaks) = p.root
  /\ IF p.prevSize = 0 THEN prevPeaks = << >>
     ELSE prevPeaks # << >> /\ RootFromPeaks(prevPeaks) = p.prevRoot

(* The proof bridges the declared checkpoints.                             *)
Bridges(p, newPeaks, prevPeaks, proof) ==
  IF p.prevSize = 0 THEN proof = NoProof
  ELSE /\ proof # NoProof
       /\ proof.oldSize = p.prevSize /\ proof.newSize = p.mmrSize
       /\ VerifyConsistency(RootFromPeaks(prevPeaks), RootFromPeaks(newPeaks), proof)

(* What is signed has no root: both are in the peaks.                      *)
encodeWireClaims(p, newPeaks, prevPeaks, proof, cadence) ==
  IF /\ validatePeakCommitments(p, newPeaks, prevPeaks)
     /\ validCadence(cadence)
     /\ Bridges(p, newPeaks, prevPeaks, proof)
  THEN [logSize |-> p.mmrSize, commitment |-> newPeaks, prevSize |-> p.prevSize,
        prevCommitment |-> prevPeaks, issuedAt |-> p.timestamp,
        cadence |-> cadence, proof |-> proof]
  ELSE Refused

(* decodeWireClaims with decodeCommitment, on claims that decode: an empty *)
(* list of peaks has a nonempty encoding.                                  *)
ClaimsValid(c) == c.logSize # 0 /\ validCadence(c.cadence)

(* The payload of a parsed record: the roots come from the peaks.          *)
RecordPayload(st) ==
  [logID |-> st.issuer, keyID |-> st.kid, mmrSize |-> st.claims.logSize,
   root |-> RootFromPeaks(st.claims.commitment), prevSize |-> st.claims.prevSize,
   prevRoot |-> IF st.claims.prevSize = 0 THEN NoRoot
                ELSE RootFromPeaks(st.claims.prevCommitment),
   timestamp |-> st.claims.issuedAt]

ParseRecord(st) ==
  LET c == st.claims
  IN  IF /\ ClaimsValid(c)
         /\ st.subject = <<st.issuer, c.logSize>>
         /\ (c.prevSize = 0) = (c.prevCommitment = << >>)
         /\ IF c.prevSize = 0 THEN c.proof = NoProof
            ELSE /\ c.proof # NoProof
                 /\ VerifyConsistency(RootFromPeaks(c.prevCommitment),
                                      RootFromPeaks(c.commitment), c.proof)
         /\ canonicalFields(RecordPayload(st))
      THEN [payload |-> RecordPayload(st), cadence |-> c.cadence, proof |-> c.proof,
            newPeaks |-> c.commitment, prevPeaks |-> c.prevCommitment]
      ELSE Refused

(* The signature is over the protected headers and the claims.             *)
VerifySignature(st) ==
  st.signature = <<st.kid, st.issuer, st.subject, st.claims>>

VerifyCheckpoint(key, p, st) ==
  /\ ParsePayload(p)
  /\ ParseRecord(st) # Refused
  /\ ParseRecord(st).payload = p /\ st.kid = key
  /\ VerifySignature(st)

Sealed(key, p, claims) ==
  [kid |-> key, issuer |-> p.logID, subject |-> <<p.logID, p.mmrSize>>,
   claims |-> claims,
   signature |-> <<key, p.logID, <<p.logID, p.mmrSize>>, claims>>]

signCheckpoint(key, p, newPeaks, prevPeaks, proof, cadence) ==
  LET claims == encodeWireClaims(p, newPeaks, prevPeaks, proof, cadence)
      st == Sealed(key, p, claims)
  IN  IF /\ ParsePayload(p) /\ p.keyID = key
         /\ claims # Refused
         /\ VerifyCheckpoint(key, p, st)
      THEN st ELSE Refused

-----------------------------------------------------------------------------
(* The instances the properties are about: checkpoints of the tree's past, *)
(* by number of leaves.                                                    *)

PastPeaks(n) == PeakHashesAt(nodes, MMRIndex[n])
PastProof(m, n) ==
  IF m = 0 THEN NoProof ELSE ConsistencyProofAt(nodes, MMRIndex[m], MMRIndex[n])

PastPayload(key, id, m, n) ==
  [logID |-> id, keyID |-> key, mmrSize |-> MMRIndex[n],
   root |-> RootAt(nodes, MMRIndex[n]), prevSize |-> MMRIndex[m],
   prevRoot |-> IF m = 0 THEN NoRoot ELSE RootAt(nodes, MMRIndex[m]),
   timestamp |-> n]

Portable(n) == MMRIndex[n] <= MaxPortableInteger

(* Every checkpoint of the present tree, from every earlier one or from    *)
(* none, is signed, and its statement parses back to the payload, the      *)
(* peaks, the proof and the cadence that went in.  Nothing that only the   *)
(* payload says is lost, although the claims hold no root.  A tree beyond  *)
(* the portable sizes is refused.                                          *)
StatementsRoundTrip ==
  \A m \in 0..(Len(leaves) - 1), cadence \in {NoCadence, 0, 1} :
    LET n == Len(leaves)
        key == CHOOSE k \in Key : TRUE
        p == PastPayload(key, CHOOSE l \in LogID : TRUE, m, n)
        st == signCheckpoint(key, p, PastPeaks(n), PastPeaks(m), PastProof(m, n),
                             cadence)
    IN  IF cadence = 0 \/ ~Portable(n) THEN st = Refused
        ELSE /\ st # Refused
             /\ ParseRecord(st) =
                  [payload |-> p, cadence |-> cadence, proof |-> PastProof(m, n),
                   newPeaks |-> PastPeaks(n), prevPeaks |-> PastPeaks(m)]
             /\ \A k \in Key, l \in LogID, j \in 0..(n - 1) :
                  LET q == PastPayload(k, l, j, n) IN
                  VerifyCheckpoint(k, q, st) <=> k = key /\ q = p

(* The signer signs only what the payload declares: it refuses the peaks   *)
(* of any other size, the previous peaks of any other size, a proof        *)
(* between any other two sizes, and a payload of another key.              *)
SignsOnlyWhatIsDeclared ==
  \A m \in 0..(Len(leaves) - 1) :
    LET n == Len(leaves)
        key == CHOOSE k \in Key : TRUE
        signs(k, new, prev, proof) ==
          signCheckpoint(key, PastPayload(k, CHOOSE l \in LogID : TRUE, m, n),
                         new, prev, proof, NoCadence) # Refused
    IN  Portable(n) =>
          /\ \A k \in Key : signs(k, PastPeaks(n), PastPeaks(m), PastProof(m, n))
                              <=> k = key
          /\ \A j \in Past :
               /\ signs(key, PastPeaks(j), PastPeaks(m), PastProof(m, n)) <=> j = n
               /\ signs(key, PastPeaks(n), PastPeaks(j), PastProof(m, n)) <=> j = m
               /\ j < n => (signs(key, PastPeaks(n), PastPeaks(m), PastProof(j, n))
                              <=> j = m)
               /\ j \in m..n => (signs(key, PastPeaks(n), PastPeaks(m), PastProof(m, j))
                                   <=> j = n \/ m = 0)
=============================================================================

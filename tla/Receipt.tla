-------------------------------- MODULE Receipt --------------------------------
(***************************************************************************)
(* Witness receipts (witness/verify.go): an RFC 9162 inclusion proof of a  *)
(* statement's entry hash in the witness's log, under the authority's      *)
(* signature of the root the proof leads to.                               *)
(***************************************************************************)
EXTENDS Statement

CONSTANTS
  Authority,   \* public keys of witness authorities
  maxTreeSize  \* bound of the verifier's tree sizes (2^62 in the code)

ASSUME AuthorityAssumption == Authority # {} /\ maxTreeSize \in Nat

Scheme == "checkpoint-digest"  \* EntryHashSchemeCheckpointDigest

-----------------------------------------------------------------------------
(* The witness's log (external): RFC 9162's Merkle tree hash and inclusion *)
(* path of the entries, from the standard's definitions.                   *)

entryLeaf(entry) == <<"leaf9162", entry>>
nodeHash(left, right) == <<"node9162", left, right>>

Split(n) == CHOOSE k \in 1..(n - 1) : (\E e \in 0..n : k = 2^e) /\ n <= 2 * k

RECURSIVE TreeHash(_)
TreeHash(entries) ==
  LET n == Len(entries) k == Split(n)
  IN  IF n = 1 THEN entryLeaf(entries[1])
      ELSE nodeHash(TreeHash(SubSeq(entries, 1, k)),
                    TreeHash(SubSeq(entries, k + 1, n)))

RECURSIVE InclusionPath(_, _)
InclusionPath(m, entries) ==
  LET n == Len(entries) k == Split(n)
      left == SubSeq(entries, 1, k) right == SubSeq(entries, k + 1, n)
  IN  IF n = 1 THEN << >>
      ELSE IF m < k THEN Append(InclusionPath(m, left), TreeHash(right))
      ELSE Append(InclusionPath(m - k, right), TreeHash(left))

(* The receipt for the entry at index.                                     *)
Issue(authority, entries, index) ==
  [scheme |-> Scheme, entryHash |-> entries[index + 1],
   treeSize |-> Len(entries), leafIndex |-> index,
   proofs |-> <<[size |-> Len(entries), index |-> index,
                 path |-> InclusionPath(index, entries)]>>,
   signature |-> <<authority, TreeHash(entries)>>]

-----------------------------------------------------------------------------
(* The verifier.                                                           *)

(* Fault: one doubling too few when n - 1 is a power of two.               *)
largestPowerStrict(n) ==
  LET RECURSIVE double(_)
      double(k) == IF k < (n - 1) \div 2 THEN double(2 * k) ELSE k
  IN  IF n <= 1 THEN 1 ELSE double(1)

largestPowerBelow(n) ==
  LET RECURSIVE double(_)
      double(k) == IF k <= (n - 1) \div 2 THEN double(2 * k) ELSE k
  IN  IF n <= 1 THEN 1 ELSE double(1)

RECURSIVE expectedPath(_, _)
expectedPath(size, index) ==
  LET k == largestPowerBelow(size)
  IN  IF size <= 1 THEN 0
      ELSE 1 + (IF index < k THEN expectedPath(k, index)
                             ELSE expectedPath(size - k, index - k))

(* fold of rootFromProof: siblings are taken from the end.                 *)
RECURSIVE FoldPath(_, _, _, _)
FoldPath(leaf, n, m, siblings) ==
  LET k == largestPowerBelow(n)
      rest == SubSeq(siblings, 1, Len(siblings) - 1)
      sibling == siblings[Len(siblings)]
  IN  IF n = 1 THEN leaf
      ELSE IF m < k THEN nodeHash(FoldPath(leaf, k, m, rest), sibling)
      ELSE nodeHash(sibling, FoldPath(leaf, n - k, m - k, rest))

(* With a path of the expected length the fold neither runs out of         *)
(* siblings nor leaves any.                                                *)
PathFits(index, size, path) ==
  /\ index \in 0..(size - 1) /\ size <= maxTreeSize
  /\ Len(path) = expectedPath(size, index)

rootFromProof(entry, index, size, path) ==
  FoldPath(entryLeaf(entry), size, index, path)

Verify(authority, st, receipt) ==
  LET record == ParseRecord(st)
      proof == receipt.proofs[1]
  IN  /\ receipt.scheme = Scheme
      /\ record # Refused /\ VerifySignature(st)
      /\ EntryHash(record.payload) = receipt.entryHash
      /\ Len(receipt.proofs) = 1
      /\ proof.size = receipt.treeSize /\ proof.index = receipt.leafIndex
      /\ PathFits(proof.index, proof.size, proof.path)
      /\ receipt.signature =
           <<authority, rootFromProof(EntryHash(record.payload), proof.index,
                                      proof.size, proof.path)>>

-----------------------------------------------------------------------------
(* A witness that logged a statement per leaf: the receipt it issues for   *)
(* the i-th verifies with that statement under its own key and with        *)
(* nothing else: no other statement, authority or declared position, no    *)
(* other index in the proof, and no path with a hash missing or left over. *)
ReceiptExact ==
  LET n == Len(leaves)
      key == CHOOSE k \in Key : TRUE
      id == CHOOSE l \in LogID : TRUE
      signed == [k \in 1..n |-> signCheckpoint(key, PastPayload(key, id, k - 1, k),
                   PastPeaks(k), PastPeaks(k - 1), PastProof(k - 1, k), NoCadence)]
      entries == [k \in 1..n |-> EntryHash(PastPayload(key, id, k - 1, k))]
      witness == CHOOSE x \in Authority : TRUE
  IN  n > 0 /\ Portable(n) =>
        \A i \in 0..(n - 1) :
          LET receipt == Issue(witness, entries, i)
              accepted(r) == Verify(witness, signed[i + 1], r)
              at(j) == [receipt EXCEPT !.leafIndex = j, !.proofs[1].index = j]
          IN  /\ \A x \in Authority, j \in 0..(n - 1) :
                   Verify(x, signed[j + 1], receipt) <=> x = witness /\ j = i
              /\ \A j \in 0..n : /\ accepted([receipt EXCEPT !.leafIndex = j]) <=> j = i
                                 /\ accepted(at(j)) <=> j = i
              /\ ~accepted([receipt EXCEPT !.treeSize = n + 1])
              /\ ~accepted([receipt EXCEPT !.proofs[1].path = Append(@, zeroHash)])
              /\ n > 1 => ~accepted([receipt EXCEPT !.proofs[1].path = Tail(@)])
=============================================================================

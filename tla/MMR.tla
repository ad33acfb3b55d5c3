---------------------------------- MODULE MMR ----------------------------------
(***************************************************************************)
(* The Merkle mountain range (mmr/tree.go): appending leaves, restoring a  *)
(* tree, and generating and verifying inclusion, consistency and range     *)
(* proofs at every historical size.                                        *)
(*                                                                         *)
(* A hash is the term it was computed from, so distinct inputs have        *)
(* distinct hashes.  Node positions are 0-based, as in the code: position  *)
(* p is nodes[p + 1].  The dtmmr library is external and modelled by what  *)
(* the tree code takes from it.                                            *)
(***************************************************************************)
EXTENDS Integers, Sequences, FiniteSets

CONSTANTS
  Value,     \* 32-byte identities
  MaxLeaves  \* bound: leaves appended

ASSUME MaxLeavesAssumption == MaxLeaves \in Nat

VARIABLES
  leaves,  \* history: the identities appended
  nodes    \* Tree.nodes

vars == <<leaves, nodes>>

-----------------------------------------------------------------------------
(* Hashes.                                                                 *)

leafHash(v) == <<"leaf", v>>

interiorHash(left, right, position) == <<"node", position + 1, left, right>>

zeroHash == <<"zero">>

(* HashPeaksRHS: bag the peaks from the right.                             *)
HashPeaksRHS(peaks) ==
  LET bag[i \in 1..Len(peaks)] ==
        IF i = Len(peaks) THEN peaks[i] ELSE <<"bag", bag[i + 1], peaks[i]>>
  IN  bag[1]

(* Fault: only the tallest mountain counts.                                *)
RootFromTallest(peaks) == IF peaks = << >> THEN zeroHash ELSE peaks[1]

RootFromPeaks(peaks) == IF peaks = << >> THEN zeroHash ELSE HashPeaksRHS(peaks)

-----------------------------------------------------------------------------
(* Positions.                                                              *)

(* dtmmr.MMRIndex: the position of a leaf, which is also the number of     *)
(* nodes over the leaves before it.                                        *)
MMRIndex[n \in Nat] == IF n = 0 THEN 0 ELSE n + MMRIndex[n \div 2]

(* The largest height of a perfect tree with at most size nodes.           *)
Tallest(size) == CHOOSE h \in 0..size :
                   2^(h + 1) - 1 <= size /\ size < 2^(h + 2) - 1

(* dtmmr.IndexHeight.                                                      *)
IndexHeight[p \in Nat] ==
  LET perfect == 2^(Tallest(p + 1) + 1) - 1
  IN  IF perfect = p + 1 THEN Tallest(p + 1) ELSE IndexHeight[p - perfect]

(* dtmmr.Peaks at size nodes: tallest first; empty if size is incomplete.  *)
RECURSIVE PeaksFrom(_, _, _)
PeaksFrom(start, size, height) ==
  IF size = 0 \/ height < 0 THEN << >>
  ELSE LET mountain == 2^(height + 1) - 1
       IN  IF mountain <= size
           THEN <<start + mountain - 1>> \o
                  PeaksFrom(start + mountain, size - mountain, height - 1)
           ELSE PeaksFrom(start, size, height - 1)

peakPositions(size) == IF size = 0 THEN << >> ELSE PeaksFrom(0, size, Tallest(size))

validMMRSize(size) == \E n \in 0..size : MMRIndex[n] = size

LeafCount(size) == CHOOSE n \in 0..size : MMRIndex[n] = size

(* containingPeak: index of the peak whose mountain holds position, or 0.  *)
containingPeak(position, peaks) ==
  LET holds(i) == LET mountain == 2^(IndexHeight[peaks[i]] + 1) - 1
                  IN  position \in (peaks[i] - mountain + 1)..peaks[i]
      found == {i \in 1..Len(peaks) : holds(i)}
  IN  IF found = {} THEN 0 ELSE CHOOSE i \in found : \A j \in found : i <= j

(* pathToPeak: the siblings on the way from target up to root.             *)
RECURSIVE pathToPeak(_, _, _)
pathToPeak(root, height, target) ==
  IF height = 0 \/ root = target THEN << >>
  ELSE LET leftRoot == root - (2^height - 1) - 1
           rightRoot == root - 1
           step(s, r) == <<[sibling |-> s, targetIsRight |-> r, parent |-> root]>>
       IN  IF target <= leftRoot
           THEN pathToPeak(leftRoot, height - 1, target) \o step(rightRoot, FALSE)
           ELSE pathToPeak(rightRoot, height - 1, target) \o step(leftRoot, TRUE)

PathFromPeak(peak, target) == pathToPeak(peak, IndexHeight[peak], target)

-----------------------------------------------------------------------------
(* The tree.                                                               *)

(* dtmmr.AddHashedLeaf: the leaf, then every interior node it completes.   *)
AddHashedLeaf(ns, leaf) ==
  LET RECURSIVE complete(_, _)
      complete(m, height) ==
        IF IndexHeight[Len(m)] <= height THEN m
        ELSE complete(Append(m, interiorHash(m[Len(m) - 2^(height + 1) + 1],
                                             m[Len(m)], Len(m))), height + 1)
  IN  complete(Append(ns, leaf), 0)

(* Fault: only the size is checked.                                        *)
NewUnchecked(ns) == validMMRSize(Len(ns))

(* Fault: the left child is looked for one level too low.                  *)
NewMisplaced(ns) ==
  /\ validMMRSize(Len(ns))
  /\ \A p \in 0..(Len(ns) - 1) :
       LET height == IndexHeight[p] IN
       height > 0 =>
         ns[p + 1] = interiorHash(ns[p - 2^(height - 1) + 1], ns[p], p)

(* New accepts a node list: complete, and interior nodes match.            *)
New(ns) ==
  /\ validMMRSize(Len(ns))
  /\ \A p \in 0..(Len(ns) - 1) :
       LET height == IndexHeight[p] IN
       height > 0 =>
         ns[p + 1] = interiorHash(ns[p - 2^height + 1], ns[p], p)

PeakHashesAt(ns, size) ==
  LET peaks == peakPositions(size)
  IN  [i \in 1..Len(peaks) |-> ns[peaks[i] + 1]]

(* Root of the tree as it was at size (treeRootAt).                        *)
RootAt(ns, size) == RootFromPeaks(PeakHashesAt(ns, size))

Siblings(ns, steps) == [i \in 1..Len(steps) |-> ns[steps[i].sibling + 1]]

(* The hash a path of siblings leads to.                                   *)
Climb(start, steps, witness) ==
  LET up[i \in 0..Len(steps)] ==
        IF i = 0 THEN start
        ELSE IF steps[i].targetIsRight
             THEN interiorHash(witness[i], up[i - 1], steps[i].parent)
             ELSE interiorHash(up[i - 1], witness[i], steps[i].parent)
  IN  up[Len(steps)]

-----------------------------------------------------------------------------
(* Inclusion proofs.                                                       *)

InclusionProofAt(ns, leafIndex, size) ==
  LET positions == peakPositions(size)
      peak == containingPeak(MMRIndex[leafIndex], positions)
      peaks == PeakHashesAt(ns, size)
  IN  [size |-> size, leafIndex |-> leafIndex,
       witness |-> Siblings(ns, PathFromPeak(positions[peak], MMRIndex[leafIndex])),
       peaksLeft |-> SubSeq(peaks, 1, peak - 1),
       peaksRight |-> SubSeq(peaks, peak + 1, Len(peaks))]

(* Fault: the leaf index of the proof is trusted.                          *)
VerifyInclusionUnbound(root, size, leafIndex, value, proof) ==
  LET positions == peakPositions(size)
      position == MMRIndex[proof.leafIndex]
      peak == containingPeak(position, positions)
      steps == PathFromPeak(positions[peak], position)
  IN  /\ proof.size = size
      /\ validMMRSize(size) /\ leafIndex < LeafCount(size)
      /\ Len(proof.peaksLeft) = peak - 1
      /\ Len(proof.peaksRight) = Len(positions) - peak
      /\ Len(steps) = Len(proof.witness)
      /\ root = RootFromPeaks(proof.peaksLeft \o
                  <<Climb(leafHash(value), steps, proof.witness)>> \o
                  proof.peaksRight)

VerifyInclusion(root, size, leafIndex, value, proof) ==
  LET positions == peakPositions(size)
      position == MMRIndex[leafIndex]
      peak == containingPeak(position, positions)
      steps == PathFromPeak(positions[peak], position)
  IN  /\ proof.size = size /\ proof.leafIndex = leafIndex
      /\ validMMRSize(size) /\ leafIndex < LeafCount(size)
      /\ peak # 0
      /\ Len(proof.peaksLeft) = peak - 1
      /\ Len(proof.peaksRight) = Len(positions) - peak
      /\ Len(steps) = Len(proof.witness)
      /\ root = RootFromPeaks(proof.peaksLeft \o
                  <<Climb(leafHash(value), steps, proof.witness)>> \o
                  proof.peaksRight)

-----------------------------------------------------------------------------
(* Consistency proofs.                                                     *)

(* The path from the i-th old peak to the new peak that contains it.       *)
PeakPath(oldPositions, newPositions, i) ==
  PathFromPeak(newPositions[containingPeak(oldPositions[i], newPositions)],
               oldPositions[i])

ConsistencyProofAt(ns, oldSize, newSize) ==
  LET old == peakPositions(oldSize)
      new == peakPositions(newSize)
  IN  [oldSize |-> oldSize, newSize |-> newSize,
       oldPeaks |-> PeakHashesAt(ns, oldSize),
       witness |-> [i \in 1..Len(old) |-> Siblings(ns, PeakPath(old, new, i))],
       newPeaks |-> PeakHashesAt(ns, newSize)]

(* Fault: the old peaks are not bound to the old root.                     *)
VerifyConsistencyUnbound(oldRoot, newRoot, proof) ==
  LET old == peakPositions(proof.oldSize)
      new == peakPositions(proof.newSize)
  IN  /\ proof.oldSize <= proof.newSize
      /\ validMMRSize(proof.oldSize) /\ validMMRSize(proof.newSize)
      /\ RootFromPeaks(proof.newPeaks) = newRoot
      /\ \A i \in 1..Len(old) :
           /\ Len(PeakPath(old, new, i)) = Len(proof.witness[i])
           /\ Climb(proof.oldPeaks[i], PeakPath(old, new, i), proof.witness[i])
                = proof.newPeaks[containingPeak(old[i], new)]

VerifyConsistency(oldRoot, newRoot, proof) ==
  LET old == peakPositions(proof.oldSize)
      new == peakPositions(proof.newSize)
  IN  /\ proof.oldSize <= proof.newSize
      /\ validMMRSize(proof.oldSize) /\ validMMRSize(proof.newSize)
      /\ Len(proof.oldPeaks) = Len(old) /\ Len(proof.newPeaks) = Len(new)
      /\ Len(proof.witness) = Len(old)
      /\ RootFromPeaks(proof.oldPeaks) = oldRoot
      /\ RootFromPeaks(proof.newPeaks) = newRoot
      /\ \A i \in 1..Len(old) :
           /\ containingPeak(old[i], new) # 0
           /\ Len(PeakPath(old, new, i)) = Len(proof.witness[i])
           /\ Climb(proof.oldPeaks[i], PeakPath(old, new, i), proof.witness[i])
                = proof.newPeaks[containingPeak(old[i], new)]

-----------------------------------------------------------------------------
(* Range proofs.                                                           *)

(* The first leaf under each peak.                                         *)
LeafStart(positions, i) ==
  LET start[j \in 1..i] ==
        IF j = 1 THEN 0 ELSE start[j - 1] + 2^IndexHeight[positions[j - 1]]
  IN  start[i]

Outside(height, leafStart, lo, hi) ==
  leafStart + 2^height - 1 < lo \/ leafStart > hi

Inside(height, leafStart, lo, hi) ==
  leafStart >= lo /\ leafStart + 2^height - 1 <= hi

(* rangeWitnesses: the maximal subtrees wholly outside the range, in       *)
(* depth-first order.                                                      *)
RECURSIVE rangeWitnesses(_, _, _, _, _, _)
rangeWitnesses(ns, peak, height, leafStart, lo, hi) ==
  IF Outside(height, leafStart, lo, hi) THEN <<ns[peak + 1]>>
  ELSE IF Inside(height, leafStart, lo, hi) THEN << >>
  ELSE rangeWitnesses(ns, peak - 2^height, height - 1, leafStart, lo, hi) \o
       rangeWitnesses(ns, peak - 1, height - 1,
                      leafStart + 2^(height - 1), lo, hi)

RangeProofAt(ns, fromIndex, toIndex, size) ==
  LET positions == peakPositions(size)
      all[i \in 0..Len(positions)] ==
        IF i = 0 THEN << >>
        ELSE all[i - 1] \o
             rangeWitnesses(ns, positions[i], IndexHeight[positions[i]],
                            LeafStart(positions, i), fromIndex, toIndex)
  IN  [size |-> size, fromIndex |-> fromIndex, toIndex |-> toIndex,
       witness |-> all[Len(positions)]]

(* reconstructRangeSubtree: the subtree's hash and the witnesses left over;*)
(* ok is FALSE when they run out.  bodies are the identities from lo on.   *)
RECURSIVE reconstructRangeSubtree(_, _, _, _, _, _, _)
reconstructRangeSubtree(peak, height, leafStart, lo, hi, bodies, witness) ==
  IF Outside(height, leafStart, lo, hi)
  THEN IF witness = << >> THEN [ok |-> FALSE, hash |-> zeroHash, rest |-> << >>]
       ELSE [ok |-> TRUE, hash |-> Head(witness), rest |-> Tail(witness)]
  ELSE IF height = 0
  THEN [ok |-> TRUE, hash |-> leafHash(bodies[leafStart - lo + 1]),
        rest |-> witness]
  ELSE LET left == reconstructRangeSubtree(peak - 2^height, height - 1,
                     leafStart, lo, hi, bodies, witness)
           right == reconstructRangeSubtree(peak - 1, height - 1,
                      leafStart + 2^(height - 1), lo, hi, bodies, left.rest)
       IN  IF ~left.ok THEN left
           ELSE [right EXCEPT !.hash = interiorHash(left.hash, right.hash, peak)]

(* Fault: witnesses left over are ignored.                                 *)
VerifyRangeLeftover(root, size, fromIndex, toIndex, bodies, proof) ==
  LET positions == peakPositions(size)
      r[i \in 0..Len(positions)] ==
        IF i = 0 THEN [ok |-> TRUE, peaks |-> << >>, rest |-> proof.witness]
        ELSE LET done == r[i - 1]
                 tree == reconstructRangeSubtree(positions[i],
                           IndexHeight[positions[i]], LeafStart(positions, i),
                           fromIndex, toIndex, bodies, done.rest)
             IN  [ok |-> done.ok /\ tree.ok, rest |-> tree.rest,
                  peaks |-> Append(done.peaks, tree.hash)]
  IN  /\ validMMRSize(size) /\ toIndex < LeafCount(size)
      /\ Len(bodies) = toIndex - fromIndex + 1
      /\ r[Len(positions)].ok
      /\ RootFromPeaks(r[Len(positions)].peaks) = root

(* maxMMRSize, the refusal of sizes from 2^50 on, is out of the instance.  *)
VerifyRange(root, size, fromIndex, toIndex, bodies, proof) ==
  LET positions == peakPositions(size)
      r[i \in 0..Len(positions)] ==
        IF i = 0 THEN [ok |-> TRUE, peaks |-> << >>, rest |-> proof.witness]
        ELSE LET done == r[i - 1]
                 tree == reconstructRangeSubtree(positions[i],
                           IndexHeight[positions[i]], LeafStart(positions, i),
                           fromIndex, toIndex, bodies, done.rest)
             IN  [ok |-> done.ok /\ tree.ok, rest |-> tree.rest,
                  peaks |-> Append(done.peaks, tree.hash)]
  IN  /\ proof.size = size
      /\ proof.fromIndex = fromIndex /\ proof.toIndex = toIndex
      /\ fromIndex <= toIndex /\ Len(bodies) = toIndex - fromIndex + 1
      /\ validMMRSize(size) /\ toIndex < LeafCount(size)
      /\ r[Len(positions)].ok /\ r[Len(positions)].rest = << >>
      /\ RootFromPeaks(r[Len(positions)].peaks) = root

-----------------------------------------------------------------------------
Init == leaves = << >> /\ nodes = << >>

(* Tree.Append.                                                            *)
AppendLeaf(v) ==
  /\ Len(leaves) < MaxLeaves
  /\ leaves' = Append(leaves, v)
  /\ nodes' = AddHashedLeaf(nodes, leafHash(v))

Next == \E v \in Value : AppendLeaf(v)

Spec == Init /\ [][Next]_vars

-----------------------------------------------------------------------------
(* The tree over a sequence of identities.                                 *)
Build(values) ==
  LET t[n \in 0..Len(values)] ==
        IF n = 0 THEN << >> ELSE AddHashedLeaf(t[n - 1], leafHash(values[n]))
  IN  t[Len(values)]

(* The sizes of the tree's past and present, by number of leaves.          *)
Past == 0..Len(leaves)

(* The leaves with the one at index i (0-based) replaced by v.             *)
Altered(i, v) == [leaves EXCEPT ![i + 1] = v]

(* The number of nodes and LeafCount agree with the leaves, New accepts    *)
(* the node list, and every earlier tree is a prefix of it: a node list    *)
(* stands for its leaf sequence, as the backend modules assume.            *)
NodesExtendHistory ==
  /\ Len(nodes) = MMRIndex[Len(leaves)] /\ LeafCount(Len(nodes)) = Len(leaves)
  /\ New(nodes)
  /\ \A n \in Past :
       SubSeq(nodes, 1, MMRIndex[n]) = Build(SubSeq(leaves, 1, n))

(* At every past size a generated inclusion proof verifies for exactly the *)
(* leaf it was generated for: the right value at the right index.          *)
InclusionExact ==
  \A n \in Past : \A i \in 0..(n - 1) :
    LET size == MMRIndex[n]
        proof == InclusionProofAt(nodes, i, size)
    IN  \A j \in 0..(n - 1), v \in Value :
          VerifyInclusion(RootAt(nodes, size), size, j, v, proof)
            <=> (j = i /\ v = leaves[i + 1])

(* Between any two past sizes the generated consistency proof verifies,    *)
(* and it verifies for no old root but the true one: a log that changed    *)
(* any covered leaf cannot present its own old peaks with it.              *)
ConsistencyExact ==
  \A n \in Past : \A m \in 0..n :
    LET proof == ConsistencyProofAt(nodes, MMRIndex[m], MMRIndex[n])
        root == RootAt(nodes, MMRIndex[n])
    IN  /\ VerifyConsistency(RootAt(nodes, MMRIndex[m]), root, proof)
        /\ \A i \in 0..(m - 1) : \A v \in Value \ {leaves[i + 1]} :
             LET fork == Build(SubSeq(Altered(i, v), 1, m))
                 forged == [proof EXCEPT !.oldPeaks = PeakHashesAt(fork, Len(fork))]
             IN  /\ ~VerifyConsistency(RootAt(fork, Len(fork)), root, proof)
                 /\ ~VerifyConsistency(RootAt(fork, Len(fork)), root, forged)

(* A generated range proof verifies with the leaves of the range, with no  *)
(* other leaves, and with no witness missing or left over.                 *)
RangeExact ==
  \A n \in Past : \A to \in 0..(n - 1) : \A from \in 0..to :
    LET size == MMRIndex[n]
        proof == RangeProofAt(nodes, from, to, size)
        verify(values, p) == VerifyRange(RootAt(nodes, size), size, from, to,
                               SubSeq(values, from + 1, to + 1), p)
    IN  /\ verify(leaves, proof)
        /\ \A i \in from..to : \A v \in Value \ {leaves[i + 1]} :
             ~verify(Altered(i, v), proof)
        /\ ~verify(leaves, [proof EXCEPT !.witness = Append(@, zeroHash)])
        /\ proof.witness # << >> =>
             ~verify(leaves, [proof EXCEPT !.witness = Tail(@)])
=============================================================================

------------------------------- MODULE Merkle -------------------------------
(***************************************************************************)
(* The tree over canonical event hashes (trellis/merkle.rs).  Hashing is a   *)
(* free construction: a digest is the tuple of what was hashed, so distinct  *)
(* inputs have distinct digests and leaves are never interior nodes.         *)
(***************************************************************************)
EXTENDS Naturals, Sequences

MerkleLeafHash(hash) == <<hash>>
MerkleInteriorHash(left, right) == <<left, right>>
NoRoot == <<>>   \* the all-zero digest

\* A slip: an unpaired node is paired with itself.
NextLevelDuplicating(level) ==
    [k \in 1..((Len(level) + 1) \div 2) |->
        MerkleInteriorHash(level[2 * k - 1],
                           level[IF 2 * k > Len(level) THEN 2 * k - 1 ELSE 2 * k])]

\* One round of pairing: an unpaired last node moves up as it is.
NextLevel(level) ==
    [k \in 1..((Len(level) + 1) \div 2) |->
        IF 2 * k > Len(level) THEN level[2 * k - 1]
        ELSE MerkleInteriorHash(level[2 * k - 1], level[2 * k])]

MerkleRoot(leaves) ==
    LET level[round \in 0..Len(leaves)] ==
            IF round = 0 THEN leaves
            ELSE LET below == level[round - 1]
                 IN  IF Len(below) = 1 THEN below ELSE NextLevel(below)
    IN  IF leaves = <<>> THEN NoRoot ELSE level[Len(leaves)][1]

-----------------------------------------------------------------------------
(* Bit arithmetic on tree indices.                                            *)

TwoTo(n) ==
    LET power[i \in 0..n] == IF i = 0 THEN 1 ELSE 2 * power[i - 1]
    IN  power[n]

Shifted(number, i) == number \div TwoTo(i)   \* number >> i
Bit(number, i) == Shifted(number, i) % 2

CountOnes(number) ==
    LET ones[n \in 0..number] == IF n = 0 THEN 0 ELSE (n % 2) + ones[n \div 2]
    IN  ones[number]

TrailingZeros(number) ==
    CHOOSE i \in 0..number : Bit(number, i) = 1 /\ \A j \in 0..(i - 1) : Bit(number, j) = 0

\* The rounds until the paths of the index and of the last leaf meet.
InnerProofSize(index, size) ==
    CHOOSE n \in 0..size :
        /\ Shifted(index, n) = Shifted(size - 1, n)
        /\ \A m \in 0..(n - 1) : Shifted(index, m) # Shifted(size - 1, m)

BorderProofSize(index, size) == CountOnes(Shifted(index, InnerProofSize(index, size)))

\* Each chain folds a proof into a seed: node[i] is what i siblings make of it.
ChainInner(seed, proof, index) ==
    LET node[i \in 0..Len(proof)] ==
            IF i = 0 THEN seed
            ELSE IF Bit(index, i - 1) = 0 THEN MerkleInteriorHash(node[i - 1], proof[i])
            ELSE MerkleInteriorHash(proof[i], node[i - 1])
    IN  node[Len(proof)]

ChainInnerRight(seed, proof, index) ==
    LET node[i \in 0..Len(proof)] ==
            IF i = 0 THEN seed
            ELSE IF Bit(index, i - 1) = 1 THEN MerkleInteriorHash(proof[i], node[i - 1])
            ELSE node[i - 1]
    IN  node[Len(proof)]

ChainBorderRight(seed, proof) ==
    LET node[i \in 0..Len(proof)] ==
            IF i = 0 THEN seed ELSE MerkleInteriorHash(proof[i], node[i - 1])
    IN  node[Len(proof)]

-----------------------------------------------------------------------------
(* The root a proof leads to, as a set: empty where the code returns an error. *)

\* A slip: the border is reduced instead of folded, and what came before it is lost.
RootFromInclusionProofReduced(index, size, leaf, proof) ==
    LET inner == InnerProofSize(index, size)
        whole == inner + BorderProofSize(index, size)
    IN  IF size = 0 \/ index >= size \/ Len(proof) # whole THEN {}
        ELSE IF whole = inner THEN {ChainInner(leaf, proof, index)}
        ELSE {ChainBorderRight(proof[inner + 1], SubSeq(proof, inner + 2, whole))}

RootFromInclusionProof(index, size, leaf, proof) ==
    LET inner == InnerProofSize(index, size)
        whole == inner + BorderProofSize(index, size)
    IN  IF size = 0 \/ index >= size THEN {}
        ELSE IF Len(proof) # whole THEN {}
        ELSE {ChainBorderRight(ChainInner(leaf, SubSeq(proof, 1, inner), index),
                               SubSeq(proof, inner + 1, whole))}

\* The part of a consistency proof both roots are rebuilt from.  A first tree of
\* 2^shift leaves is itself a node of the second: its root is the seed, and the
\* proof does not repeat it.
ConsistencySeed(size1, root1, proof) ==
    IF size1 = TwoTo(TrailingZeros(size1)) THEN [node |-> root1, rest |-> proof]
    ELSE [node |-> Head(proof), rest |-> Tail(proof)]

\* The roots of the two trees a proof of the right shape rebuilds.
RebuiltRoots(size1, size2, root1, proof) ==
    LET shift == TrailingZeros(size1)
        index == Shifted(size1 - 1, shift)
        inner == InnerProofSize(size1 - 1, size2) - shift
        whole == inner + BorderProofSize(size1 - 1, size2)
        seed == ConsistencySeed(size1, root1, proof)
        side == SubSeq(seed.rest, 1, inner)
        border == SubSeq(seed.rest, inner + 1, whole)
    IN  IF size1 = 0 \/ size2 <= size1 \/ proof = <<>> THEN {}
        ELSE IF inner < 0 \/ Len(seed.rest) # whole THEN {}
        ELSE {[old |-> ChainBorderRight(ChainInnerRight(seed.node, side, index), border),
               new |-> ChainBorderRight(ChainInner(seed.node, side, index), border)]}

\* A slip: the old root is not compared.
RootFromConsistencyProofUnchecked(size1, size2, root1, proof) ==
    IF size1 = size2 THEN IF proof = <<>> THEN {root1} ELSE {}
    ELSE {roots.new : roots \in RebuiltRoots(size1, size2, root1, proof)}

RootFromConsistencyProof(size1, size2, root1, proof) ==
    IF size1 = size2 THEN IF proof = <<>> THEN {root1} ELSE {}
    ELSE {roots.new : roots \in {r \in RebuiltRoots(size1, size2, root1, proof) : r.old = root1}}

-----------------------------------------------------------------------------
(* The definitions of RFC 6962, section 2.1, the code cites: what a root, an  *)
(* audit path and a consistency proof are.                                    *)

\* The largest power of two below n, for n > 1.
SplitPoint(n) == TwoTo(CHOOSE i \in 0..n : TwoTo(i) < n /\ n <= TwoTo(i + 1))

\* The leaves lo..hi-1, as a range <<lo, hi>>, and where it is divided.
Ranges(leaves) == (0..Len(leaves)) \X (0..Len(leaves))
Middle(range) == range[1] + SplitPoint(range[2] - range[1])
LeftOf(range) == <<range[1], Middle(range)>>
RightOf(range) == <<Middle(range), range[2]>>
Single(range) == range[2] <= range[1] + 1

\* MTH(D[lo:hi]), of a range of some leaves.
Subtree(leaves, range) ==
    LET hash[r \in Ranges(leaves)] ==
            IF Single(r) THEN leaves[r[2]]
            ELSE MerkleInteriorHash(hash[LeftOf(r)], hash[RightOf(r)])
    IN  hash[range]

Whole(leaves) == <<0, Len(leaves)>>
TreeHash(leaves) == Subtree(leaves, Whole(leaves))

AuditPath(leaves, index) ==
    LET path[r \in Ranges(leaves)] ==
            IF Single(r) THEN <<>>
            ELSE IF index < Middle(r)
            THEN Append(path[LeftOf(r)], Subtree(leaves, RightOf(r)))
            ELSE Append(path[RightOf(r)], Subtree(leaves, LeftOf(r)))
    IN  path[Whole(leaves)]

\* A range from the first leaf on is a tree the old one has, and its hash is known.
ConsistencyPath(leaves, size) ==
    LET path[r \in Ranges(leaves)] ==
            IF size = r[2] \/ Single(r)
            THEN IF r[1] = 0 THEN <<>> ELSE <<Subtree(leaves, r)>>
            ELSE IF size <= Middle(r)
            THEN Append(path[LeftOf(r)], Subtree(leaves, RightOf(r)))
            ELSE Append(path[RightOf(r)], Subtree(leaves, LeftOf(r)))
    IN  path[Whole(leaves)]
=============================================================================

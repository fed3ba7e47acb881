---------------------------- MODULE MerkleProof ----------------------------
(***************************************************************************)
(* Merkle proofs of inclusion in a block: BuildMerkleTreeStore lays the    *)
(* tree out in an array, NewMerkleProof collects the siblings on the way   *)
(* up and Check folds them again.  The server makes the proof of a         *)
(* commitment's transaction in processMerkleProofs; clients check it.      *)
(*                                                                         *)
(* Indices are the code's, from 0; element i of an array is a[i + 1].      *)
(* Hashes are symbolic: a transaction's, or the hash of two.               *)
(***************************************************************************)
EXTENDS Naturals, Sequences, SequencesExt, Inputs

CONSTANT MaxTransactions  \* bound: transactions of a block

ASSUME SizeAssumption == MaxTransactions \in Nat \ {0}

NoHash == [nil |-> TRUE]
TxHashOf(i) == [transaction |-> i]
HashMerkleBranches(l, r) == [left |-> l, right |-> r]
Neighbour(i) == IF i % 2 = 0 THEN i + 1 ELSE i - 1   \* i^1

calcTreeHeight(n) == CHOOSE e \in 0..n : 2^e >= n /\ \A d \in 0..(e - 1) : 2^d < n

nextPowerOfTwo(n) == 2^calcTreeHeight(n)

\* Mutant: a node with a single child is the hash of that child alone.
BuildWithoutDoubling(n) ==
  LET leaves == nextPowerOfTwo(n)
      store[i \in 0..(2 * leaves - 2)] ==
        IF i < leaves
        THEN IF i < n THEN TxHashOf(i) ELSE NoHash
        ELSE LET l == store[2 * (i - leaves)]
                 r == store[2 * (i - leaves) + 1]
             IN  IF l = NoHash THEN NoHash ELSE IF r = NoHash THEN l
                 ELSE HashMerkleBranches(l, r)
  IN  [i \in 1..(2 * leaves - 1) |-> store[i - 1]]

\* The loop puts the parent of 2k and 2k+1 at index nextPoT + k.
BuildMerkleTreeStore(n) ==
  LET nextPoT == nextPowerOfTwo(n)
      store[i \in 0..(2 * nextPoT - 2)] ==
        IF i < nextPoT
        THEN IF i < n THEN TxHashOf(i) ELSE NoHash
        ELSE LET l == store[2 * (i - nextPoT)]
                 r == store[2 * (i - nextPoT) + 1]
             IN  IF l = NoHash THEN NoHash
                 ELSE HashMerkleBranches(l, IF r = NoHash THEN l ELSE r)
  IN  [i \in 1..(2 * nextPoT - 1) |-> store[i - 1]]

\* (idx >> 1) | (1 << treeHeight), for an index below 1 << (treeHeight + 1).
ParentIndex(idx, treeHeight) == (idx \div 2) + 2^treeHeight

PathUp(idx, treeHeight) ==
  LET at[i \in 0..treeHeight] ==
        IF i = 0 THEN idx ELSE ParentIndex(at[i - 1], treeHeight)
  IN  at

\* Mutant: a missing sibling is left missing.
ProofWithNil(tree, idx) ==
  LET treeHeight == calcTreeHeight((Len(tree) + 1) \div 2)
      path == PathUp(idx, treeHeight)
  IN  [Position |-> idx,
       Hashes |-> [i \in 1..treeHeight |-> tree[Neighbour(path[i - 1]) + 1]]]

NewMerkleProof(tree, idx) ==
  LET treeHeight == calcTreeHeight((Len(tree) + 1) \div 2)
      path == PathUp(idx, treeHeight)
      sibling(i) == tree[Neighbour(path[i]) + 1]
  IN  [Position |-> idx,
       Hashes |-> [i \in 1..treeHeight |->
                     IF sibling(i - 1) = NoHash THEN tree[path[i - 1] + 1]
                     ELSE sibling(i - 1)]]

CheckMerkleProof(p, hash, expectedRoot) ==
  LET treeHeight == Len(p.Hashes)
      path == PathUp(p.Position, treeHeight)
      folded[i \in 0..treeHeight] ==
        IF i = 0 THEN hash
        ELSE IF path[i - 1] % 2 = 1
             THEN HashMerkleBranches(p.Hashes[i], folded[i - 1])
             ELSE HashMerkleBranches(folded[i - 1], p.Hashes[i])
  IN  folded[treeHeight] = expectedRoot
-----------------------------------------------------------------------------
\* A block and one of its transactions.
MerkleInputs ==
  UNION {{[kind |-> "merkle", transactions |-> n, idx |-> i] : i \in 0..(n - 1)} :
           n \in 1..MaxTransactions}

(***************************************************************************)
(* Bitcoin's rule, level by level: hash neighbours, the last one with      *)
(* itself when it has none.                                                *)
(***************************************************************************)
RECURSIVE MerkleRoot(_)
MerkleRoot(level) ==
  IF Len(level) = 1 THEN level[1]
  ELSE MerkleRoot([k \in 1..((Len(level) + 1) \div 2) |->
                     HashMerkleBranches(level[2 * k - 1],
                       IF 2 * k <= Len(level) THEN level[2 * k]
                       ELSE level[2 * k - 1])])

(***************************************************************************)
(* For every number of transactions, powers of two and not, the last       *)
(* element of the array is the block's Merkle root, and Check accepts a    *)
(* proof for the transaction it was made for, so the server's "sanity      *)
(* check" does not panic, and for no other one of the block, duplicated    *)
(* siblings included (BuildMerkleTreeStore, NewMerkleProof, Check).        *)
(***************************************************************************)
ProofIsExact ==
  input.kind = "merkle" =>
    \E merkles \in {BuildMerkleTreeStore(input.transactions)} :
      /\ Last(merkles) = MerkleRoot([i \in 1..input.transactions |-> TxHashOf(i - 1)])
      /\ \E p \in {NewMerkleProof(merkles, input.idx)} :
           \A i \in 0..(input.transactions - 1) :
             CheckMerkleProof(p, TxHashOf(i), Last(merkles)) = (i = input.idx)
=============================================================================

-------------------------------- MODULE Mpt --------------------------------
(***************************************************************************)
(* The Merkle prefix trie of src/mpt: its nodes, the full trie the server  *)
(* keeps (FullMPT), the delta between two commitments (DeltaMPT) and the   *)
(* pruned trie that proves a set of keys to a client (PartialMPT).         *)
(*                                                                         *)
(* A key is a sequence of bits, a hash is a symbolic term: two hashes are  *)
(* equal exactly when they hash the same bytes.  A 32-byte hash that was   *)
(* allocated and never computed is all zeroes, which is also the hash of   *)
(* the empty leaf.  Nodes carry the two flags of the code: changed (since  *)
(* the last Reset) and recalculateHash (the cached hash is not valid).     *)
(*                                                                         *)
(* The bit index of the code starts at -1 and is incremented before use;   *)
(* here d is the position in the key of the bit that is read next, from 1. *)
(***************************************************************************)
EXTENDS Naturals, Sequences, FiniteSets

None == <<"none">>                      \* Get: the key is not mapped
StubMet == <<"stub">>                   \* Get: "Stub encountered"
NilMet == <<"nil">>                     \* Get: the walk met a missing child

----------------------------------------------------------------------------
(* Hashes. *)

Zero == <<"zero">>
WitnessKeyAndValue(k, v) == <<"leaf", k, v>>

\* The digest of the concatenation of the hashes of the children there are.
Sum256(parts) == <<"node">> \o parts

----------------------------------------------------------------------------
(* Nodes. *)

Nil == [kind |-> "nil"]
NewEmptyLeafNode == [kind |-> "empty"]
NewStub(h) == [kind |-> "stub", hash |-> h]

NewDictionaryLeafNode(k, v) ==
    [kind |-> "leaf", key |-> k, value |-> v, hash |-> Zero,
     changed |-> TRUE, recalculateHash |-> TRUE]

NewDictionaryLeafNodeCachedHash(k, v, h) ==
    [NewDictionaryLeafNode(k, v) EXCEPT !.hash = h, !.recalculateHash = FALSE]

NewInteriorNode(l, r) ==
    [kind |-> "interior", left |-> l, right |-> r, hash |-> Zero,
     changed |-> TRUE, recalculateHash |-> TRUE]

NewInteriorNodeWithCachedHash(l, r, h) ==
    [NewInteriorNode(l, r) EXCEPT !.hash = h, !.recalculateHash = FALSE]

IsStub(n) == n.kind = "stub"
IsEmpty(n) == n.kind = "empty"
IsLeaf(n) == n.kind \in {"empty", "leaf"}
IsInterior(n) == n.kind = "interior"

\* Empty leaves and stubs are never changed.
Changed(n) == n.kind \in {"leaf", "interior"} /\ n.changed

GetLeftChild(n) == IF IsInterior(n) THEN n.left ELSE Nil
GetRightChild(n) == IF IsInterior(n) THEN n.right ELSE Nil

\* The children are set with the node marked changed and its hash invalid.
SetLeftChild(n, child) ==
    [n EXCEPT !.left = child, !.changed = TRUE, !.recalculateHash = TRUE]

SetRightChild(n, child) ==
    [n EXCEPT !.right = child, !.changed = TRUE, !.recalculateHash = TRUE]

\* A forgotten invalidation of the cached hash.
SetValueKeepsHash(n, v) ==
    IF n.value = v THEN n ELSE [n EXCEPT !.value = v, !.changed = TRUE]

SetValue(n, v) ==
    IF n.value = v
    THEN n
    ELSE [n EXCEPT !.value = v, !.changed = TRUE, !.recalculateHash = TRUE]

\* Only leaves are ever marked changed on their own: a leaf that moves.
MarkChangedAll(leaf) == [leaf EXCEPT !.changed = TRUE]

RECURSIVE MarkUnchangedAll(_)
MarkUnchangedAll(n) ==
    CASE n.kind = "leaf" -> [n EXCEPT !.changed = FALSE]
      [] IsInterior(n) ->
           [n EXCEPT
              !.left = IF Changed(@) THEN MarkUnchangedAll(@) ELSE @,
              !.right = IF Changed(@) THEN MarkUnchangedAll(@) ELSE @,
              !.changed = FALSE]
      [] OTHER -> n

(* GetHash computes what is marked invalid and caches it: Hashed(n) is n    *)
(* after the call, GetHash(n) what the call returns.                        *)
HashPart(n) ==
    CASE n.kind = "nil" -> <<>>
      [] n.kind = "empty" -> <<Zero>>
      [] OTHER -> <<n.hash>>

RECURSIVE Hashed(_)
Hashed(n) ==
    CASE n.kind = "leaf" /\ n.recalculateHash ->
           [n EXCEPT !.hash = WitnessKeyAndValue(n.key, n.value),
                     !.recalculateHash = FALSE]
      [] IsInterior(n) /\ n.recalculateHash ->
           LET l == Hashed(n.left)
               r == Hashed(n.right)
           IN  [n EXCEPT !.left = l, !.right = r,
                         !.hash = Sum256(HashPart(l) \o HashPart(r)),
                         !.recalculateHash = FALSE]
      [] OTHER -> n

GetHash(n) == IF IsEmpty(n) THEN Zero ELSE Hashed(n).hash

\* A copy takes the cached hashes as they are and declares them valid.
RECURSIVE DeepCopy(_)
DeepCopy(n) ==
    CASE n.kind = "leaf" ->
           NewDictionaryLeafNodeCachedHash(n.key, n.value, n.hash)
      [] IsInterior(n) ->
           NewInteriorNodeWithCachedHash(DeepCopy(n.left), DeepCopy(n.right),
                                         n.hash)
      [] OTHER -> n

(* Serialize followed by DeserializeNode: hashes and flags of leaves and    *)
(* interior nodes are not on the wire, a missing child stays missing.       *)
RECURSIVE Deserialized(_)
Deserialized(n) ==
    CASE n.kind = "leaf" -> NewDictionaryLeafNode(n.key, n.value)
      [] IsInterior(n) ->
           NewInteriorNode(Deserialized(n.left), Deserialized(n.right))
      [] OTHER -> n

----------------------------------------------------------------------------
(* FullMPT: the dictionary. *)

NewFullMPT == NewInteriorNode(NewEmptyLeafNode, NewEmptyLeafNode)

GetBit(k, d) == k[d] = 1

\* A split that puts the two leaves on the wrong sides.
RECURSIVE splitSwapped(_, _, _)
splitSwapped(a, b, d) ==
    IF GetBit(a.key, d) = GetBit(b.key, d)
    THEN LET res == splitSwapped(a, b, d + 1)
         IN  IF GetBit(a.key, d)
             THEN NewInteriorNode(NewEmptyLeafNode, res)
             ELSE NewInteriorNode(res, NewEmptyLeafNode)
    ELSE IF GetBit(a.key, d)
         THEN NewInteriorNode(a, b)
         ELSE NewInteriorNode(b, a)

RECURSIVE split(_, _, _)
split(a, b, d) ==
    IF GetBit(a.key, d) = GetBit(b.key, d)
    THEN LET res == split(a, b, d + 1)
         IN  IF GetBit(a.key, d)
             THEN NewInteriorNode(NewEmptyLeafNode, res)
             ELSE NewInteriorNode(res, NewEmptyLeafNode)
    ELSE IF GetBit(a.key, d)
         THEN NewInteriorNode(b, a)
         ELSE NewInteriorNode(a, b)

\* A split that forgets that the leaf it moves has changed its place.
RECURSIVE insertHelperKeepsMark(_, _, _, _)
insertHelperKeepsMark(k, v, d, n) ==
    CASE n.kind = "leaf" /\ n.key = k -> SetValue(n, v)
      [] IsEmpty(n) -> NewDictionaryLeafNode(k, v)
      [] n.kind = "leaf" /\ n.key # k ->
           split(n, NewDictionaryLeafNode(k, v), d)
      [] IsInterior(n) /\ GetBit(k, d) ->
           SetRightChild(n, insertHelperKeepsMark(k, v, d + 1, n.right))
      [] IsInterior(n) /\ ~GetBit(k, d) ->
           SetLeftChild(n, insertHelperKeepsMark(k, v, d + 1, n.left))

RECURSIVE insertHelper(_, _, _, _)
insertHelper(k, v, d, n) ==
    CASE n.kind = "leaf" /\ n.key = k -> SetValue(n, v)
      [] IsEmpty(n) -> NewDictionaryLeafNode(k, v)
      [] n.kind = "leaf" /\ n.key # k ->
           split(MarkChangedAll(n), NewDictionaryLeafNode(k, v), d)
      [] IsInterior(n) /\ GetBit(k, d) ->
           SetRightChild(n, insertHelper(k, v, d + 1, n.right))
      [] IsInterior(n) /\ ~GetBit(k, d) ->
           SetLeftChild(n, insertHelper(k, v, d + 1, n.left))

Insert(root, k, v) == insertHelper(k, v, 1, root)

RECURSIVE getHelper(_, _, _)
getHelper(n, k, d) ==
    CASE n.kind = "leaf" -> IF n.key = k THEN n.value ELSE None
      [] IsEmpty(n) -> None
      [] IsInterior(n) -> getHelper(IF GetBit(k, d) THEN n.right ELSE n.left,
                                    k, d + 1)

Get(root, k) == getHelper(root, k, 1)

\* The node an interior node n becomes when the child on one side is replaced
\* by child and the one on the other side is sibling; set stores the child.
Pushed(child, sibling, isRoot, set) ==
    CASE ~isRoot /\ IsEmpty(sibling) /\ IsLeaf(child) -> child
      [] ~isRoot /\ IsEmpty(child) /\ sibling.kind = "leaf" ->
           MarkChangedAll(sibling)
      [] OTHER -> set

\* A delete that leaves a lone leaf below an interior node.
RECURSIVE deleteHelperNoPush(_, _, _, _)
deleteHelperNoPush(k, d, n, isRoot) ==
    CASE n.kind = "leaf" -> IF n.key = k THEN NewEmptyLeafNode ELSE n
      [] IsEmpty(n) -> n
      [] IsInterior(n) /\ GetBit(k, d) ->
           SetRightChild(n, deleteHelperNoPush(k, d + 1, n.right, FALSE))
      [] IsInterior(n) /\ ~GetBit(k, d) ->
           SetLeftChild(n, deleteHelperNoPush(k, d + 1, n.left, FALSE))

RECURSIVE deleteHelper(_, _, _, _)
deleteHelper(k, d, n, isRoot) ==
    CASE n.kind = "leaf" -> IF n.key = k THEN NewEmptyLeafNode ELSE n
      [] IsEmpty(n) -> n
      [] IsInterior(n) /\ GetBit(k, d) ->
           LET r == deleteHelper(k, d + 1, n.right, FALSE)
           IN  Pushed(r, n.left, isRoot, SetRightChild(n, r))
      [] IsInterior(n) /\ ~GetBit(k, d) ->
           LET l == deleteHelper(k, d + 1, n.left, FALSE)
           IN  Pushed(l, n.right, isRoot, SetLeftChild(n, l))

Delete(root, k) == deleteHelper(k, 1, root, TRUE)

Commitment(root) == GetHash(root)

----------------------------------------------------------------------------
(* DeltaMPT: what changed since the last Reset. *)

RECURSIVE copyChangesOnlyHelper(_)
copyChangesOnlyHelper(n) ==
    CASE ~Changed(n) -> NewStub(GetHash(n))
      [] Changed(n) /\ n.kind = "leaf" ->
           NewDictionaryLeafNodeCachedHash(n.key, n.value, GetHash(n))
      [] Changed(n) /\ IsInterior(n) ->
           NewInteriorNodeWithCachedHash(copyChangesOnlyHelper(n.left),
                                         copyChangesOnlyHelper(n.right),
                                         GetHash(n))

NewDeltaMPT(root) ==
    NewInteriorNode(copyChangesOnlyHelper(root.left),
                    copyChangesOnlyHelper(root.right))

RightKeys(keys, d) == {k \in keys : GetBit(k, d)}
LeftKeys(keys, d) == {k \in keys : ~GetBit(k, d)}

RECURSIVE getUpdatesHelper(_, _, _)
getUpdatesHelper(keys, n, d) ==
    CASE IsStub(n) -> Nil
      [] IsEmpty(n) -> NewEmptyLeafNode
      [] n.kind \in {"leaf", "interior"} /\ keys = {} -> NewStub(GetHash(n))
      [] n.kind = "leaf" /\ keys # {} ->
           NewDictionaryLeafNodeCachedHash(n.key, n.value, GetHash(n))
      [] IsInterior(n) /\ keys # {} ->
           NewInteriorNodeWithCachedHash(
               getUpdatesHelper(LeftKeys(keys, d), n.left, d + 1),
               getUpdatesHelper(RightKeys(keys, d), n.right, d + 1),
               GetHash(n))

GetUpdatesForKeys(delta, keys) == getUpdatesHelper(keys, delta, 1)

----------------------------------------------------------------------------
(* PartialMPT: the proof for a set of keys, and its update by a delta. *)

\* A proof that keeps only the leaves of the keys it was asked for.
RECURSIVE copyMultiplePathsPruned(_, _, _)
copyMultiplePathsPruned(keys, n, d) ==
    CASE IsEmpty(n) -> NewEmptyLeafNode
      [] n.kind = "leaf" /\ n.key \in keys ->
           NewDictionaryLeafNodeCachedHash(n.key, n.value, GetHash(n))
      [] IsInterior(n) /\ keys # {} ->
           NewInteriorNodeWithCachedHash(
               copyMultiplePathsPruned(LeftKeys(keys, d), n.left, d + 1),
               copyMultiplePathsPruned(RightKeys(keys, d), n.right, d + 1),
               GetHash(n))
      [] OTHER -> NewStub(GetHash(n))

RECURSIVE copyMultiplePaths(_, _, _)
copyMultiplePaths(keys, n, d) ==
    CASE IsEmpty(n) -> NewEmptyLeafNode
      [] ~IsEmpty(n) /\ keys = {} -> NewStub(GetHash(n))
      [] n.kind = "leaf" /\ keys # {} ->
           NewDictionaryLeafNodeCachedHash(n.key, n.value, GetHash(n))
      [] IsInterior(n) /\ keys # {} ->
           NewInteriorNodeWithCachedHash(
               copyMultiplePaths(LeftKeys(keys, d), n.left, d + 1),
               copyMultiplePaths(RightKeys(keys, d), n.right, d + 1),
               GetHash(n))

NewPartialMPTIncludingKeys(root, keys) == copyMultiplePaths(keys, root, 1)

RECURSIVE partialGetHelper(_, _, _)
partialGetHelper(n, k, d) ==
    CASE IsStub(n) -> StubMet
      [] n.kind = "nil" -> NilMet
      [] n.kind = "leaf" -> IF n.key = k THEN n.value ELSE None
      [] IsEmpty(n) -> None
      [] IsInterior(n) ->
           partialGetHelper(IF GetBit(k, d) THEN n.right ELSE n.left, k, d + 1)

PartialGet(proof, k) == partialGetHelper(proof, k, 1)

RECURSIVE UpdateNode(_, _)
UpdateNode(n, n2) ==
    IF IsInterior(n2)
    THEN NewInteriorNode(
            IF n2.left.kind = "nil" THEN GetLeftChild(n)
            ELSE UpdateNode(GetLeftChild(n), n2.left),
            IF n2.right.kind = "nil" THEN GetRightChild(n)
            ELSE UpdateNode(GetRightChild(n), n2.right))
    ELSE n2

ProcessUpdates(proof, delta) == UpdateNode(proof, delta)

----------------------------------------------------------------------------
(* The reference the trie is checked against: the commitment of a set of    *)
(* mappings m (a function on the keys that are mapped), with no history.    *)
RECURSIVE Reference(_, _, _)
Reference(m, keys, d) ==
    CASE keys = {} /\ d > 1 -> Zero
      [] Cardinality(keys) = 1 /\ d > 1 ->
           LET k == CHOOSE x \in keys : TRUE IN WitnessKeyAndValue(k, m[k])
      [] OTHER -> Sum256(<<Reference(m, LeftKeys(keys, d), d + 1),
                           Reference(m, RightKeys(keys, d), d + 1)>>)

ReferenceCommitment(m) == Reference(m, {k \in DOMAIN m : m[k] # None}, 1)
============================================================================

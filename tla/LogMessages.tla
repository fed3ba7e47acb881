---------------------------- MODULE LogMessages ----------------------------
(***************************************************************************)
(* The messages between clients and the server (src/wire), the bytes of    *)
(* tries (src/mpt) and of what both sides keep on disk.                    *)
(*                                                                         *)
(* Hashes, keys, values and signatures are tokens of their size.  Where a  *)
(* reader ignores the error of a short read, the field keeps the value it  *)
(* had, which is all zeroes (NoBytes) unless it was read before.           *)
(***************************************************************************)
EXTENDS WireFormat, Mpt

HashLength == 32
NoBytes == <<"zeroes">>

\* buf.Next(n): n bytes or all there are.
NextBytes(stream, n) ==
  LET k == CHOOSE k \in 0..Len(stream) :
             /\ SizeOf(SubSeq(stream, 1, k)) <= n
             /\ k < Len(stream) => SizeOf(SubSeq(stream, 1, k + 1)) > n
  IN  Ok(SubSeq(stream, 1, k), SubSeq(stream, k + 1, Len(stream)))

\* A field whose error is not looked at.
Lenient(stream, size, before) ==
  LET Of(read) == IF read.err THEN Ok(before, stream) ELSE read
  IN  Of(readElement(stream, size))

\* Several, given as pairs of a size and the value before.
Leniently(stream, fields) ==
  LET With(values, read) == Ok(Append(values, read.value), read.rest)
  IN  FoldLeft(LAMBDA sofar, f : With(sofar.value, Lenient(sofar.rest, f[1], f[2])),
               Ok(<<>>, stream), fields)

-----------------------------------------------------------------------------
(* Tries.                                                                  *)

NodeTypeStub == 0
NodeTypeDictionaryLeaf == 1
NodeTypeEmptyLeaf == 2
NodeTypeInterior == 3

RECURSIVE ByteSize(_)
ByteSize(n) ==
  CASE n.kind = "nil" -> 0
    [] n.kind = "empty" -> 1
    [] n.kind = "stub" -> 5 + HashLength
    [] n.kind = "leaf" -> 9 + HashLength + HashLength
    [] n.kind = "interior" -> 9 + ByteSize(n.left) + ByteSize(n.right)

\* An int32 length and as many bytes.
Sized(value) == writeElement(4, HashLength) \o writeElement(HashLength, value)

RECURSIVE Serialize(_)
Serialize(n) ==
  LET Child(c) == writeElement(4, ByteSize(c)) \o Serialize(c)
  IN  CASE n.kind = "nil" -> <<>>
        [] n.kind = "empty" -> writeElement(1, NodeTypeEmptyLeaf)
        [] n.kind = "stub" -> writeElement(1, NodeTypeStub) \o Sized(n.hash)
        [] n.kind = "leaf" ->
             writeElement(1, NodeTypeDictionaryLeaf) \o Sized(n.key) \o Sized(n.value)
        [] n.kind = "interior" ->
             writeElement(1, NodeTypeInterior) \o Child(n.left) \o Child(n.right)

\* No key, value or stub is empty.
ReadSized(stream) ==
  LET Bytes(iLen) == IF iLen.err \/ iLen.value = 0 THEN Fails ELSE readElement(iLen.rest, iLen.value)
  IN  Bytes(readElement(stream, 4))

DeserializeNewStub(stream) ==
  LET Of(stub) == IF stub.err THEN Fails ELSE Ok(NewStub(stub.value), stub.rest)
  IN  Of(ReadSized(stream))

DeserializeNewDictionaryLeafNode(stream) ==
  LET Leaf(key, value) == IF key.err \/ value.err THEN Fails
                          ELSE Ok(NewDictionaryLeafNode(key.value, value.value), value.rest)
      Of(key) == Leaf(key, ReadSized(key.rest))
  IN  Of(ReadSized(stream))

RECURSIVE DeserializeNode(_), DeserializeNewInteriorNode(_)

DeserializeNode(stream) ==
  LET Of(type) ==
        IF type.err THEN Fails
        ELSE CASE type.value = NodeTypeStub -> DeserializeNewStub(type.rest)
               [] type.value = NodeTypeDictionaryLeaf -> DeserializeNewDictionaryLeafNode(type.rest)
               [] type.value = NodeTypeEmptyLeaf -> Ok(NewEmptyLeafNode, type.rest)
               [] type.value = NodeTypeInterior -> DeserializeNewInteriorNode(type.rest)
               [] OTHER -> Fails
  IN  Of(readElement(stream, 1))

\* The size of a child only says whether there is one.
DeserializeNewInteriorNode(stream) ==
  LET Child(iLen) == IF iLen.err THEN Fails
                     ELSE IF iLen.value > 0 THEN DeserializeNode(iLen.rest)
                     ELSE Ok(Nil, iLen.rest)
      Interior(left, right) == IF left.err \/ right.err THEN Fails
                               ELSE Ok(NewInteriorNode(left.value, right.value), right.rest)
      Of(left) == Interior(left, Child(readElement(left.rest, 4)))
  IN  Of(Child(readElement(stream, 4)))

\* A full, a partial and a delta tree alike: the root must be interior.
DeserializeTree(stream) ==
  LET Rooted(possibleRoot) ==
        IF possibleRoot.err \/ ~IsInterior(possibleRoot.value) THEN Fails ELSE possibleRoot
  IN  Rooted(DeserializeNode(stream))

-----------------------------------------------------------------------------
(* Statements.                                                             *)

LogStatement == <<Fixed("LogID", 32), VarInt("Index"), VarBytes("Statement", Unlimited)>>
CreateLogStatement == <<Fixed("ControllingKey", 33), VarBytes("InitialStatement", Unlimited)>>
SignedLogStatement == <<Fixed("Signature", 64), Sub("Statement", LogStatement)>>
SignedCreateLogStatement == <<Fixed("Signature", 64), Sub("CreateStatement", CreateLogStatement)>>

\* Digests and signatures are symbolic; a key signs a digest in one way (RFC 6979).
Sum256Of(bytes) == <<"sha256", bytes>>
Sign(key, hash) == <<"signature", key, hash>>
VerifySig(bytes, pubKey, sig) == sig = Sign(pubKey, Sum256Of(bytes))

VerifyCreate(scls) ==
  VerifySig(Encode(CreateLogStatement, scls.CreateStatement),
            scls.CreateStatement.ControllingKey, scls.Signature)
VerifyAppend(sls, pubKey) ==
  VerifySig(Encode(LogStatement, sls.Statement), pubKey, sls.Signature)

-----------------------------------------------------------------------------
(* Requests and answers.                                                   *)

RequestProofBytes(logIDs) == FlattenSeq([i \in DOMAIN logIDs |-> writeElement(32, logIDs[i])])

RECURSIVE NewRequestProofMessageFromBytes(_)
NewRequestProofMessageFromBytes(b) ==
  IF b = <<>> THEN <<>>
  ELSE LET logID == Lenient(b, 32, NoBytes)
       IN  <<logID.value>> \o NewRequestProofMessageFromBytes(NextBytes(b, 32).rest)

\* RequestCommitmentDetails and RequestCommitmentHistory: one hash.
RequestCommitmentBytes(commitment) == writeElement(32, commitment)
NewRequestCommitmentFromBytes(b) == Lenient(b, 32, NoBytes).value

MerkleProofBytes(m) ==
  writeElement(8, m.Position) \o FlattenSeq([i \in DOMAIN m.Hashes |-> writeElement(32, m.Hashes[i])])

NewMerkleProofFromBytes(b) ==
  LET Of(position, hashes) ==
        [Position |-> position, Hashes |-> [i \in DOMAIN hashes |-> hashes[i][2]]]
      With(position) == Of(position.value, SelectSeq(position.rest, LAMBDA token : token[1] = 32))
  IN  With(Lenient(b, 8, 0))

\* A hash that may be nil: the set of it.
HashOrZeroes(hash) == writeElement(32, IF hash = {} THEN NoBytes ELSE CHOOSE h \in hash : TRUE)
NilIfZeroes(value) == IF value = NoBytes THEN {} ELSE {value}

CommitmentBytes(c) ==
  writeElement(32, c.Commitment) \o HashOrZeroes(c.TxHash)
  \o writeElement(4, c.TriggeredAtBlockHeight) \o HashOrZeroes(c.IncludedInBlock)
  \o writeElement(4, SizeOf(MerkleProofBytes(c.MerkleProof))) \o MerkleProofBytes(c.MerkleProof)
  \o c.RawTx

\* One variable holds the height and then the length of the proof.
CommitmentFromBytes(b) ==
  LET Parts(v, proof) ==
        [Commitment |-> v[1], TxHash |-> NilIfZeroes(v[2]), TriggeredAtBlockHeight |-> v[3],
         IncludedInBlock |-> NilIfZeroes(v[4]),
         MerkleProof |-> NewMerkleProofFromBytes(proof.value), RawTx |-> proof.rest]
      WithLength(v, length) == Parts(v, NextBytes(length.rest, length.value))
      Of(head) == WithLength(head.value, Lenient(head.rest, 4, head.value[3]))
  IN  Of(Leniently(b, <<<<32, NoBytes>>, <<32, NoBytes>>, <<4, 0>>, <<32, NoBytes>>>>))

CommitmentHistoryBytes(commitments) ==
  writeElement(4, Len(commitments))
  \o FlattenSeq([i \in DOMAIN commitments |->
                   writeElement(4, SizeOf(CommitmentBytes(commitments[i])))
                   \o CommitmentBytes(commitments[i])])

\* As many commitments as there are, each with its length before.
ReadCommitments(b, One(_, _)) ==
  LET All(num) == FoldLeft(LAMBDA sofar, i : One(sofar.value, Lenient(sofar.rest, 4, 0)),
                           Ok(<<>>, num.rest), [i \in 1..num.value |-> i]).value
  IN  All(Lenient(b, 4, 0))

\* Mutant: the length is taken for the whole of the rest.
CommitmentHistoryUnframed(b) ==
  LET One(done, length) == Ok(Append(done, CommitmentFromBytes(length.rest)),
                              NextBytes(length.rest, length.value).rest)
  IN  ReadCommitments(b, One)

NewCommitmentHistoryMessageFromBytes(b) ==
  LET With(done, bytes) == Ok(Append(done, CommitmentFromBytes(bytes.value)), bytes.rest)
      One(done, length) == With(done, NextBytes(length.rest, length.value))
  IN  ReadCommitments(b, One)

-----------------------------------------------------------------------------
(* Foreign statements, with a proof or Nil; outputs a wallet keeps.        *)

ForeignStatementBytes(f) ==
  writeElement(1, IF f.InitialStatement THEN 1 ELSE 0) \o writeElement(32, f.LogID)
  \o writeElement(64, f.Signature) \o writeElement(33, f.PubKey) \o writeElement(8, f.Index)
  \o writeElement(4, SizeOf(f.StatementPreimage)) \o f.StatementPreimage
  \o writeElement(4, ByteSize(f.Proof)) \o Serialize(f.Proof)

ForeignStatementFromBytes(b) ==
  LET ProofOf(read) == IF read.err THEN Nil ELSE read.value
      Statement(v, preimage, size) ==
        [InitialStatement |-> v[1] = 1, LogID |-> v[2], Signature |-> v[3], PubKey |-> v[4],
         Index |-> v[5], StatementPreimage |-> preimage,
         Proof |-> IF size.value > 0 THEN ProofOf(DeserializeTree(size.rest)) ELSE Nil]
      WithText(v, text) == Statement(v, text.value, Lenient(text.rest, 4, v[6]))
      Of(head) == WithText(head.value, NextBytes(head.rest, head.value[6]))
  IN  Of(Leniently(b, <<<<1, 0>>, <<32, NoBytes>>, <<64, NoBytes>>, <<33, NoBytes>>, <<8, 0>>, <<4, 0>>>>))

UtxoBytes(u) ==
  writeElement(32, u.TxHash) \o writeElement(4, u.Outpoint) \o writeElement(8, u.Value) \o u.PkScript

UtxoFromBytes(b) ==
  LET Of(head) == [TxHash |-> head.value[1], Outpoint |-> head.value[2], Value |-> head.value[3],
                   PkScript |-> head.rest]
  IN  Of(Leniently(b, <<<<32, NoBytes>>, <<4, 0>>, <<8, 0>>>>))

-----------------------------------------------------------------------------
(* Connection.                                                             *)

ConnectionWriteMessage(t, m) == writeElement(1, t) \o writeElement(4, SizeOf(m)) \o m

ReadNextMessage(stream) ==
  LET Message(type, bMsg) == IF bMsg.err THEN Fails ELSE Ok(<<type, bMsg.value>>, bMsg.rest)
      WithLength(type, bLen) == IF bLen.err THEN Fails ELSE Message(type, ReadFull(bLen.rest, bLen.value))
      Of(bType) == IF bType.err THEN Fails ELSE WithLength(bType.value, readElement(bType.rest, 4))
  IN  Of(readElement(stream, 1))
=============================================================================

-------------------------- MODULE BtcTransactions --------------------------
(***************************************************************************)
(* Transactions and blocks on the wire (src/bitcoin/wire/msgtx.go and      *)
(* msgblock.go).                                                           *)
(*                                                                         *)
(* A script is a byte string.  The witness of an input is {} where the     *)
(* slice is nil and the set of its one sequence of items otherwise.        *)
(***************************************************************************)
EXTENDS BtcMessages

CONSTANTS
  maxWitnessItemsPerInput,  \* 500000
  maxWitnessItemSize,       \* 11000
  freeListMaxScriptSize     \* 512

minTxInPayload == 9 + HashSize
maxTxInPerMessage == (MaxMessagePayload \div minTxInPayload) + 1
minTxOutPayload == 9
maxTxOutPerMessage == (MaxMessagePayload \div minTxOutPayload) + 1

BaseEncoding == 1
WitnessEncoding == 2

Items(witness) == IF witness = {} THEN <<>> ELSE CHOOSE items \in witness : TRUE

HasWitness(msg) == \E i \in DOMAIN msg.TxIn : Items(msg.TxIn[i].Witness) # <<>>

Total(f(_), seq) == FoldLeft(LAMBDA n, e : n + f(e), 0, seq)

-----------------------------------------------------------------------------
(* Writing.                                                                *)

writeOutPoint(op) == writeElement(HashSize, op.Hash) \o writeElement(4, op.Index)

writeTxIn(ti) ==
  writeOutPoint(ti.PreviousOutPoint) \o WriteVarBytes(ti.SignatureScript)
  \o writeElement(4, ti.Sequence)

WriteTxOut(to) == writeElement(8, to.Value) \o WriteVarBytes(to.PkScript)

writeTxWitness(wit) ==
  WriteVarInt(Len(wit)) \o FlattenSeq([j \in DOMAIN wit |-> WriteVarBytes(wit[j])])

MsgTxEncode(msg, enc) ==
  LET doWitness == enc = WitnessEncoding /\ HasWitness(msg)
      Inputs(Write(_)) == FlattenSeq([i \in DOMAIN msg.TxIn |-> Write(msg.TxIn[i])])
  IN  writeElement(4, msg.Version)
      \o (IF doWitness THEN writeElement(1, 0) \o writeElement(1, 1) ELSE <<>>)
      \o WriteVarInt(Len(msg.TxIn)) \o Inputs(writeTxIn)
      \o WriteVarInt(Len(msg.TxOut))
      \o FlattenSeq([i \in DOMAIN msg.TxOut |-> WriteTxOut(msg.TxOut[i])])
      \o (IF doWitness THEN Inputs(LAMBDA ti : writeTxWitness(Items(ti.Witness))) ELSE <<>>)
      \o writeElement(4, msg.LockTime)

-----------------------------------------------------------------------------
(* Reading.  A reader is what is left of the stream, the values read so    *)
(* far, how many buffers it took from scriptPool, how many of these the    *)
(* message refers to and how many were given back.                         *)

Reader(stream) == [err |-> FALSE, rest |-> stream, got |-> <<>>, lent |-> 0, held |-> 0, back |-> 0]

Took(d, value) == [d EXCEPT !.got = Append(@, value)]

Take(d, read) ==
  IF d.err THEN d
  ELSE IF read.err THEN [d EXCEPT !.err = TRUE]
  ELSE Took([d EXCEPT !.rest = read.rest], read.value)

Number(d, size) == Take(d, readElement(d.rest, size))

\* A structure of the values d has read, after those of before.
Struct(before, d, Make(_)) == IF d.err THEN d ELSE [d EXCEPT !.got = Append(before.got, Make(d.got))]

Fresh(d) == [d EXCEPT !.got = <<>>]

\* A count up to max.
Count(d, max) ==
  LET Limited(read) == IF ~read.err /\ read.value > max THEN Fails ELSE read
  IN  Take(d, Limited(ReadVarInt(d.rest)))

\* What Read does after a count, given the reader without the count.
AfterCount(d, max, Read(_, _)) ==
  LET Counted(count) == IF count.err THEN count
                        ELSE Read([count EXCEPT !.got = Front(@)], Last(count.got))
  IN  Counted(Count(d, max))

\* Borrow only lends, and Return only takes back, buffers up to the size of the
\* pool's own.
Buffers(size) == IF size <= freeListMaxScriptSize THEN 1 ELSE 0

\* Bug: the buffer of a script that could not be read is kept.
readScriptKeeps(d, maxAllowed) ==
  LET Script(e, count) == Take([e EXCEPT !.lent = @ + Buffers(count)], ReadFull(e.rest, count))
  IN  AfterCount(d, maxAllowed, Script)

readScript(d, maxAllowed) ==
  LET Returned(e, b) == IF e.err THEN [e EXCEPT !.back = @ + b] ELSE e
      Script(e, count) ==
        Returned(Take([e EXCEPT !.lent = @ + Buffers(count)], ReadFull(e.rest, count)),
                 Buffers(count))
  IN  AfterCount(d, maxAllowed, Script)

\* The script is assigned to a field of the message.
Held(d) == IF d.err THEN d ELSE [d EXCEPT !.held = @ + Buffers(SizeOf(Last(d.got)))]

\* The message refers to the input before it is read, so to its script when
\* the sequence number is missing.
readTxIn(d) ==
  LET outPoint == Number(Number(Fresh(d), HashSize), 4)
      script == Held(readScript(outPoint, MaxMessagePayload))
  IN  Struct(d, Number(script, 4),
             LAMBDA got : [PreviousOutPoint |-> [Hash |-> got[1], Index |-> got[2]],
                           SignatureScript |-> got[3], Sequence |-> got[4], Witness |-> {}])

readTxOut(d) ==
  Struct(d, Held(readScript(Number(Fresh(d), 8), MaxMessagePayload)),
         LAMBDA got : [Value |-> got[1], PkScript |-> got[2]])

\* n times Read, the values in a sequence.
Repeat(Read(_), d, n) ==
  Struct(d, FoldLeft(LAMBDA e, k : IF e.err THEN e ELSE Read(e), Fresh(d), [k \in 1..n |-> k]),
         LAMBDA got : got)

readTxWitness(d) ==
  AfterCount(d, maxWitnessItemsPerInput,
             LAMBDA e, n : Repeat(LAMBDA item : Held(readScript(item, maxWitnessItemSize)), e, n))

\* A count of inputs that is 0 is the marker of a transaction with witnesses.
readMarker(d, enc) ==
  LET Flagged(e, flag) == IF flag.err \/ flag.value # 1 THEN [e EXCEPT !.err = TRUE]
                          ELSE Took([e EXCEPT !.rest = flag.rest], TRUE)
      Marked(count) == IF count.err \/ count.value # 0 \/ enc # WitnessEncoding THEN Took(d, FALSE)
                       ELSE Flagged(d, readElement(count.rest, 1))
  IN  IF d.err THEN d ELSE Marked(ReadVarInt(d.rest))

\* After the version, the flag, the inputs and the outputs: one witness per input.
readWitnesses(d) ==
  IF d.err \/ ~d.got[2] THEN d ELSE Repeat(readTxWitness, d, Len(d.got[3]))

\* Every way out, the last included, gives back what the message refers to.
returnScriptBuffers(d) == [d EXCEPT !.back = @ + d.held]

MsgTxDecode(d, enc) ==
  LET version == Number(Fresh([d EXCEPT !.held = 0]), 4)
      txIn == AfterCount(readMarker(version, enc), maxTxInPerMessage,
                         LAMBDA e, n : Repeat(readTxIn, e, n))
      txOut == AfterCount(txIn, maxTxOutPerMessage, LAMBDA e, n : Repeat(readTxOut, e, n))
      lockTime == Number(readWitnesses(txOut), 4)
      MsgTx(got) ==
        [Version |-> got[1], LockTime |-> Last(got), TxOut |-> got[4],
         TxIn |-> [i \in DOMAIN got[3] |->
                     [got[3][i] EXCEPT !.Witness = IF got[2] THEN {got[5][i]} ELSE {}]]]
  IN  returnScriptBuffers(Struct(d, lockTime, MsgTx))

-----------------------------------------------------------------------------
(* Sizes and places computed without writing.                              *)

TxInSize(ti) == 40 + VarIntSerializeSize(SizeOf(ti.SignatureScript)) + SizeOf(ti.SignatureScript)

TxOutSize(to) == 8 + VarIntSerializeSize(SizeOf(to.PkScript)) + SizeOf(to.PkScript)

WitnessSize(wit) ==
  VarIntSerializeSize(Len(wit))
  + Total(LAMBDA item : VarIntSerializeSize(SizeOf(item)) + SizeOf(item), wit)

baseSize(msg) ==
  8 + VarIntSerializeSize(Len(msg.TxIn)) + VarIntSerializeSize(Len(msg.TxOut))
  + Total(TxInSize, msg.TxIn) + Total(TxOutSize, msg.TxOut)

\* Bug: the marker and the flag are not counted.
SerializeSizeUnmarked(msg) ==
  baseSize(msg) + (IF HasWitness(msg)
                   THEN Total(LAMBDA ti : WitnessSize(Items(ti.Witness)), msg.TxIn) ELSE 0)

SerializeSize(msg) ==
  baseSize(msg) + (IF HasWitness(msg)
                   THEN 2 + Total(LAMBDA ti : WitnessSize(Items(ti.Witness)), msg.TxIn) ELSE 0)

PkScriptLocs(msg) ==
  LET start == 4 + VarIntSerializeSize(Len(msg.TxIn)) + VarIntSerializeSize(Len(msg.TxOut))
               + (IF msg.TxIn # <<>> /\ msg.TxIn[1].Witness # {} THEN 2 ELSE 0)
               + Total(TxInSize, msg.TxIn)
      Before(i) == Total(TxOutSize, SubSeq(msg.TxOut, 1, i - 1))
  IN  [i \in DOMAIN msg.TxOut |->
         start + Before(i) + 8 + VarIntSerializeSize(SizeOf(msg.TxOut[i].PkScript))]

Copy(msg) ==
  [msg EXCEPT !.TxIn = [i \in DOMAIN msg.TxIn |->
     [msg.TxIn[i] EXCEPT !.Witness = IF Items(@) # <<>> THEN @ ELSE {}]]]

\* The hashes are of the written bytes.
TxHash(msg) == <<"doublehash", MsgTxEncode(msg, BaseEncoding)>>

WitnessHash(msg) ==
  IF HasWitness(msg) THEN <<"doublehash", MsgTxEncode(msg, WitnessEncoding)>> ELSE TxHash(msg)

-----------------------------------------------------------------------------
(* Blocks.                                                                 *)

MsgBlockEncode(msg, enc) ==
  Encode(writeBlockHeader, msg.Header) \o WriteVarInt(Len(msg.Transactions))
  \o FlattenSeq([i \in DOMAIN msg.Transactions |-> MsgTxEncode(msg.Transactions[i], enc)])

MsgBlockDecode(d, enc) ==
  LET header == Take(Fresh(d), Decode(readBlockHeader, <<>>, d.rest))
      txs == AfterCount(header, maxTxPerBlock,
                        LAMBDA e, n : Repeat(LAMBDA tx : MsgTxDecode(tx, enc), e, n))
  IN  Struct(d, txs, LAMBDA got : [Header |-> got[1], Transactions |-> got[2]])

\* Where each transaction of a block starts and how long it is.
DeserializeTxLoc(stream) ==
  LET Offset(rest) == SizeOf(stream) - SizeOf(rest)
      Place(e, tx) ==
        Struct(e, tx, LAMBDA got : [TxStart |-> Offset(e.rest),
                                    TxLen |-> Offset(tx.rest) - Offset(e.rest)])
      Located(e) == Place(e, MsgTxDecode(e, WitnessEncoding))
      header == Take(Reader(stream), Decode(readBlockHeader, <<>>, stream))
  IN  AfterCount(Fresh(header), maxTxPerBlock, LAMBDA e, n : Repeat(Located, e, n))

BlockSerializeSize(msg) ==
  80 + VarIntSerializeSize(Len(msg.Transactions)) + Total(SerializeSize, msg.Transactions)

BlockSerializeSizeStripped(msg) ==
  80 + VarIntSerializeSize(Len(msg.Transactions)) + Total(baseSize, msg.Transactions)
=============================================================================

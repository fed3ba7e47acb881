---------------------------- MODULE WireChecks ----------------------------
(***************************************************************************)
(* What the encoders and decoders of src/bitcoin/wire promise each other.  *)
(***************************************************************************)
EXTENDS BtcFrames, Inputs

-----------------------------------------------------------------------------
(* Messages.                                                               *)

\* The fields a message of this protocol version has no room for.
Lost(command, msg, pver) ==
  CASE command = "version" /\ pver < 70001 -> {"DisableRelayTx"}
    [] command = "ping" /\ pver < 60001 -> {"Nonce"}
    [] command = "reject" /\ msg.Cmd \notin {<<<<5, "block">>>>, <<<<2, "tx">>>>} -> {"Hash"}
    [] OTHER -> {}

\* Addresses have no time in version messages nor before version 31402.
WithoutTime(addr) == [f \in DOMAIN addr \ {"Timestamp"} |-> addr[f]]

Expected(command, msg, pver) ==
  LET kept == [f \in DOMAIN msg \ Lost(command, msg, pver) |-> msg[f]]
  IN  CASE command = "version" -> [kept EXCEPT !.AddrYou = WithoutTime(@), !.AddrMe = WithoutTime(@)]
        [] command = "addr" /\ pver < 31402 ->
             [kept EXCEPT !.AddrList = [i \in DOMAIN @ |-> WithoutTime(@[i])]]
        [] command = "alert" ->
             [kept EXCEPT !.SerializedPayload = MsgAlertPayload(msg),
                          !.Payload = {alert \in @ : Encodes(AlertSerialize, alert)}]
        [] OTHER -> kept

\* The types whose parts are limited so that every message that can be written
\* fits in the largest payload of its type.
Limited == Commands \ {"alert", "reject", "merkleblock", "tx", "block"}

\* A peer that reads what WriteMessage wrote for the same protocol version gets
\* the message, with the fields of that version; no message whose parts are
\* within their limits is too long for its type, at the limits either; and a
\* variable length integer is read only from the bytes WriteVarInt writes.
\* Whatever is wrong with a message (its network, its command, its length for
\* its type, its checksum, its payload), ReadMessage leaves the reader at the
\* start of the next message, unless the length is above MaxMessagePayload.
MessagesRoundTrip ==
  /\ input.kind = "message" =>
       \E sent \in {WriteMessage(input.command, input.msg, input.pver, "main", BaseEncoding)} :
         IF sent.err
         THEN ~(/\ input.command \in Limited
                /\ Encodes(makeEmptyMessage(input.command, input.pver).encode, input.msg))
         ELSE \E got \in {ReadMessage(sent.value, input.pver, "main", BaseEncoding)} :
                /\ ~got.err
                /\ got.value = Expected(input.command, input.msg, input.pver)
                /\ got.rest = <<>>
  /\ input.kind = "varint" =>
       \E read \in {ReadVarInt(input.stream)} :
         ~read.err => WriteVarInt(read.value) \o read.rest = input.stream
  /\ input.kind = "frames" =>
       \E first \in {ReadMessage(input.first \o input.second, input.pver, "main", WitnessEncoding)} :
         first.err = input.bad /\ first.rest = input.second

-----------------------------------------------------------------------------
(* Transactions and blocks.                                                *)

WithinWitnessLimits(tx) ==
  \A i \in DOMAIN tx.TxIn :
    LET items == Items(tx.TxIn[i].Witness)
    IN  Len(items) <= maxWitnessItemsPerInput
        /\ \A j \in DOMAIN items : SizeOf(items[j]) <= maxWitnessItemSize

\* The transaction without what the encoding leaves out.
Transported(tx, enc) ==
  LET witnesses == enc = WitnessEncoding /\ HasWitness(tx)
  IN  [tx EXCEPT !.TxIn = [i \in DOMAIN tx.TxIn |->
        [tx.TxIn[i] EXCEPT !.Witness = IF witnesses THEN {Items(@)} ELSE {}]]]

At(stream, offset, bytes) ==
  \E k \in 0..Len(stream) :
    /\ SizeOf(SubSeq(stream, 1, k)) = offset
    /\ IsPrefix(bytes, SubSeq(stream, k + 1, Len(stream)))

Balanced(read) == read.lent = read.back

BuffersReturned ==
  /\ input.kind = "tx" =>
       \E bytes \in {MsgTxEncode(input.tx, input.enc)} :
         \A k \in 0..Len(bytes) : Balanced(MsgTxDecode(Reader(SubSeq(bytes, 1, k)), input.enc))
  /\ input.kind = "block" =>
       \E bytes \in {MsgBlockEncode(input.block, WitnessEncoding)} :
         \A k \in 0..Len(bytes) :
           Balanced(MsgBlockDecode(Reader(SubSeq(bytes, 1, k)), WitnessEncoding))

\* A transaction with inputs that keeps the witness limits is read as it was
\* written; SerializeSize and SerializeSizeStripped are the sizes of what is
\* written; the scripts of a transaction that was read are where PkScriptLocs
\* says; a copy has both hashes of its original; and the transactions of a block
\* are where DeserializeTxLoc says.  Wherever the bytes of a transaction or a
\* block end or break a limit, each buffer borrowed from scriptPool has been
\* returned to it once.
TransactionsRoundTrip ==
  /\ input.kind = "tx" =>
       \E tx \in {input.tx}, bytes \in {MsgTxEncode(input.tx, input.enc)} :
         /\ SizeOf(bytes) = IF input.enc = WitnessEncoding THEN SerializeSize(tx) ELSE baseSize(tx)
         /\ Cardinality({<<TxHash(t), WitnessHash(t)>> : t \in {tx, Copy(tx)}}) = 1
         /\ (tx.TxIn # <<>> /\ (WithinWitnessLimits(tx) \/ input.enc = BaseEncoding)) =>
              \E read \in {MsgTxDecode(Reader(bytes), input.enc)} :
                /\ ~read.err
                /\ read.got = <<Transported(tx, input.enc)>>
                /\ read.rest = <<>>
                /\ \E locs \in {PkScriptLocs(read.got[1])} :
                     \A i \in DOMAIN tx.TxOut : At(bytes, locs[i], tx.TxOut[i].PkScript)
  /\ input.kind = "block" =>
       \E bytes \in {MsgBlockEncode(input.block, WitnessEncoding)} :
         /\ SizeOf(bytes) = BlockSerializeSize(input.block)
         /\ SizeOf(MsgBlockEncode(input.block, BaseEncoding))
              = BlockSerializeSizeStripped(input.block)
         /\ \E locs \in {DeserializeTxLoc(bytes)} :
              /\ ~locs.err
              /\ \A i \in DOMAIN input.block.Transactions :
                   \E tx \in {MsgTxEncode(input.block.Transactions[i], WitnessEncoding)} :
                     /\ At(bytes, locs.got[1][i].TxStart, tx)
                     /\ locs.got[1][i].TxLen = SizeOf(tx)
  /\ BuffersReturned

-----------------------------------------------------------------------------
(***************************************************************************)
(* Inputs for the wire checks: messages with parts of every size up to one *)
(* more than their limits, for protocol versions on both sides of every    *)
(* change.                                                                 *)
(***************************************************************************)

Versions == {208, 209, 31401, 31402, 60000, 60001, 60002, 70000, 70001, 70002, 70011, 70012, 70013}

BytesOf(n) == IF n = 0 THEN <<>> ELSE <<<<n, "bytes">>>>
Repeated(n, e) == [i \in 1..n |-> e]

Addr == [Timestamp |-> 7, Services |-> 1, IP |-> "ip", Port |-> 8333]
Header == [Version |-> 1, PrevBlock |-> "prev", MerkleRoot |-> "root", Timestamp |-> 7,
           Bits |-> 3, Nonce |-> 4]
Vect == [Type |-> 1, Hash |-> "hash"]
Locator(n) == [ProtocolVersion |-> 70013, BlockLocatorHashes |-> Repeated(n, [Hash |-> "hash"]),
               HashStop |-> "stop"]
Inventory(n) == [InvList |-> Repeated(n, Vect)]
AlertOf(cancels, subVersions, length) ==
  [Version |-> 1, RelayUntil |-> 2, Expiration |-> 3, ID |-> 4, Cancel |-> 5,
   SetCancel |-> Repeated(cancels, [ID |-> 4]), MinVer |-> 6, MaxVer |-> 7,
   SetSubVer |-> Repeated(subVersions, [SubVer |-> BytesOf(length)]), Priority |-> 8,
   Comment |-> BytesOf(length), StatusBar |-> <<>>, Reserved |-> <<>>]

MessagesOf(command) ==
  CASE command = "version" ->
         {[ProtocolVersion |-> 70013, Services |-> 1, Timestamp |-> 99, AddrYou |-> Addr,
           AddrMe |-> Addr, Nonce |-> 5, UserAgent |-> BytesOf(n), LastBlock |-> 7,
           DisableRelayTx |-> b] : n \in {0, 1, MaxUserAgentLen, MaxUserAgentLen + 1}, b \in BOOLEAN}
    [] command = "addr" ->
         {[AddrList |-> Repeated(n, Addr)] : n \in {0, 1, 2, MaxAddrPerMsg, MaxAddrPerMsg + 1}}
    [] command \in {"getblocks", "getheaders"} ->
         {Locator(n) : n \in {0, 1, MaxBlockLocatorsPerMsg, MaxBlockLocatorsPerMsg + 1}}
    [] command \in {"inv", "getdata", "notfound"} ->
         {Inventory(n) : n \in {0, 1, MaxInvPerMsg, MaxInvPerMsg + 1}}
    [] command = "headers" ->
         {[Headers |-> Repeated(n, Header)] :
            n \in {0, 1, MaxBlockHeadersPerMsg, MaxBlockHeadersPerMsg + 1}}
    [] command \in {"ping", "pong"} -> {[Nonce |-> 5]}
    [] command = "filteradd" ->
         {[Data |-> BytesOf(n)] : n \in {0, 1, MaxFilterAddDataSize, MaxFilterAddDataSize + 1}}
    [] command = "filterload" ->
         {[Filter |-> BytesOf(n), HashFuncs |-> h, Tweak |-> 1, Flags |-> 2] :
            n \in {0, MaxFilterLoadFilterSize, MaxFilterLoadFilterSize + 1},
            h \in {0, MaxFilterLoadHashFuncs, MaxFilterLoadHashFuncs + 1}}
    [] command = "merkleblock" ->
         {[Header |-> Header, Transactions |-> 3, Hashes |-> Repeated(n, [Hash |-> "hash"]),
           Flags |-> BytesOf(f)] :
            n \in {0, 2, maxTxPerBlock}, f \in {0, maxFlagsPerMerkleBlock, maxFlagsPerMerkleBlock + 1}}
    [] command = "reject" ->
         {[Cmd |-> c, Code |-> 16, Reason |-> BytesOf(n), Hash |-> "hash"] :
            c \in HashedCommands \union {<<<<7, "version">>>>},
            n \in {0, 3, MaxMessagePayload}}
    [] command = "feefilter" -> {[MinFee |-> 5]}
    [] command = "alert" ->
         {[SerializedPayload |-> s, Signature |-> BytesOf(9), Payload |-> p] :
            s \in {<<>>, BytesOf(50)},
            p \in {{}, {AlertOf(2, 1, 3)}, {AlertOf(maxCountSetCancel + 1, 0, 0)},
                   {AlertOf(0, maxCountSetSubVer + 1, 0)}, {AlertOf(0, 1, MaxMessagePayload)}}}
    [] OTHER -> {<<>>}

MessageInputs ==
  UNION {{[kind |-> "message", command |-> c, pver |-> v, msg |-> m] :
            v \in Versions, m \in MessagesOf(c)} : c \in Commands \ {"tx", "block"}}

VarIntInputs ==
  {[kind |-> "varint", stream |-> s \o r] :
     s \in {<<<<1, n>>>> : n \in 0..maxVarInt8}
           \union {<<<<1, 253>>, <<2, n>>>> : n \in 0..MaxUint16}
           \union {<<<<1, 254>>, <<4, n>>>> : n \in 0..MaxUint32}
           \union {<<<<1, 255>>, <<8, n>>>> : n \in 0..(MaxUint32 + 2)},
     r \in {<<>>, <<<<1, 9>>>>}}

-----------------------------------------------------------------------------
(* Transactions, blocks and frames.                                        *)

Scripts == {BytesOf(n) : n \in {0, freeListMaxScriptSize, freeListMaxScriptSize + 1}}

Witnesses == {{}, {<<>>}, {<<BytesOf(0), BytesOf(maxWitnessItemSize)>>},
              {<<BytesOf(maxWitnessItemSize + 1)>>},
              {Repeated(maxWitnessItemsPerInput + 1, BytesOf(1))}}

TxInOf(script, witness) ==
  [PreviousOutPoint |-> [Hash |-> "hash", Index |-> 2], SignatureScript |-> script,
   Sequence |-> 9, Witness |-> witness]
TxOutOf(script) == [Value |-> 50, PkScript |-> script]

Transactions ==
  LET Ins == {TxInOf(s, w) : s \in {BytesOf(0), BytesOf(freeListMaxScriptSize + 1)}, w \in Witnesses}
      Seconds == {TxInOf(BytesOf(1), w) : w \in {{}, {<<BytesOf(2)>>}}}
      Outs == {TxOutOf(s) : s \in Scripts}
  IN  {[Version |-> 1, LockTime |-> 3, TxIn |-> i, TxOut |-> o] :
         i \in {<<>>} \union {<<a>> : a \in Ins} \union {<<a, b>> : a \in Ins, b \in Seconds},
         o \in {<<>>} \union {<<a>> : a \in Outs} \union {<<a, TxOutOf(BytesOf(1))>> : a \in Outs}}

TxInputs == {[kind |-> "tx", tx |-> t, enc |-> e] :
               t \in Transactions, e \in {BaseEncoding, WitnessEncoding}}

BlockTxs == {[Version |-> 1, LockTime |-> 3, TxIn |-> <<TxInOf(BytesOf(1), w)>>,
              TxOut |-> <<TxOutOf(BytesOf(2))>>] : w \in {{}, {<<BytesOf(1)>>}}}

BlockInputs == {[kind |-> "block", block |-> [Header |-> Header, Transactions |-> t]] :
                  t \in UNION {[1..n -> BlockTxs] : n \in 0..3}}

\* A frame of a payload with a possibly wrong header.
Frame(net, command, payload, checksum) ==
  writeElement(4, net) \o writeElement(12, command) \o writeElement(4, SizeOf(payload))
  \o writeElement(4, checksum) \o payload

FrameInputs ==
  LET ping == <<<<8, "nonce">>>>
      inv == WriteVarInt(1) \o writeElement(4, 1) \o writeElement(HashSize, "hash")
      tx == MsgTxEncode(CHOOSE t \in BlockTxs : HasWitness(t), WitnessEncoding)
      bad == {Frame("test", "ping", ping, ping), Frame("main", "unknown", ping, ping),
              Frame("main", "ping", inv, inv), Frame("main", "ping", ping, <<>>),
              Frame("main", "inv", ping, ping), Frame("main", "inv", SubSeq(inv, 1, 2), SubSeq(inv, 1, 2)),
              Frame("test", "unknown", <<>>, <<>>)}
      good == {Frame("main", "ping", ping, ping), Frame("main", "inv", inv, inv),
               Frame("main", "verack", <<>>, <<>>), Frame("main", "tx", tx, tx)}
  IN  {[kind |-> "frames", pver |-> 70013, first |-> f, second |-> s, bad |-> f \in bad] :
         f \in bad \union good, s \in good \union {<<>>}}
=============================================================================

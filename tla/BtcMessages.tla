---------------------------- MODULE BtcMessages ----------------------------
(***************************************************************************)
(* The messages of the bitcoin peer to peer protocol (src/bitcoin/wire).   *)
(* A message type is, for a protocol version pver, the layout BtcEncode    *)
(* writes, the layout BtcDecode reads and MaxPayloadLength.  Where the two *)
(* functions go through the same fields with the same limits they share    *)
(* one layout here.                                                        *)
(***************************************************************************)
EXTENDS WireFormat

CONSTANTS
  MaxMessagePayload,        \* 32 MiB in the code
  MaxBlockPayload,          \* 4,000,000
  MaxAddrPerMsg,            \* 1000
  MaxInvPerMsg,             \* 50000
  MaxBlockLocatorsPerMsg,   \* 500
  MaxBlockHeadersPerMsg,    \* 2000
  MaxUserAgentLen,          \* 256
  MaxFilterAddDataSize,     \* 520
  MaxFilterLoadFilterSize,  \* 36000
  MaxFilterLoadHashFuncs,   \* 50
  subVersionSize            \* 256, the room an alert counts for a sub version

MultipleAddressVersion == 209
NetAddressTimeVersion == 31402
BIP0031Version == 60000
BIP0035Version == 60002
BIP0037Version == 70001
RejectVersion == 70002
SendHeadersVersion == 70012
FeeFilterVersion == 70013

HashSize == 32
MaxVarIntPayload == 9
minTxPayload == 10
maxTxPerBlock == (MaxBlockPayload \div minTxPayload) + 1
maxFlagsPerMerkleBlock == maxTxPerBlock \div 8
maxInvVectPayload == 4 + HashSize
MaxBlockHeaderPayload == 16 + (HashSize * 2)

Type(encode, decode, max) == [encode |-> encode, decode |-> decode, max |-> max]

\* The strings of messages are read up to the largest message.
VarString(name) == VarBytes(name, MaxMessagePayload)
WrittenString(name) == VarBytes(name, Unlimited)

-----------------------------------------------------------------------------
(* Parts of messages.                                                      *)

maxNetAddressPayload(pver) == 26 + (IF pver >= NetAddressTimeVersion THEN 4 ELSE 0)

writeNetAddress(pver, ts) ==
  (IF ts /\ pver >= NetAddressTimeVersion THEN <<Time32("Timestamp")>> ELSE <<>>)
  \o <<Fixed("Services", 8), Fixed("IP", 16), Fixed("Port", 2)>>

\* Bug: the time of an address is always read.
readNetAddressTimed(pver, ts) ==
  <<Time32("Timestamp"), Fixed("Services", 8), Fixed("IP", 16), Fixed("Port", 2)>>

readNetAddress(pver, ts) ==
  (IF ts /\ pver >= NetAddressTimeVersion THEN <<Time32("Timestamp")>> ELSE <<>>)
  \o <<Fixed("Services", 8), Fixed("IP", 16), Fixed("Port", 2)>>

InvVect == <<Fixed("Type", 4), Fixed("Hash", HashSize)>>
OneHash == <<Fixed("Hash", HashSize)>>

readBlockHeader ==
  <<Fixed("Version", 4), Fixed("PrevBlock", HashSize), Fixed("MerkleRoot", HashSize),
    Time32("Timestamp"), Fixed("Bits", 4), Fixed("Nonce", 4)>>

writeBlockHeader ==
  <<Fixed("Version", 4), Fixed("PrevBlock", HashSize), Fixed("MerkleRoot", HashSize),
    Time32("Timestamp"), Fixed("Bits", 4), Fixed("Nonce", 4)>>

-----------------------------------------------------------------------------
(* The types.                                                              *)

MsgVersion(pver) ==
  LET Start == <<Fixed("ProtocolVersion", 4), Fixed("Services", 8), Fixed("Timestamp", 8)>>
  IN  Type(Start \o <<Sub("AddrYou", writeNetAddress(pver, FALSE)),
                      Sub("AddrMe", writeNetAddress(pver, FALSE)), Fixed("Nonce", 8),
                      VarBytes("UserAgent", MaxUserAgentLen), Fixed("LastBlock", 4)>>
                 \o (IF pver >= BIP0037Version THEN <<Negated("DisableRelayTx")>> ELSE <<>>),
           Start \o <<Sub("AddrYou", readNetAddress(pver, FALSE)),
                      More(<<Sub("AddrMe", readNetAddress(pver, FALSE))>>),
                      More(<<Fixed("Nonce", 8)>>),
                      More(<<VarBytes("UserAgent", MaxUserAgentLen)>>),
                      More(<<Fixed("LastBlock", 4)>>), More(<<Negated("DisableRelayTx")>>)>>,
           33 + (maxNetAddressPayload(pver) * 2) + MaxVarIntPayload + MaxUserAgentLen)

MsgVerAck(pver) == Type(<<>>, <<>>, 0)

MsgGetAddr(pver) == Type(<<>>, <<>>, 0)

MsgAddr(pver) ==
  LET one == pver < MultipleAddressVersion
  IN  Type(<<List("AddrList", IF one THEN 1 ELSE MaxAddrPerMsg, writeNetAddress(pver, TRUE))>>,
           <<List("AddrList", MaxAddrPerMsg, readNetAddress(pver, TRUE))>>,
           MaxVarIntPayload + ((IF one THEN 1 ELSE MaxAddrPerMsg) * maxNetAddressPayload(pver)))

MsgGetBlocks(pver) ==
  LET fields == <<Fixed("ProtocolVersion", 4),
                  List("BlockLocatorHashes", MaxBlockLocatorsPerMsg, OneHash),
                  Fixed("HashStop", HashSize)>>
  IN  Type(fields, fields,
           4 + MaxVarIntPayload + (MaxBlockLocatorsPerMsg * HashSize) + HashSize)

MsgGetHeaders(pver) ==
  LET fields == <<Fixed("ProtocolVersion", 4),
                  List("BlockLocatorHashes", MaxBlockLocatorsPerMsg, OneHash),
                  Fixed("HashStop", HashSize)>>
  IN  Type(fields, fields,
           4 + MaxVarIntPayload + (MaxBlockLocatorsPerMsg * HashSize) + HashSize)

MsgInv(pver) ==
  Type(<<List("InvList", MaxInvPerMsg, InvVect)>>, <<List("InvList", MaxInvPerMsg, InvVect)>>,
       MaxVarIntPayload + (MaxInvPerMsg * maxInvVectPayload))

MsgGetData(pver) ==
  Type(<<List("InvList", MaxInvPerMsg, InvVect)>>, <<List("InvList", MaxInvPerMsg, InvVect)>>,
       MaxVarIntPayload + (MaxInvPerMsg * maxInvVectPayload))

MsgNotFound(pver) ==
  Type(<<List("InvList", MaxInvPerMsg, InvVect)>>, <<List("InvList", MaxInvPerMsg, InvVect)>>,
       MaxVarIntPayload + (MaxInvPerMsg * maxInvVectPayload))

MsgHeaders(pver) ==
  Type(<<List("Headers", MaxBlockHeadersPerMsg, writeBlockHeader \o <<ZeroCount>>)>>,
       <<List("Headers", MaxBlockHeadersPerMsg, readBlockHeader \o <<ZeroCount>>)>>,
       MaxVarIntPayload + ((MaxBlockHeaderPayload + 1) * MaxBlockHeadersPerMsg))

MsgPing(pver) ==
  LET nonce == IF pver > BIP0031Version THEN <<Fixed("Nonce", 8)>> ELSE <<>>
  IN  Type(nonce, nonce, IF pver > BIP0031Version THEN 8 ELSE 0)

MsgPong(pver) ==
  LET nonce == IF pver <= BIP0031Version THEN <<Invalid>> ELSE <<Fixed("Nonce", 8)>>
  IN  Type(nonce, nonce, IF pver > BIP0031Version THEN 8 ELSE 0)

MsgMemPool(pver) ==
  Type(Since(BIP0035Version, pver, <<>>), Since(BIP0035Version, pver, <<>>), 0)

MsgFilterAdd(pver) ==
  LET fields == Since(BIP0037Version, pver, <<VarBytes("Data", MaxFilterAddDataSize)>>)
  IN  Type(fields, fields, VarIntSerializeSize(MaxFilterAddDataSize) + MaxFilterAddDataSize)

MsgFilterClear(pver) ==
  Type(Since(BIP0037Version, pver, <<>>), Since(BIP0037Version, pver, <<>>), 0)

MsgFilterLoad(pver) ==
  LET fields == Since(BIP0037Version, pver,
                      <<VarBytes("Filter", MaxFilterLoadFilterSize), Fixed("HashFuncs", 4),
                        Fixed("Tweak", 4), Fixed("Flags", 1),
                        AtMost("HashFuncs", MaxFilterLoadHashFuncs)>>)
  IN  Type(fields, fields,
           VarIntSerializeSize(MaxFilterLoadFilterSize) + MaxFilterLoadFilterSize + 9)

MsgMerkleBlock(pver) ==
  LET Fields(header) ==
        Since(BIP0037Version, pver,
              <<Sub("Header", header), Fixed("Transactions", 4),
                List("Hashes", maxTxPerBlock, OneHash),
                VarBytes("Flags", maxFlagsPerMerkleBlock)>>)
  IN  Type(Fields(writeBlockHeader), Fields(readBlockHeader), MaxBlockPayload)

\* The commands a reject names with the hash of what was rejected.
HashedCommands == {<<<<5, "block">>>>, <<<<2, "tx">>>>}

MsgReject(pver) ==
  Type(Since(RejectVersion, pver,
             <<WrittenString("Cmd"), Fixed("Code", 1), WrittenString("Reason"),
               Only("Cmd", HashedCommands, <<Fixed("Hash", HashSize)>>)>>),
       Since(RejectVersion, pver,
             <<VarString("Cmd"), Fixed("Code", 1), VarString("Reason"),
               Only("Cmd", HashedCommands, <<Fixed("Hash", HashSize)>>)>>),
       IF pver >= RejectVersion THEN MaxMessagePayload ELSE 0)

MsgSendHeaders(pver) ==
  Type(Since(SendHeadersVersion, pver, <<>>), Since(SendHeadersVersion, pver, <<>>), 0)

MsgFeeFilter(pver) ==
  LET fields == Since(FeeFilterVersion, pver, <<Fixed("MinFee", 8)>>)
  IN  Type(fields, fields, 8)

-----------------------------------------------------------------------------
(* Alerts: a message within a message.                                     *)

fixedAlertSize == 45
maxAlertSize == MaxMessagePayload - 72 - MaxVarIntPayload - 1
maxCountSetCancel == (maxAlertSize - fixedAlertSize - MaxVarIntPayload + 1) \div 4
maxCountSetSubVer == (maxAlertSize - fixedAlertSize - MaxVarIntPayload + 1) \div subVersionSize

AlertLayout(String(_)) ==
  <<Fixed("Version", 4), Fixed("RelayUntil", 8), Fixed("Expiration", 8), Fixed("ID", 4),
    Fixed("Cancel", 4), List("SetCancel", maxCountSetCancel, <<Fixed("ID", 4)>>),
    Fixed("MinVer", 4), Fixed("MaxVer", 4),
    List("SetSubVer", maxCountSetSubVer, <<String("SubVer")>>),
    Fixed("Priority", 4), String("Comment"), String("StatusBar"), String("Reserved")>>

AlertSerialize == AlertLayout(WrittenString)
AlertDeserialize == AlertLayout(VarString)

\* Payload is {} or the one alert.
MsgAlertPayload(msg) ==
  LET good == {alert \in msg.Payload : Encodes(AlertSerialize, alert)}
  IN  IF good # {} THEN Encode(AlertSerialize, CHOOSE alert \in good : TRUE)
      ELSE msg.SerializedPayload

MsgAlertEncode(msg) ==
  LET Signed(payload) == IF payload = <<>> THEN Fails
                         ELSE Ok(WriteVarBytes(payload) \o WriteVarBytes(msg.Signature), <<>>)
  IN  Signed(MsgAlertPayload(msg))

MsgAlertDecode(stream) ==
  LET PayloadOf(alert) == IF alert.err THEN {} ELSE {alert.value}
      MsgAlert(payload, signature) ==
        IF signature.err THEN Fails
        ELSE Ok([SerializedPayload |-> payload, Signature |-> signature.value,
                 Payload |-> PayloadOf(Decode(AlertDeserialize, <<>>, payload))], signature.rest)
      Signed(payload) == IF payload.err THEN Fails
                         ELSE MsgAlert(payload.value, ReadVarBytes(payload.rest, MaxMessagePayload))
  IN  Signed(ReadVarBytes(stream, MaxMessagePayload))
=============================================================================

----------------------------- MODULE BtcFrames -----------------------------
(***************************************************************************)
(* The frames bitcoin messages travel in (src/bitcoin/wire/message.go): a  *)
(* header with the network's magic, the command, the length of the payload *)
(* and its checksum, and the payload.                                      *)
(***************************************************************************)
EXTENDS BtcTransactions

Commands ==
  {"version", "verack", "getaddr", "addr", "getblocks", "inv", "getdata", "notfound", "block",
   "tx", "getheaders", "headers", "ping", "pong", "alert", "mempool", "filteradd",
   "filterclear", "filterload", "merkleblock", "reject", "sendheaders", "feefilter"}

\* The type of a command.  The layouts of blocks, transactions and alerts are
\* operators of their own.
makeEmptyMessage(command, pver) ==
  CASE command = "version" -> MsgVersion(pver)
    [] command = "verack" -> MsgVerAck(pver)
    [] command = "getaddr" -> MsgGetAddr(pver)
    [] command = "addr" -> MsgAddr(pver)
    [] command = "getblocks" -> MsgGetBlocks(pver)
    [] command = "inv" -> MsgInv(pver)
    [] command = "getdata" -> MsgGetData(pver)
    [] command = "notfound" -> MsgNotFound(pver)
    [] command = "block" -> Type(<<>>, <<>>, MaxBlockPayload)
    [] command = "tx" -> Type(<<>>, <<>>, MaxBlockPayload)
    [] command = "getheaders" -> MsgGetHeaders(pver)
    [] command = "headers" -> MsgHeaders(pver)
    [] command = "ping" -> MsgPing(pver)
    [] command = "pong" -> MsgPong(pver)
    [] command = "alert" -> Type(<<>>, <<>>, MaxMessagePayload)
    [] command = "mempool" -> MsgMemPool(pver)
    [] command = "filteradd" -> MsgFilterAdd(pver)
    [] command = "filterclear" -> MsgFilterClear(pver)
    [] command = "filterload" -> MsgFilterLoad(pver)
    [] command = "merkleblock" -> MsgMerkleBlock(pver)
    [] command = "reject" -> MsgReject(pver)
    [] command = "sendheaders" -> MsgSendHeaders(pver)
    [] command = "feefilter" -> MsgFeeFilter(pver)

BtcEncode(command, msg, pver, enc) ==
  LET Written(layout) == IF Encodes(layout, msg) THEN Ok(Encode(layout, msg), <<>>) ELSE Fails
  IN  CASE command = "alert" -> MsgAlertEncode(msg)
        [] command = "tx" -> Ok(MsgTxEncode(msg, enc), <<>>)
        [] command = "block" -> Ok(MsgBlockEncode(msg, enc), <<>>)
        [] OTHER -> Written(makeEmptyMessage(command, pver).encode)

BtcDecode(command, stream, pver, enc) ==
  LET Read(d) == IF d.err THEN Fails ELSE Ok(Last(d.got), d.rest)
  IN  CASE command = "alert" -> MsgAlertDecode(stream)
        [] command = "tx" -> Read(MsgTxDecode(Reader(stream), enc))
        [] command = "block" -> Read(MsgBlockDecode(Reader(stream), enc))
        [] OTHER -> Decode(makeEmptyMessage(command, pver).decode, <<>>, stream)

\* The checksum is the start of a hash of the payload: it tells payloads apart.
DoubleHashB(payload) == payload

WriteMessage(command, msg, pver, net, enc) ==
  LET Framed(payload, lenp) ==
        IF lenp > MaxMessagePayload \/ lenp > makeEmptyMessage(command, pver).max THEN Fails
        ELSE Ok(writeElement(4, net) \o writeElement(12, command) \o writeElement(4, lenp)
                \o writeElement(4, DoubleHashB(payload)) \o payload, <<>>)
      Sent(encoded) == IF encoded.err THEN Fails ELSE Framed(encoded.value, SizeOf(encoded.value))
  IN  Sent(BtcEncode(command, msg, pver, enc))

readMessageHeader(stream) ==
  Decode(<<Fixed("magic", 4), Fixed("command", 12), Fixed("length", 4), Fixed("checksum", 4)>>,
         <<>>, stream)

\* Bug: nothing is skipped.
discardNothing(stream, n) == stream

discardInput(stream, n) ==
  LET After(read) == IF read.err THEN <<>> ELSE read.rest IN After(ReadFull(stream, n))

ErrorAt(rest) == [err |-> TRUE, value |-> <<>>, rest |-> rest]

\* The message after a header that is right for it.
readPayload(hdr, payload, pver, enc) ==
  LET Decoded(msg) == IF msg.err THEN ErrorAt(payload.rest) ELSE Ok(msg.value, payload.rest)
  IN  IF payload.err THEN ErrorAt(<<>>)
      ELSE IF DoubleHashB(payload.value) # hdr.checksum THEN ErrorAt(payload.rest)
      ELSE Decoded(BtcDecode(hdr.command, payload.value, pver, enc))

\* A message, or an error, and where the reader is then.
ReadMessage(stream, pver, net, enc) ==
  LET Known(hdr) ==
        /\ hdr.magic = net /\ hdr.command \in Commands
        /\ hdr.length <= makeEmptyMessage(hdr.command, pver).max
      After(header) ==
        IF header.err THEN ErrorAt(<<>>)
        ELSE IF header.value.length > MaxMessagePayload THEN ErrorAt(header.rest)
        ELSE IF ~Known(header.value) THEN ErrorAt(discardInput(header.rest, header.value.length))
        ELSE readPayload(header.value, ReadFull(header.rest, header.value.length), pver, enc)
  IN  After(readMessageHeader(stream))
=============================================================================

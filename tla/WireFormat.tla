----------------------------- MODULE WireFormat -----------------------------
(***************************************************************************)
(* How the two wire packages put values into bytes and take them out: the  *)
(* bitcoin protocol's (src/bitcoin/wire) and the one between clients and   *)
(* the server (src/wire).                                                  *)
(*                                                                         *)
(* A stream is a sequence of tokens <<size, value>>, the bytes of one      *)
(* written element each.  A reader takes a number of bytes; where these    *)
(* are not whole tokens it has lost its place, and fails.  A byte string   *)
(* is itself a sequence of tokens.                                         *)
(*                                                                         *)
(* A layout is a sequence of fields of a record, in the order a function   *)
(* writes or reads them.                                                   *)
(***************************************************************************)
EXTENDS Integers, Sequences, SequencesExt, TLC

CONSTANTS
  maxVarInt8,   \* 252 in the code
  MaxUint16,    \* 65535 in the code
  MaxUint32,    \* 4294967295 in the code
  Unlimited     \* more than any length

SizeOf(stream) == FoldLeft(LAMBDA n, token : n + token[1], 0, stream)

\* What a read leaves: the value, the rest of the stream, or an error.
Ok(value, rest) == [err |-> FALSE, value |-> value, rest |-> rest]
Fails == [err |-> TRUE, value |-> <<>>, rest |-> <<>>]

\* io.ReadFull of n bytes.
ReadFull(stream, n) ==
  LET CutAt(k) == IF k = 0 THEN Fails ELSE Ok(SubSeq(stream, 1, k - 1), SubSeq(stream, k, Len(stream)))
  IN  CutAt(SelectInSeq([k \in 1..(Len(stream) + 1) |-> SizeOf(SubSeq(stream, 1, k - 1))],
                        LAMBDA size : size = n))

readElement(stream, size) ==
  IF stream # <<>> /\ Head(stream)[1] = size THEN Ok(Head(stream)[2], Tail(stream)) ELSE Fails

writeElement(size, value) == <<<<size, value>>>>

-----------------------------------------------------------------------------
(* Variable length integers and byte strings.                              *)

WriteVarInt(val) ==
  IF val <= maxVarInt8 THEN writeElement(1, val)
  ELSE IF val <= MaxUint16 THEN writeElement(1, 253) \o writeElement(2, val)
  ELSE IF val <= MaxUint32 THEN writeElement(1, 254) \o writeElement(4, val)
  ELSE writeElement(1, 255) \o writeElement(8, val)

ReadVarInt(stream) ==
  LET Canonical(sv, min) == IF sv.err \/ sv.value < min THEN Fails ELSE sv
      Rest(discriminant) ==
        IF discriminant.err THEN Fails
        ELSE CASE discriminant.value = 255 ->
                    Canonical(readElement(discriminant.rest, 8), MaxUint32 + 1)
               [] discriminant.value = 254 ->
                    Canonical(readElement(discriminant.rest, 4), MaxUint16 + 1)
               [] discriminant.value = 253 ->
                    Canonical(readElement(discriminant.rest, 2), maxVarInt8 + 1)
               [] OTHER -> discriminant
  IN  Rest(readElement(stream, 1))

VarIntSerializeSize(val) ==
  IF val <= maxVarInt8 THEN 1 ELSE IF val <= MaxUint16 THEN 3 ELSE IF val <= MaxUint32 THEN 5 ELSE 9

WriteVarBytes(bytes) == WriteVarInt(SizeOf(bytes)) \o bytes

ReadVarBytes(stream, maxAllowed) ==
  LET Bytes(count) == IF count.err \/ count.value > maxAllowed THEN Fails
                      ELSE ReadFull(count.rest, count.value)
  IN  Bytes(ReadVarInt(stream))

-----------------------------------------------------------------------------
(* Layouts.                                                                *)

Fixed(name, size) == <<"fixed", name, size>>
\* A time is written as the seconds that fit in 32 bits.
Time32(name) == <<"time", name>>
VarInt(name) == <<"varint", name>>
\* A boolean written as its negation.
Negated(name) == <<"negated", name>>
VarBytes(name, max) == <<"bytes", name, max>>
List(name, max, layout) == <<"list", name, max, layout>>
Sub(name, layout) == <<"sub", name, layout>>
\* A count that is always zero.
ZeroCount == <<"zero">>
\* Only where another field has one of the values.
Only(name, values, layout) == <<"only", name, values, layout>>
\* Only while bytes are left.
More(layout) == <<"more", layout>>
AtMost(name, max) == <<"atmost", name, max>>
\* A message its protocol version does not have.
Invalid == <<"invalid">>
Since(version, pver, layout) == IF pver >= version THEN layout ELSE <<Invalid>>

RECURSIVE Encodes(_, _), Encode(_, _), Decode(_, _, _), Elements(_, _, _)

\* Whether a record can be written.
Encodes(layout, msg) ==
  \A i \in DOMAIN layout :
    LET f == layout[i]
    IN  CASE f[1] = "bytes" -> SizeOf(msg[f[2]]) <= f[3]
          [] f[1] = "list" -> /\ Len(msg[f[2]]) <= f[3]
                              /\ \A j \in DOMAIN msg[f[2]] : Encodes(f[4], msg[f[2]][j])
          [] f[1] = "sub" -> Encodes(f[3], msg[f[2]])
          [] f[1] = "atmost" -> msg[f[2]] <= f[3]
          [] f[1] = "invalid" -> FALSE
          [] OTHER -> TRUE

Encode(layout, msg) ==
  LET Field(f) ==
        CASE f[1] = "fixed" -> writeElement(f[3], msg[f[2]])
          [] f[1] = "time" -> writeElement(4, msg[f[2]] % (MaxUint32 + 1))
          [] f[1] = "negated" -> writeElement(1, IF msg[f[2]] THEN 0 ELSE 1)
          [] f[1] = "varint" -> WriteVarInt(msg[f[2]])
          [] f[1] = "bytes" -> WriteVarBytes(msg[f[2]])
          [] f[1] = "list" -> WriteVarInt(Len(msg[f[2]]))
                              \o FlattenSeq([j \in DOMAIN msg[f[2]] |-> Encode(f[4], msg[f[2]][j])])
          [] f[1] = "sub" -> Encode(f[3], msg[f[2]])
          [] f[1] = "zero" -> WriteVarInt(0)
          [] f[1] = "only" -> IF msg[f[2]] \in f[3] THEN Encode(f[4], msg) ELSE <<>>
          [] OTHER -> <<>>
  IN  FlattenSeq([i \in DOMAIN layout |-> Field(layout[i])])

\* n records, after those of done.
Elements(layout, n, done) ==
  IF n = 0 \/ done.err THEN done
  ELSE LET With(one) == IF one.err THEN Fails ELSE Ok(Append(done.value, one.value), one.rest)
       IN  Elements(layout, n - 1, With(Decode(layout, <<>>, done.rest)))

\* The record msg with the fields of layout read from the stream.
Decode(layout, msg, stream) ==
  IF layout = <<>> THEN Ok(msg, stream)
  ELSE LET f == Head(layout)
           With(read) == IF read.err THEN Fails
                         ELSE Decode(Tail(layout), (f[2] :> read.value) @@ msg, read.rest)
           \* The fields before those that follow.
           First(fields) == Decode(fields \o Tail(layout), msg, stream)
           ListOf(count) == IF count.err \/ count.value > f[3] THEN Fails
                            ELSE Elements(f[4], count.value, Ok(<<>>, count.rest))
           Zero(count) == IF ~count.err /\ count.value = 0
                          THEN Decode(Tail(layout), msg, count.rest) ELSE Fails
       IN  CASE f[1] = "zero" -> Zero(ReadVarInt(stream))
             [] f[1] = "only" -> First(IF msg[f[2]] \in f[3] THEN f[4] ELSE <<>>)
             [] f[1] = "more" -> First(IF stream # <<>> THEN f[2] ELSE <<>>)
             [] f[1] = "atmost" -> First(IF msg[f[2]] <= f[3] THEN <<>> ELSE <<Invalid>>)
             [] f[1] = "invalid" -> Fails
             [] OTHER ->
                  With(CASE f[1] = "fixed" -> readElement(stream, f[3])
                         [] f[1] = "time" -> readElement(stream, 4)
                         [] f[1] = "negated" -> LET Not(byte) == [byte EXCEPT !.value = @ = 0]
                                                IN  Not(readElement(stream, 1))
                         [] f[1] = "varint" -> ReadVarInt(stream)
                         [] f[1] = "bytes" -> ReadVarBytes(stream, f[3])
                         [] f[1] = "list" -> ListOf(ReadVarInt(stream))
                         [] f[1] = "sub" -> Decode(f[3], <<>>, stream))
=============================================================================

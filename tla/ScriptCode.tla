----------------------------- MODULE ScriptCode -----------------------------
(***************************************************************************)
(* Bitcoin scripts as package txscript represents them: parsed opcodes,    *)
(* the numbers on a script's stack, the script builder, and the counts of  *)
(* signature operations.                                                   *)
(*                                                                         *)
(* An element of a script or a stack is tagged: Raw(bytes), a hash of      *)
(* another element, a public key, a signature, or a serialised script.     *)
(* Only raw elements have bytes; of the others the code looks at the size  *)
(* and at equality.  A script is the sequence of its parsed opcodes;       *)
(* bytes and parseScriptTemplate relate it to its encoding.                *)
(***************************************************************************)
EXTENDS Integers, Sequences, SequencesExt

CONSTANTS
  MaxScriptSize,          \* 10000 in the code
  MaxScriptElementSize,   \* 520 in the code
  MaxPubKeysPerMultiSig,  \* 20 in the code
  defaultScriptNumLen     \* 4 in the code

Raw(bytes) == <<"raw", bytes>>
NoData == <<"nil">>
Key(id, compressed) == <<"key", id, compressed>>
Signature(signer, hash, hashType) == <<"sig", signer, hash, hashType>>
Script(pops) == <<"script", pops>>
Ripemd160(d) == <<"ripemd160", d>>
Sha1(d) == <<"sha1", d>>
Sha256(d) == <<"sha256", d>>
Hash160(d) == Ripemd160(Sha256(d))

-----------------------------------------------------------------------------
(* Opcodes.  Those up to OP_16 push; the others are numbered from OP_NOP.  *)

OP_0 == 0
OP_PUSHDATA1 == 76
OP_PUSHDATA2 == 77
OP_PUSHDATA4 == 78
OP_1NEGATE == 79
OP_1 == 81
OP_16 == 96

OpNames == <<
  "NOP", "VER", "IF", "NOTIF", "VERIF", "VERNOTIF", "ELSE", "ENDIF", "VERIFY",
  "RETURN", "TOALTSTACK", "FROMALTSTACK", "2DROP", "2DUP", "3DUP", "2OVER",
  "2ROT", "2SWAP", "IFDUP", "DEPTH", "DROP", "DUP", "NIP", "OVER", "PICK",
  "ROLL", "ROT", "SWAP", "TUCK", "CAT", "SUBSTR", "LEFT", "RIGHT", "SIZE",
  "INVERT", "AND", "OR", "XOR", "EQUAL", "EQUALVERIFY", "RESERVED1",
  "RESERVED2", "1ADD", "1SUB", "2MUL", "2DIV", "NEGATE", "ABS", "NOT",
  "0NOTEQUAL", "ADD", "SUB", "MUL", "DIV", "MOD", "LSHIFT", "RSHIFT",
  "BOOLAND", "BOOLOR", "NUMEQUAL", "NUMEQUALVERIFY", "NUMNOTEQUAL", "LESSTHAN",
  "GREATERTHAN", "LESSTHANOREQUAL", "GREATERTHANOREQUAL", "MIN", "MAX",
  "WITHIN", "RIPEMD160", "SHA1", "SHA256", "HASH160", "HASH256",
  "CODESEPARATOR", "CHECKSIG", "CHECKSIGVERIFY", "CHECKMULTISIG",
  "CHECKMULTISIGVERIFY", "NOP1", "CHECKLOCKTIMEVERIFY", "CHECKSEQUENCEVERIFY",
  "NOP4", "NOP5", "NOP6", "NOP7", "NOP8", "NOP9", "NOP10">>

OP == [name \in ToSet(OpNames) |-> OP_16 + SelectInSeq(OpNames, LAMBDA n : n = name)]

\* The length column of opcodeArray: bytes of the whole instruction, or minus
\* the bytes of the length that precedes the data.
OpLength(value) ==
  CASE value \in 1..75 -> value + 1
    [] value = OP_PUSHDATA1 -> -1
    [] value = OP_PUSHDATA2 -> -2
    [] value = OP_PUSHDATA4 -> -4
    [] OTHER -> 1

Plain(value) == [value |-> value, data |-> NoData]
Op(name) == Plain(OP[name])

RECURSIVE Size(_)

OpSize(pop) ==
  LET length == OpLength(pop.value)
  IN  IF length > 0 THEN length ELSE 1 - length + Size(pop.data)

ScriptSize(pops) == FoldLeft(LAMBDA n, pop : n + OpSize(pop), 0, pops)

Size(d) ==
  CASE d[1] = "nil" -> 0
    [] d[1] = "raw" -> Len(d[2])
    [] d[1] \in {"ripemd160", "sha1"} -> 20
    [] d[1] = "sha256" -> 32
    [] d[1] = "key" -> IF d[3] THEN 33 ELSE 65
    [] d[1] = "sig" -> 71
    [] d[1] = "script" -> ScriptSize(d[2])

isDisabled(pop) ==
  pop.value \in {OP[n] : n \in {"CAT", "SUBSTR", "LEFT", "RIGHT", "INVERT",
                                "AND", "OR", "XOR", "2MUL", "2DIV", "MUL",
                                "DIV", "MOD", "LSHIFT", "RSHIFT"}}

alwaysIllegal(pop) == pop.value \in {OP.VERIF, OP.VERNOTIF}

isConditional(pop) == pop.value \in {OP.IF, OP.NOTIF, OP.ELSE, OP.ENDIF}

\* TRUE where the code returns no error.  A single zero byte is left alone.
checkMinimalDataPush(pop) ==
  LET ByLength(n) == CASE n <= 75 -> pop.value = n
                       [] n > 75 /\ n <= 255 -> pop.value = OP_PUSHDATA1
                       [] n > 255 /\ n <= 65535 -> pop.value = OP_PUSHDATA2
                       [] OTHER -> TRUE
      Minimal(n) ==
        LET first == IF n = 1 THEN pop.data[2][1] ELSE -1
        IN  CASE n = 0 -> pop.value = OP_0
              [] first \in 1..16 -> pop.value = OP_1 + first - 1
              [] first = 129 -> pop.value = OP_1NEGATE
              [] OTHER -> ByLength(n)
  IN  Minimal(Size(pop.data))

LittleEndian(l, n) == [i \in 1..n |-> (l \div 256^(i - 1)) % 256]
Uint(bytes) == FoldRight(LAMBDA b, n : b + 256 * n, bytes, 0)

\* The encoding of an opcode whose data, if any, is raw.
bytes(pop) ==
  LET length == OpLength(pop.value)
      data == IF pop.data = NoData THEN <<>> ELSE pop.data[2]
  IN  <<pop.value>>
      \o (IF length < 0 THEN LittleEndian(Len(data), -length) ELSE <<>>)
      \o data

unparseScript(pops) == FlattenSeq([i \in DOMAIN pops |-> bytes(pops[i])])

RECURSIVE parseScriptTemplate(_)
\* The opcodes up to the first that does not fit, and whether there is one.
parseScriptTemplate(script) ==
  IF script = <<>> THEN [pops |-> <<>>, err |-> FALSE]
  ELSE LET value == script[1]
           length == OpLength(value)
           off == IF length > 0 THEN 1 ELSE 1 - length
           Data(l) == IF length = 1 THEN NoData
                      ELSE Raw(SubSeq(script, off + 1, off + l))
           Taking(l) ==
             IF Len(script) < off \/ Len(script) - off < l
             THEN [pops |-> <<>>, err |-> TRUE]
             ELSE [parseScriptTemplate(SubSeq(script, off + l + 1, Len(script)))
                     EXCEPT !.pops = <<[value |-> value, data |-> Data(l)]>> \o @]
       IN  Taking(IF length > 0 THEN length - 1 ELSE Uint(SubSeq(script, 2, off)))

\* A key, a hash or a signature taken for a script is not one.
parseScript(d) ==
  CASE d[1] = "script" -> [pops |-> d[2], err |-> FALSE]
    [] d[1] = "nil" -> [pops |-> <<>>, err |-> FALSE]
    [] d[1] = "raw" -> parseScriptTemplate(d[2])
    [] OTHER -> [pops |-> <<>>, err |-> TRUE]

-----------------------------------------------------------------------------
(* Numbers: little endian, the sign in the highest bit.                    *)

RECURSIVE Magnitude(_)
Magnitude(n) == IF n = 0 THEN <<>> ELSE <<n % 256>> \o Magnitude(n \div 256)

\* Bug: the sign takes the highest bit even when the magnitude needs it.
NumBytesNoPadding(n) ==
  LET m == Magnitude(IF n < 0 THEN -n ELSE n)
  IN  IF n < 0 THEN Append(Front(m), 128 + (Last(m) % 128)) ELSE m

\* scriptNum.Bytes.
NumBytes(n) ==
  LET Signed(m) ==
        IF Last(m) >= 128 THEN Append(m, IF n < 0 THEN 128 ELSE 0)
        ELSE IF n < 0 THEN Append(Front(m), Last(m) + 128) ELSE m
  IN  IF n = 0 THEN <<>> ELSE Signed(Magnitude(IF n < 0 THEN -n ELSE n))

checkMinimalDataEncoding(v) ==
  Len(v) > 0 /\ Last(v) % 128 = 0 => Len(v) > 1 /\ v[Len(v) - 1] >= 128

NumError(d, requireMinimal, scriptNumLen) ==
  IF Size(d) > scriptNumLen THEN "ErrNumberTooBig"
  ELSE IF requireMinimal /\ ~checkMinimalDataEncoding(d[2]) THEN "ErrMinimalData"
  ELSE ""

\* Of an element that NumError accepts.
makeScriptNum(d) ==
  LET v == d[2]
      negative == v # <<>> /\ Last(v) >= 128
      magnitude == Uint(IF negative THEN Append(Front(v), Last(v) - 128) ELSE v)
  IN  IF negative THEN -magnitude ELSE magnitude

-----------------------------------------------------------------------------
(* The builder.  Its script is a sequence of opcodes, err is sticky.       *)

NewScriptBuilder == [script |-> <<>>, err |-> FALSE]

AddOps(b, pops) ==
  CASE b.err -> b
    [] ~b.err /\ ScriptSize(b.script) + ScriptSize(pops) > MaxScriptSize ->
         [b EXCEPT !.err = TRUE]
    [] OTHER -> [b EXCEPT !.script = @ \o pops]

AddOp(b, name) == AddOps(b, <<Op(name)>>)

SmallData(d) ==
  Size(d) = 0 \/ d \in {Raw(<<b>>) : b \in 0..16 \cup {129}}

canonicalDataSize(d) ==
  LET ByLength(n) ==
        CASE n < OP_PUSHDATA1 -> 1 + n
          [] n >= OP_PUSHDATA1 /\ n <= 255 -> 2 + n
          [] n > 255 /\ n <= 65535 -> 3 + n
          [] OTHER -> 5 + n
  IN  IF SmallData(d) THEN 1 ELSE ByLength(Size(d))

\* The opcode that pushes d; a single zero byte becomes OP_0.
PushOf(d) ==
  LET ByLength(n) == CASE n < OP_PUSHDATA1 -> n
                       [] n >= OP_PUSHDATA1 /\ n <= 255 -> OP_PUSHDATA1
                       [] n > 255 /\ n <= 65535 -> OP_PUSHDATA2
                       [] OTHER -> OP_PUSHDATA4
      Pushing(n) ==
        CASE n = 0 \/ d = Raw(<<0>>) -> Plain(OP_0)
          [] n = 1 /\ d[2][1] \in 1..16 -> Plain(OP_1 - 1 + d[2][1])
          [] n = 1 /\ d[2][1] = 129 -> Plain(OP_1NEGATE)
          [] OTHER -> [data |-> d, value |-> ByLength(n)]
  IN  Pushing(Size(d))

addData(b, d) == [b EXCEPT !.script = Append(@, PushOf(d))]

AddFullData(b, d) == IF b.err THEN b ELSE addData(b, d)

AddData(b, d) ==
  IF b.err THEN b
  ELSE IF \/ ScriptSize(b.script) + canonicalDataSize(d) > MaxScriptSize
          \/ Size(d) > MaxScriptElementSize
       THEN [b EXCEPT !.err = TRUE]
  ELSE addData(b, d)

AddInt64(b, val) ==
  IF b.err THEN b
  ELSE IF ScriptSize(b.script) + 1 > MaxScriptSize THEN [b EXCEPT !.err = TRUE]
  ELSE IF val \in -1..16
       THEN [b EXCEPT !.script = Append(@, Plain(IF val = 0 THEN OP_0 ELSE OP_1 - 1 + val))]
  ELSE AddData(b, Raw(NumBytes(val)))

AddAll(b, elements) == FoldLeft(AddData, b, elements)

-----------------------------------------------------------------------------
(* Questions about scripts.                                                *)

isSmallInt(pop) == pop.value = OP_0 \/ pop.value \in OP_1..OP_16

asSmallInt(pop) == IF pop.value = OP_0 THEN 0 ELSE pop.value - (OP_1 - 1)

Values(pops) == [i \in DOMAIN pops |-> pops[i].value]

isScriptHash(pops) == Values(pops) = <<OP.HASH160, 20, OP.EQUAL>>

isWitnessScriptHash(pops) == Values(pops) = <<OP_0, 32>>

isWitnessPubKeyHash(pops) == Values(pops) = <<OP_0, 20>>

isPushOnly(pops) == \A i \in DOMAIN pops : pops[i].value <= OP_16

canonicalPush(pop) ==
  LET Longer(n) ==
        \/ pop.value \in 1..75 /\ n = 1 /\ pop.data[2][1] <= 16
        \/ pop.value = OP_PUSHDATA1 /\ n < OP_PUSHDATA1
        \/ pop.value = OP_PUSHDATA2 /\ n <= 255
        \/ pop.value = OP_PUSHDATA4 /\ n <= 65535
  IN  pop.value > OP_16 \/ ~Longer(Size(pop.data))

isWitnessProgram(pops) ==
  /\ Len(pops) = 2
  /\ isSmallInt(pops[1])
  /\ canonicalPush(pops[2])
  /\ Size(pops[2].data) \in 2..40

IsWitnessProgram(d) ==
  /\ Size(d) \in 4..42
  /\ \E parsed \in {parseScript(d)} : ~parsed.err /\ isWitnessProgram(parsed.pops)

removeOpcode(pops, value) == SelectSeq(pops, LAMBDA pop : pop.value # value)

\* bytes.Contains: the empty element is part of every other.
removeOpcodeByData(pops, d) ==
  SelectSeq(pops, LAMBDA pop : ~canonicalPush(pop) \/ (Size(d) > 0 /\ pop.data # d))

getSigOpCount(pops, precise) ==
  LET Count(i) ==
        CASE pops[i].value \in {OP.CHECKSIG, OP.CHECKSIGVERIFY} -> 1
          [] pops[i].value \in {OP.CHECKMULTISIG, OP.CHECKMULTISIGVERIFY} ->
               IF precise /\ i > 1 /\ pops[i - 1].value \in OP_1..OP_16
               THEN asSmallInt(pops[i - 1]) ELSE MaxPubKeysPerMultiSig
          [] OTHER -> 0
  IN  FoldLeft(LAMBDA n, i : n + Count(i), 0, [i \in DOMAIN pops |-> i])

GetSigOpCount(script) == getSigOpCount(parseScript(script).pops, FALSE)

GetPreciseSigOpCount(sigPops, pkPops) ==
  CASE ~isScriptHash(pkPops) -> getSigOpCount(pkPops, TRUE)
    [] isScriptHash(pkPops) /\ (~isPushOnly(sigPops) \/ sigPops = <<>>) -> 0
    [] OTHER -> getSigOpCount(parseScript(Last(sigPops).data).pops, TRUE)

getWitnessSigOps(pops, witness) ==
  CASE isWitnessPubKeyHash(pops) -> 1
    [] isWitnessScriptHash(pops) /\ witness # <<>> ->
         getSigOpCount(parseScript(Last(witness)).pops, TRUE)
    [] OTHER -> 0

\* sigScript[1:], for a script of one short push or that begins with a plain
\* opcode.
AfterFirstByte(sigPops) ==
  CASE OpLength(sigPops[1].value) = 1 -> Script(Tail(sigPops))
    [] Len(sigPops) = 1 /\ sigPops[1].value \in 1..75 -> sigPops[1].data
    [] OTHER -> NoData

GetWitnessSigOpCount(sigPops, pkPops, witness) ==
  CASE isWitnessProgram(pkPops) -> getWitnessSigOps(pkPops, witness)
    [] /\ isScriptHash(pkPops) /\ isPushOnly(sigPops)
       /\ IsWitnessProgram(AfterFirstByte(sigPops)) ->
         getWitnessSigOps(parseScript(AfterFirstByte(sigPops)).pops, witness)
    [] OTHER -> 0

IsUnspendable(script) ==
  \E parsed \in {parseScript(script)} :
    parsed.err \/ (parsed.pops # <<>> /\ parsed.pops[1].value = OP.RETURN)
=============================================================================

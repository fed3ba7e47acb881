---------------------------- MODULE ScriptEngine ----------------------------
(***************************************************************************)
(* The script engine (engine.go of package txscript, the signature         *)
(* opcodes of opcode.go, sigcache.go): NewEngine and Execute decide        *)
(* whether an input may spend an output.  tx is a record [Version, TxIn,   *)
(* TxOut, LockTime]; an input is [PreviousOutPoint, SignatureScript,       *)
(* Witness, Sequence].  Scripts and inputs count from 1, scriptOff counts  *)
(* the opcodes already executed.                                           *)
(***************************************************************************)
EXTENDS ScriptOps

CONSTANT MaxStackSize   \* 1000 in the code

-----------------------------------------------------------------------------
(* The signature cache: the entry of a digest is a pair of a signature and *)
(* a key.                                                                  *)

CONSTANT maxEntries

\* Bug: the digest is not part of the key.
ExistsForAnyHash(cache, sigHash, sig, pubKey) ==
  \E e \in cache : e.sig = sig /\ e.pubKey = pubKey

Exists(cache, sigHash, sig, pubKey) ==
  \E e \in cache : e.hash = sigHash /\ e.sig = sig /\ e.pubKey = pubKey

\* The caches Add may leave, whichever entry is evicted.
Add(cache, sigHash, sig, pubKey) ==
  LET Put(c) == {e \in c : e.hash # sigHash}
                \cup {[hash |-> sigHash, sig |-> sig, pubKey |-> pubKey]}
  IN  CASE maxEntries = 0 -> {cache}
        [] maxEntries > 0 /\ Cardinality(cache) + 1 > maxEntries ->
             {Put(cache \ {e}) : e \in cache}
        [] OTHER -> {Put(cache)}

-----------------------------------------------------------------------------
(* Encodings.                                                              *)

\* The last byte of a signature; an element that is neither a signature nor
\* raw bytes has none that is defined.
HashTypeOf(d) == CASE IsSignature(d) -> HashType(d) [] d[1] = "raw" -> Last(d[2]) [] OTHER -> 0

\* Bug: the flag is tested the wrong way round.
checkHashTypeInverted(vm, hashType) ==
  IF "StrictEncoding" \notin vm.flags /\ hashType % 128 \notin SigHashAll..SigHashSingle
  THEN "ErrInvalidSigHashType" ELSE ""

checkHashTypeEncoding(vm, hashType) ==
  IF "StrictEncoding" \in vm.flags /\ hashType % 128 \notin SigHashAll..SigHashSingle
  THEN "ErrInvalidSigHashType" ELSE ""

checkPubKeyEncoding(vm, pubKey) ==
  CASE /\ "WitnessPubKeyType" \in vm.flags /\ isWitnessVersionActive(vm, 0)
       /\ ~(IsPubKey(pubKey) /\ pubKey[3]) -> "ErrWitnessPubKeyType"
    [] "StrictEncoding" \in vm.flags /\ ~IsPubKey(pubKey) -> "ErrPubKeyType"
    [] OTHER -> ""

BigEndian(b) == FoldLeft(LAMBDA n, x : 256 * n + x, 0, b)

\* The integer of l bytes after the two bytes at i is positive and minimal.
IntegerAt(sig, i, l) ==
  /\ sig[i] = 2
  /\ l > 0
  /\ sig[i + 2] < 128
  /\ l > 1 /\ sig[i + 2] = 0 => sig[i + 3] >= 128

\* The read of S's length is out of range, which panics, when R ends where S should begin.
ReadsPastEnd(sig) ==
  Len(sig) \in 8..72 /\ sig[1] = 48 /\ sig[2] = Len(sig) - 2 /\ sig[4] + 5 = Len(sig)

SignatureFormat(sig) ==
  /\ Len(sig) \in 8..72
  /\ sig[1] = 48
  /\ sig[2] = Len(sig) - 2
  /\ LET rLen == sig[4]
     IN  /\ rLen + 5 < Len(sig)
         /\ rLen + sig[rLen + 6] + 6 = Len(sig)
         /\ IntegerAt(sig, 3, rLen)
         /\ IntegerAt(sig, rLen + 5, sig[rLen + 6])

checkSignatureEncoding(vm, sig) ==
  LET rLen == sig[4]
      sValue == BigEndian(SubSeq(sig, rLen + 7, Len(sig)))
  IN  CASE vm.flags \cap {"DERSignatures", "LowS", "StrictEncoding"} = {} -> ""
        [] ReadsPastEnd(sig) /\ vm.flags \cap {"DERSignatures", "LowS", "StrictEncoding"} # {} ->
             "panic"
        [] OTHER -> IF ~SignatureFormat(sig) THEN "ErrSigDER"
                    ELSE IF "LowS" \in vm.flags /\ sValue > halfOrder THEN "ErrSigHighS" ELSE ""

\* Of a full signature, hash type included.  The signatures Sign makes are
\* well formed and low.
SigEncodingError(vm, d) ==
  CASE checkHashTypeEncoding(vm, HashTypeOf(d)) # "" ->
         checkHashTypeEncoding(vm, HashTypeOf(d))
    [] OTHER -> IF IsSignature(d) THEN ""
                ELSE checkSignatureEncoding(vm, IF d[1] = "raw" THEN Front(d[2]) ELSE <<>>)

-----------------------------------------------------------------------------
(* Signature opcodes.                                                      *)

opcodeCodeSeparator(op, vm) == [vm EXCEPT !.lastCodeSep = vm.scriptOff]

subScript(vm) ==
  SubSeq(vm.scripts[vm.scriptIdx], vm.lastCodeSep + 1, Len(vm.scripts[vm.scriptIdx]))

\* script has the signatures removed already where they must be.
SigHashOf(vm, script, hashType) ==
  IF isWitnessVersionActive(vm, 0)
  THEN calcWitnessSignatureHash(script, vm.hashCache, hashType, vm.tx, vm.txIdx, vm.inputAmount)
  ELSE calcSignatureHash(script, hashType, vm.tx, vm.txIdx)

WithoutSigs(vm, script, sigs) ==
  IF isWitnessVersionActive(vm, 0) THEN script ELSE FoldLeft(removeOpcodeByData, script, sigs)

Valid(vm, hash, sig, pubKey) ==
  Exists(vm.sigCache, hash, sig, pubKey) \/ Verify(sig, hash, pubKey)

opcodeCheckSig(op, vm) ==
  LET pk == PeekByteArray(vm.dstack, 0)
      sig == PeekByteArray(vm.dstack, 1)
      popped == [vm EXCEPT !.dstack = DropN(@, 2)]
      Result(b) == Push(popped, fromBool(b))
      Checked(hash, valid) ==
        IF ~valid /\ "NullFail" \in vm.flags THEN Fail(vm, "ErrNullFail")
        ELSE [Result(valid) EXCEPT
                !.verified = IF valid THEN Append(@, [hash |-> hash, sig |-> sig, pubKey |-> pk])
                             ELSE @,
                !.sigChecks = @ + 1]
      CheckedFor(hash) == Checked(hash, Valid(vm, hash, sig, pk))
  IN  IF Len(vm.dstack) < 2 THEN Fail(vm, "ErrInvalidStackOperation")
      ELSE IF Size(sig) < 1 THEN Result(FALSE)
      ELSE IF SigEncodingError(vm, sig) # "" THEN Fail(vm, SigEncodingError(vm, sig))
      ELSE IF checkPubKeyEncoding(vm, pk) # "" THEN Fail(vm, checkPubKeyEncoding(vm, pk))
      ELSE IF ~IsPubKey(pk) \/ ~IsSignature(sig) THEN Result(FALSE)
      ELSE CheckedFor(SigHashOf(vm, WithoutSigs(vm, subScript(vm), <<sig>>), HashTypeOf(sig)))

opcodeCheckSigVerify(op, vm) == abstractVerify(op, opcodeCheckSig(op, vm), "ErrCheckSigVerify")

\* The loop of opcodeCheckMultiSig: r.key and r.sig are the next key and the
\* next signature, r.parsed the signatures whose encoding has been checked.
RECURSIVE matchSignatures(_, _, _, _, _)
matchSignatures(vm, script, keys, sigs, r) ==
  LET pk == keys[r.key]
      sig == sigs[r.sig]
      next == [r EXCEPT !.key = @ + 1, !.parsed = @ \cup {r.sig}]
      Continue(s) == matchSignatures(vm, script, keys, sigs, s)
      VerifyWith(hash) ==
        IF Valid(vm, hash, sig, pk)
        THEN Continue([next EXCEPT !.sig = @ + 1, !.checks = @ + 1,
                         !.verified = Append(@, [hash |-> hash, sig |-> sig, pubKey |-> pk])])
        ELSE Continue([next EXCEPT !.checks = @ + 1])
  IN  IF r.sig > Len(sigs) THEN [r EXCEPT !.success = TRUE]
      ELSE IF Len(sigs) - r.sig > Len(keys) - r.key THEN r
      ELSE IF Size(sig) = 0 THEN Continue([r EXCEPT !.key = @ + 1])
      ELSE IF r.sig \notin r.parsed /\ SigEncodingError(vm, sig) # ""
           THEN [r EXCEPT !.err = SigEncodingError(vm, sig)]
      ELSE IF ~IsSignature(sig) THEN Continue(next)
      ELSE IF checkPubKeyEncoding(vm, pk) # "" THEN [r EXCEPT !.err = checkPubKeyEncoding(vm, pk)]
      ELSE IF ~IsPubKey(pk) THEN Continue(next)
      ELSE VerifyWith(SigHashOf(vm, script, HashTypeOf(sig)))

matchAll(vm, keys, sigs) ==
  matchSignatures(vm, WithoutSigs(vm, subScript(vm), sigs), keys, sigs,
    [key |-> 1, sig |-> 1, parsed |-> {}, success |-> FALSE, err |-> "",
     checks |-> 0, verified |-> <<>>])

\* used is the number of elements the opcode takes, counts and dummy included.
CheckCounted(vm, numPubKeys, numSignatures, used) ==
  LET keys == [i \in 1..numPubKeys |-> PeekByteArray(vm.dstack, i)]
      sigs == [i \in 1..numSignatures |-> PeekByteArray(vm.dstack, numPubKeys + 1 + i)]
      Matched(r) ==
        IF r.err # "" THEN Fail(vm, r.err)
        ELSE IF ~r.success /\ "NullFail" \in vm.flags /\ \E i \in DOMAIN sigs : Size(sigs[i]) > 0
             THEN Fail(vm, "ErrNullFail")
        ELSE [vm EXCEPT !.dstack = Append(DropN(@, used), fromBool(r.success)),
                        !.numOps = @ + numPubKeys,
                        !.verified = @ \o r.verified, !.sigChecks = @ + r.checks]
  IN  IF numSignatures \notin 0..numPubKeys THEN Fail(vm, "ErrInvalidSignatureCount")
      ELSE IF Len(vm.dstack) < used THEN Fail(vm, "ErrInvalidStackOperation")
      ELSE IF "StrictMultiSig" \in vm.flags /\ Size(PeekByteArray(vm.dstack, used - 1)) # 0
           THEN Fail(vm, "ErrSigNullDummy")
      ELSE Matched(matchAll(vm, keys, sigs))

opcodeCheckMultiSig(op, vm) ==
  LET keyErr == IntError(vm, 0, defaultScriptNumLen)
      numPubKeys == IntAt(vm, 0)
      numSignatures == IntAt(vm, numPubKeys + 1)
      sigErr == IntError(vm, numPubKeys + 1, defaultScriptNumLen)
  IN  IF keyErr # "" THEN Fail(vm, keyErr)
      ELSE IF numPubKeys \notin 0..MaxPubKeysPerMultiSig THEN Fail(vm, "ErrInvalidPubKeyCount")
      ELSE IF vm.numOps + numPubKeys > MaxOpsPerScript THEN Fail(vm, "ErrTooManyOperations")
      ELSE IF sigErr # "" THEN Fail(vm, sigErr)
      ELSE CheckCounted(vm, numPubKeys, numSignatures, numPubKeys + numSignatures + 3)

opcodeCheckMultiSigVerify(op, vm) ==
  abstractVerify(op, opcodeCheckMultiSig(op, vm), "ErrCheckMultiSigVerify")

-----------------------------------------------------------------------------
(* Execution.                                                              *)

\* opcodeArray.  OP_RESERVED, 80, has no name; what follows OP_NOP10 is invalid.
opfunc(op, vm) ==
  LET v == op.value
      Is(name) == v = OP[name]
  IN  CASE v = OP_0 -> opcodeFalse(op, vm)
        [] v \in 1..OP_PUSHDATA4 -> opcodePushData(op, vm)
        [] v = OP_1NEGATE -> opcode1Negate(op, vm)
        [] v \in OP_1..OP_16 -> opcodeN(op, vm)
        [] v \in {OP[n] : n \in {"NOP", "NOP1", "NOP4", "NOP5", "NOP6", "NOP7",
                                 "NOP8", "NOP9", "NOP10"}} -> opcodeNop(op, vm)
        [] Is("IF") -> opcodeIf(op, vm)
        [] Is("NOTIF") -> opcodeNotIf(op, vm)
        [] Is("ELSE") -> opcodeElse(op, vm)
        [] Is("ENDIF") -> opcodeEndif(op, vm)
        [] Is("VERIFY") -> opcodeVerify(op, vm)
        [] Is("RETURN") -> opcodeReturn(op, vm)
        [] Is("TOALTSTACK") -> opcodeToAltStack(op, vm)
        [] Is("FROMALTSTACK") -> opcodeFromAltStack(op, vm)
        [] Is("2DROP") -> opcode2Drop(op, vm)
        [] Is("2DUP") -> opcode2Dup(op, vm)
        [] Is("3DUP") -> opcode3Dup(op, vm)
        [] Is("2OVER") -> opcode2Over(op, vm)
        [] Is("2ROT") -> opcode2Rot(op, vm)
        [] Is("2SWAP") -> opcode2Swap(op, vm)
        [] Is("IFDUP") -> opcodeIfDup(op, vm)
        [] Is("DEPTH") -> opcodeDepth(op, vm)
        [] Is("DROP") -> opcodeDrop(op, vm)
        [] Is("DUP") -> opcodeDup(op, vm)
        [] Is("NIP") -> opcodeNip(op, vm)
        [] Is("OVER") -> opcodeOver(op, vm)
        [] Is("PICK") -> opcodePick(op, vm)
        [] Is("ROLL") -> opcodeRoll(op, vm)
        [] Is("ROT") -> opcodeRot(op, vm)
        [] Is("SWAP") -> opcodeSwap(op, vm)
        [] Is("TUCK") -> opcodeTuck(op, vm)
        [] Is("SIZE") -> opcodeSize(op, vm)
        [] Is("EQUAL") -> opcodeEqual(op, vm)
        [] Is("EQUALVERIFY") -> opcodeEqualVerify(op, vm)
        [] Is("1ADD") -> opcode1Add(op, vm)
        [] Is("1SUB") -> opcode1Sub(op, vm)
        [] Is("NEGATE") -> opcodeNegate(op, vm)
        [] Is("ABS") -> opcodeAbs(op, vm)
        [] Is("NOT") -> opcodeNot(op, vm)
        [] Is("0NOTEQUAL") -> opcode0NotEqual(op, vm)
        [] Is("ADD") -> opcodeAdd(op, vm)
        [] Is("SUB") -> opcodeSub(op, vm)
        [] Is("BOOLAND") -> opcodeBoolAnd(op, vm)
        [] Is("BOOLOR") -> opcodeBoolOr(op, vm)
        [] Is("NUMEQUAL") -> opcodeNumEqual(op, vm)
        [] Is("NUMEQUALVERIFY") -> opcodeNumEqualVerify(op, vm)
        [] Is("NUMNOTEQUAL") -> opcodeNumNotEqual(op, vm)
        [] Is("LESSTHAN") -> opcodeLessThan(op, vm)
        [] Is("GREATERTHAN") -> opcodeGreaterThan(op, vm)
        [] Is("LESSTHANOREQUAL") -> opcodeLessThanOrEqual(op, vm)
        [] Is("GREATERTHANOREQUAL") -> opcodeGreaterThanOrEqual(op, vm)
        [] Is("MIN") -> opcodeMin(op, vm)
        [] Is("MAX") -> opcodeMax(op, vm)
        [] Is("WITHIN") -> opcodeWithin(op, vm)
        [] Is("RIPEMD160") -> opcodeRipemd160(op, vm)
        [] Is("SHA1") -> opcodeSha1(op, vm)
        [] Is("SHA256") -> opcodeSha256(op, vm)
        [] Is("HASH160") -> opcodeHash160(op, vm)
        [] Is("HASH256") -> opcodeHash256(op, vm)
        [] Is("CODESEPARATOR") -> opcodeCodeSeparator(op, vm)
        [] Is("CHECKSIG") -> opcodeCheckSig(op, vm)
        [] Is("CHECKSIGVERIFY") -> opcodeCheckSigVerify(op, vm)
        [] Is("CHECKMULTISIG") -> opcodeCheckMultiSig(op, vm)
        [] Is("CHECKMULTISIGVERIFY") -> opcodeCheckMultiSigVerify(op, vm)
        [] Is("CHECKLOCKTIMEVERIFY") -> opcodeCheckLockTimeVerify(op, vm)
        [] Is("CHECKSEQUENCEVERIFY") -> opcodeCheckSequenceVerify(op, vm)
        [] v = OP_1NEGATE + 1 \/ v \in {OP[n] : n \in {"VER", "VERIF", "VERNOTIF", "RESERVED1",
                                                      "RESERVED2"}} -> opcodeReserved(op, vm)
        [] OTHER -> opcodeInvalid(op, vm)

executeOpcode(pop, vm) ==
  LET counted == IF pop.value > OP_16 THEN [vm EXCEPT !.numOps = @ + 1] ELSE vm
  IN  IF isDisabled(pop) THEN opcodeDisabled(pop, vm)
      ELSE IF alwaysIllegal(pop) THEN opcodeReserved(pop, vm)
      ELSE IF counted.numOps > MaxOpsPerScript THEN Fail(vm, "ErrTooManyOperations")
      ELSE IF pop.value <= OP_16 /\ Size(pop.data) > MaxScriptElementSize
           THEN Fail(vm, "ErrElementTooBig")
      ELSE IF ~isBranchExecuting(vm) /\ ~isConditional(pop) THEN counted
      ELSE IF /\ "MinimalData" \in vm.flags /\ isBranchExecuting(vm)
              /\ pop.value <= OP_PUSHDATA4 /\ ~checkMinimalDataPush(pop)
           THEN Fail(vm, "ErrMinimalData")
      ELSE opfunc(pop, counted)

\* Continues with script as the next one and stk as its stack.
Resume(vm, script, stk) == [vm EXCEPT !.scripts = Append(@, script), !.dstack = stk]

ElementSizes(vm) ==
  IF \E i \in DOMAIN vm.dstack : Size(vm.dstack[i]) > MaxScriptElementSize
  THEN Fail(vm, "ErrElementTooBig") ELSE vm

verifyWitnessProgram(vm, witness) ==
  LET size == Size(vm.witnessProgram)
      parsed == parseScript(Last(witness))
  IN  IF ~isWitnessVersionActive(vm, 0)
      THEN IF "DiscourageUpgradeableWitnessProgram" \in vm.flags
           THEN Fail(vm, "ErrDiscourageUpgradableWitnessProgram")
           ELSE [vm EXCEPT !.witnessProgram = NoData]
      ELSE IF size = 20
      THEN IF Len(witness) # 2 THEN Fail(vm, "ErrWitnessProgramMismatch")
           ELSE ElementSizes(Resume(vm, payToPubKeyHashScript(vm.witnessProgram), witness))
      ELSE IF size = 32
      THEN IF witness = <<>> THEN Fail(vm, "ErrWitnessProgramEmpty")
           ELSE IF Size(Last(witness)) > MaxScriptSize THEN Fail(vm, "ErrScriptTooBig")
           ELSE IF Sha256(Last(witness)) # vm.witnessProgram
                THEN Fail(vm, "ErrWitnessProgramMismatch")
           ELSE IF parsed.err THEN Fail(vm, "ErrMalformedPush")
           ELSE ElementSizes(Resume(vm, parsed.pops, Front(witness)))
      ELSE Fail(vm, "ErrWitnessProgramWrongLength")

CheckErrorCondition(vm, finalScript) ==
  LET depth == Len(vm.dstack)
  IN  IF vm.scriptIdx <= Len(vm.scripts) THEN Fail(vm, "ErrScriptUnfinished")
      ELSE IF finalScript /\ isWitnessVersionActive(vm, 0) /\ depth # 1
           THEN Fail(vm, "ErrEvalFalse")
      ELSE IF finalScript /\ "CleanStack" \in vm.flags /\ depth # 1
           THEN Fail(vm, "ErrCleanStack")
      ELSE IF depth < 1 THEN Fail(vm, "ErrEmptyStack")
      ELSE IF ~asBool(Last(vm.dstack)) THEN Fail(vm, "ErrEvalFalse")
      ELSE [vm EXCEPT !.dstack = Front(@)]

\* What follows the last opcode of the script scriptIdx - 1.
NextScript(vm) ==
  LET ended == vm.scriptIdx - 1
      checked == CheckErrorCondition(vm, FALSE)
      redeem == parseScript(Last(vm.savedFirstStack))
  IN  IF ended = 1 /\ vm.bip16 THEN [vm EXCEPT !.savedFirstStack = vm.dstack]
      ELSE IF ended = 2 /\ vm.bip16
      THEN IF checked.err # "" THEN checked
           ELSE IF redeem.err THEN Fail(vm, "ErrMalformedPush")
           ELSE Resume(vm, redeem.pops, Front(vm.savedFirstStack))
      ELSE IF vm.witnessProgram # NoData /\ (ended = 2 \/ (ended = 3 /\ vm.bip16))
      THEN verifyWitnessProgram(vm, vm.tx.TxIn[vm.txIdx].Witness)
      ELSE vm

EndOfScript(vm) ==
  LET SkipEmpty(next) ==
        IF next.scriptIdx <= Len(next.scripts) /\ next.scripts[next.scriptIdx] = <<>>
        THEN next.scriptIdx + 1 ELSE next.scriptIdx
      StartAt(next, at) ==
        IF next.err # "" THEN next
        ELSE [next EXCEPT !.scriptIdx = at, !.lastCodeSep = 0, !.done = at > Len(next.scripts)]
      Continue(next) == StartAt(next, SkipEmpty(next))
  IN  IF vm.condStack # <<>> THEN Fail(vm, "ErrUnbalancedConditional")
      ELSE Continue(NextScript([vm EXCEPT !.astack = <<>>, !.numOps = 0, !.scriptOff = 0,
                                          !.scriptIdx = @ + 1]))

Step(vm) ==
  LET opcode == vm.scripts[vm.scriptIdx][vm.scriptOff + 1]
      Executed(after) ==
        IF after.err # "" THEN after
        ELSE IF Len(after.dstack) + Len(after.astack) > MaxStackSize
             THEN Fail(after, "ErrStackOverflow")
        ELSE IF after.scriptOff >= Len(after.scripts[after.scriptIdx]) THEN EndOfScript(after)
        ELSE after
  IN  IF vm.scriptIdx > Len(vm.scripts) \/ vm.scriptOff >= Len(vm.scripts[vm.scriptIdx])
      THEN Fail(vm, "ErrInvalidProgramCounter")
      ELSE Executed(executeOpcode(opcode, [vm EXCEPT !.scriptOff = @ + 1]))

RECURSIVE Execute(_)
Execute(vm) ==
  CASE vm.err # "" -> vm
    [] vm.err = "" /\ vm.done -> CheckErrorCondition(vm, TRUE)
    [] OTHER -> Execute(Step(vm))

-----------------------------------------------------------------------------

\* The script that is the witness program of an input, if any.
WitnessProgramScript(sigPops, pkPops, witness, bip16) ==
  IF isWitnessProgram(pkPops) THEN pkPops
  ELSE IF witness # <<>> /\ bip16 THEN parseScript(sigPops[1].data).pops
  ELSE <<>>

SigScriptIsProgram(sigPops) ==
  Len(sigPops) = 1 /\ canonicalPush(sigPops[1]) /\ IsWitnessProgram(sigPops[1].data)

\* The error NewEngine returns.
EngineError(sigPops, pkPops, witness, flags) ==
  LET bip16 == "Bip16" \in flags /\ isScriptHash(pkPops)
  IN  IF sigPops = <<>> /\ pkPops = <<>> THEN "ErrEvalFalse"
      ELSE IF "CleanStack" \in flags /\ flags \cap {"Bip16", "Witness"} = {}
           THEN "ErrInvalidFlags"
      ELSE IF "SigPushOnly" \in flags /\ ~isPushOnly(sigPops) THEN "ErrNotPushOnly"
      ELSE IF ScriptSize(sigPops) > MaxScriptSize \/ ScriptSize(pkPops) > MaxScriptSize
           THEN "ErrScriptTooBig"
      ELSE IF bip16 /\ ~isPushOnly(sigPops) THEN "ErrNotPushOnly"
      ELSE IF "Witness" \notin flags THEN ""
      ELSE IF "Bip16" \notin flags THEN "ErrInvalidFlags"
      ELSE IF isWitnessProgram(pkPops)
           THEN IF sigPops # <<>> THEN "ErrWitnessMalleated" ELSE ""
      ELSE IF witness # <<>> /\ bip16
           THEN IF SigScriptIsProgram(sigPops) THEN "" ELSE "ErrWitnessMalleatedP2SH"
      ELSE IF witness # <<>> THEN "ErrWitnessUnexpected" ELSE ""

\* hashCache is the one passed, or the one computed when it is nil.
NewEngine(scriptPubKey, tx, txIdx, flags, sigCache, hashCache, inputAmount) ==
  LET sigPops == tx.TxIn[txIdx].SignatureScript
      witness == tx.TxIn[txIdx].Witness
      bip16 == "Bip16" \in flags /\ isScriptHash(scriptPubKey)
      err == EngineError(sigPops, scriptPubKey, witness, flags)
      program == IF "Witness" \in flags /\ err = ""
                 THEN WitnessProgramScript(sigPops, scriptPubKey, witness, bip16) ELSE <<>>
  IN  [scripts |-> <<sigPops, scriptPubKey>>,
       scriptIdx |-> IF sigPops = <<>> THEN 2 ELSE 1,
       scriptOff |-> 0, lastCodeSep |-> 0, dstack |-> <<>>, astack |-> <<>>,
       condStack |-> <<>>, numOps |-> 0, flags |-> flags, bip16 |-> bip16,
       savedFirstStack |-> <<>>,
       witnessVersion |-> IF program = <<>> THEN 0 ELSE asSmallInt(program[1]),
       witnessProgram |-> IF program = <<>> THEN NoData ELSE program[2].data,
       tx |-> tx, txIdx |-> txIdx, inputAmount |-> inputAmount,
       sigCache |-> sigCache, hashCache |-> hashCache,
       err |-> err, done |-> FALSE,
       verified |-> <<>>,      \* the entries the run adds to the cache
       sigChecks |-> 0]        \* how many signatures it verifies
=============================================================================

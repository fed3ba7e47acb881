------------------------------ MODULE ScriptOps ------------------------------
(***************************************************************************)
(* The stack and the opcode handlers of the script engine (stack.go and    *)
(* opcode.go of package txscript).  A handler takes the opcode and the     *)
(* engine and returns the engine; err is the code of the error it returns. *)
(* Go's int32 and int64 are wide enough for every number of                *)
(* defaultScriptNumLen bytes and are integers here.                        *)
(***************************************************************************)
EXTENDS ScriptSighash, FiniteSets

CONSTANTS
  MaxOpsPerScript,            \* 201 in the code
  LockTimeThreshold,          \* 500000000 in the code
  SequenceLockTimeDisabled,   \* 2^31, wire/msgtx.go
  SequenceLockTimeIsSeconds,  \* 2^22
  SequenceLockTimeMask,       \* 65535
  MaxTxInSequenceNum,         \* 2^32 - 1
  halfOrder                   \* half the order of the curve

Fail(vm, code) == [vm EXCEPT !.err = code]

-----------------------------------------------------------------------------
(* The stack: a sequence whose last element is the top.                    *)

asBool(d) ==
  IF d[1] # "raw" THEN TRUE
  ELSE \E i \in DOMAIN d[2] : d[2][i] # 0 /\ ~(i = Len(d[2]) /\ d[2][i] = 128)

fromBool(v) == IF v THEN Raw(<<1>>) ELSE Raw(<<>>)

PeekByteArray(s, idx) == s[Len(s) - idx]
nipN(s, idx) == RemoveAt(s, Len(s) - idx)
RollN(s, n) == Append(nipN(s, n), PeekByteArray(s, n))
PickN(s, n) == Append(s, PeekByteArray(s, n))
DropN(s, n) == SubSeq(s, 1, Len(s) - n)

Times(n, F(_), s) == FoldLeft(LAMBDA t, i : F(t), s, [i \in 1..n |-> i])

DupN(s, n) == Times(n, LAMBDA t : PickN(t, n - 1), s)
RotN(s, n) == Times(n, LAMBDA t : RollN(t, 3 * n - 1), s)
SwapN(s, n) == Times(n, LAMBDA t : RollN(t, 2 * n - 1), s)
\* Bug: the copies are taken from a fixed distance below the old top.
OverNFixed(s, n) == s \o [i \in 1..n |-> PeekByteArray(s, 2 * n - 1)]

OverN(s, n) == Times(n, LAMBDA t : PickN(t, 2 * n - 1), s)
Tuck(s) == DropN(s, 2) \o <<PeekByteArray(s, 0), PeekByteArray(s, 1), PeekByteArray(s, 0)>>

\* Replaces the stack, of which the operation needs the top n elements.
Stack(vm, n, s) ==
  IF Len(vm.dstack) < n THEN Fail(vm, "ErrInvalidStackOperation")
  ELSE [vm EXCEPT !.dstack = s]

Push(vm, d) == [vm EXCEPT !.dstack = Append(@, d)]
PushInt(vm, n) == Push(vm, Raw(NumBytes(n)))

\* What PopInt reports of the element idx below the top.
IntError(vm, idx, scriptNumLen) ==
  IF idx >= Len(vm.dstack) THEN "ErrInvalidStackOperation"
  ELSE NumError(PeekByteArray(vm.dstack, idx), "MinimalData" \in vm.flags, scriptNumLen)

IntAt(vm, idx) == makeScriptNum(PeekByteArray(vm.dstack, idx))

\* Pops n numbers, v[1] from the top, and pushes F(v).
NumOp(vm, n, F(_)) ==
  LET Checked(errs) ==
        LET first == SelectInSeq(errs, LAMBDA err : err # "")
        IN  IF first # 0 THEN Fail(vm, errs[first])
            ELSE PushInt([vm EXCEPT !.dstack = DropN(@, n)], F([i \in 1..n |-> IntAt(vm, i - 1)]))
  IN  Checked([i \in 1..n |-> IntError(vm, i - 1, defaultScriptNumLen)])

Bit(b) == IF b THEN 1 ELSE 0

-----------------------------------------------------------------------------
(* Constants and control flow.                                             *)

opcodeDisabled(op, vm) == Fail(vm, "ErrDisabledOpcode")
opcodeReserved(op, vm) == Fail(vm, "ErrReservedOpcode")
opcodeInvalid(op, vm) == Fail(vm, "ErrReservedOpcode")
opcodeFalse(op, vm) == Push(vm, Raw(<<>>))
opcodePushData(op, vm) == Push(vm, op.data)
opcode1Negate(op, vm) == PushInt(vm, -1)
opcodeN(op, vm) == PushInt(vm, op.value - (OP_1 - 1))

opcodeNop(op, vm) ==
  IF op.value # OP.NOP /\ "DiscourageUpgradableNops" \in vm.flags
  THEN Fail(vm, "ErrDiscourageUpgradableNOPs") ELSE vm

isBranchExecuting(vm) == vm.condStack = <<>> \/ Last(vm.condStack) = "OpCondTrue"

isWitnessVersionActive(vm, version) ==
  vm.witnessProgram # NoData /\ vm.witnessVersion = version

IfBoolError(vm) ==
  LET so == PeekByteArray(vm.dstack, 0)
  IN  CASE vm.dstack = <<>> -> "ErrInvalidStackOperation"
        [] /\ vm.dstack # <<>> /\ isWitnessVersionActive(vm, 0)
           /\ "MinimalIf" \in vm.flags /\ so \notin {Raw(<<>>), Raw(<<1>>)} -> "ErrMinimalIf"
        [] OTHER -> ""

\* popIfBool and the push on the conditional stack.
Conditional(vm, when) ==
  IF ~isBranchExecuting(vm) THEN [vm EXCEPT !.condStack = Append(@, "OpCondSkip")]
  ELSE IF IfBoolError(vm) # "" THEN Fail(vm, IfBoolError(vm))
  ELSE LET ok == asBool(PeekByteArray(vm.dstack, 0))
       IN  [vm EXCEPT !.dstack = DropN(@, 1),
                      !.condStack = Append(@, IF ok = when THEN "OpCondTrue" ELSE "OpCondFalse")]

opcodeIf(op, vm) == Conditional(vm, TRUE)
opcodeNotIf(op, vm) == Conditional(vm, FALSE)

\* Bug: a skipped conditional is inverted too.
opcodeElseInvertsSkip(op, vm) ==
  IF vm.condStack = <<>> THEN Fail(vm, "ErrUnbalancedConditional")
  ELSE [vm EXCEPT !.condStack[Len(vm.condStack)] =
          IF @ = "OpCondTrue" THEN "OpCondFalse" ELSE "OpCondTrue"]

opcodeElse(op, vm) ==
  IF vm.condStack = <<>> THEN Fail(vm, "ErrUnbalancedConditional")
  ELSE [vm EXCEPT !.condStack[Len(vm.condStack)] =
          CASE @ = "OpCondTrue" -> "OpCondFalse"
            [] @ = "OpCondFalse" -> "OpCondTrue"
            [] @ = "OpCondSkip" -> @]

opcodeEndif(op, vm) ==
  IF vm.condStack = <<>> THEN Fail(vm, "ErrUnbalancedConditional")
  ELSE [vm EXCEPT !.condStack = Front(@)]

abstractVerify(op, vm, code) ==
  CASE vm.err # "" -> vm
    [] vm.err = "" /\ vm.dstack = <<>> -> Fail(vm, "ErrInvalidStackOperation")
    [] vm.err = "" /\ vm.dstack # <<>> /\ ~asBool(Last(vm.dstack)) -> Fail(vm, code)
    [] OTHER -> [vm EXCEPT !.dstack = Front(@)]

opcodeVerify(op, vm) == abstractVerify(op, vm, "ErrVerify")
opcodeReturn(op, vm) == Fail(vm, "ErrEarlyReturn")

-----------------------------------------------------------------------------
(* Lock times.                                                             *)

verifyLockTime(vm, txLockTime, threshold, lockTime) ==
  IF (txLockTime < threshold) # (lockTime < threshold) \/ lockTime > txLockTime
  THEN Fail(vm, "ErrUnsatisfiedLockTime") ELSE vm

AsNop(vm) ==
  IF "DiscourageUpgradableNops" \in vm.flags
  THEN Fail(vm, "ErrDiscourageUpgradableNOPs") ELSE vm

\* One byte more than other numbers have.
LockTimeError(vm) ==
  LET Checked(err) == IF err = "" /\ IntAt(vm, 0) < 0 THEN "ErrNegativeLockTime" ELSE err
  IN  Checked(IntError(vm, 0, defaultScriptNumLen + 1))

opcodeCheckLockTimeVerify(op, vm) ==
  CASE "CheckLockTimeVerify" \notin vm.flags -> AsNop(vm)
    [] "CheckLockTimeVerify" \in vm.flags /\ LockTimeError(vm) # "" -> Fail(vm, LockTimeError(vm))
    [] OTHER ->
         LET checked == verifyLockTime(vm, vm.tx.LockTime, LockTimeThreshold, IntAt(vm, 0))
         IN  IF checked.err = "" /\ vm.tx.TxIn[vm.txIdx].Sequence = MaxTxInSequenceNum
             THEN Fail(vm, "ErrUnsatisfiedLockTime") ELSE checked

HasBit(n, bit) == (n \div bit) % 2 = 1

LockTimeBits(n) ==
  (n % (SequenceLockTimeMask + 1))
  + (IF HasBit(n, SequenceLockTimeIsSeconds) THEN SequenceLockTimeIsSeconds ELSE 0)

opcodeCheckSequenceVerify(op, vm) ==
  LET txSequence == vm.tx.TxIn[vm.txIdx].Sequence
  IN  CASE "CheckSequenceVerify" \notin vm.flags -> AsNop(vm)
        [] "CheckSequenceVerify" \in vm.flags /\ LockTimeError(vm) # "" ->
             Fail(vm, LockTimeError(vm))
        [] OTHER ->
             CASE HasBit(IntAt(vm, 0), SequenceLockTimeDisabled) -> vm
               [] /\ ~HasBit(IntAt(vm, 0), SequenceLockTimeDisabled)
                  /\ vm.tx.Version < 2 \/ HasBit(txSequence, SequenceLockTimeDisabled) ->
                    Fail(vm, "ErrUnsatisfiedLockTime")
               [] OTHER -> verifyLockTime(vm, LockTimeBits(txSequence), SequenceLockTimeIsSeconds,
                                          LockTimeBits(IntAt(vm, 0)))

-----------------------------------------------------------------------------
(* Stack and numeric opcodes.                                              *)

opcodeToAltStack(op, vm) ==
  IF vm.dstack = <<>> THEN Fail(vm, "ErrInvalidStackOperation")
  ELSE [vm EXCEPT !.dstack = Front(@), !.astack = Append(@, Last(vm.dstack))]

opcodeFromAltStack(op, vm) ==
  IF vm.astack = <<>> THEN Fail(vm, "ErrInvalidStackOperation")
  ELSE [vm EXCEPT !.astack = Front(@), !.dstack = Append(@, Last(vm.astack))]

opcode2Drop(op, vm) == Stack(vm, 2, DropN(vm.dstack, 2))
opcode2Dup(op, vm) == Stack(vm, 2, DupN(vm.dstack, 2))
opcode3Dup(op, vm) == Stack(vm, 3, DupN(vm.dstack, 3))
opcode2Over(op, vm) == Stack(vm, 4, OverN(vm.dstack, 2))
opcode2Rot(op, vm) == Stack(vm, 6, RotN(vm.dstack, 2))
opcode2Swap(op, vm) == Stack(vm, 4, SwapN(vm.dstack, 2))
opcodeIfDup(op, vm) ==
  Stack(vm, 1, IF asBool(Last(vm.dstack)) THEN PickN(vm.dstack, 0) ELSE vm.dstack)
opcodeDepth(op, vm) == PushInt(vm, Len(vm.dstack))
opcodeDrop(op, vm) == Stack(vm, 1, DropN(vm.dstack, 1))
opcodeDup(op, vm) == Stack(vm, 1, DupN(vm.dstack, 1))
opcodeNip(op, vm) == Stack(vm, 2, nipN(vm.dstack, 1))
opcodeOver(op, vm) == Stack(vm, 2, OverN(vm.dstack, 1))
opcodeRot(op, vm) == Stack(vm, 3, RotN(vm.dstack, 1))
opcodeSwap(op, vm) == Stack(vm, 2, SwapN(vm.dstack, 1))
opcodeTuck(op, vm) == Stack(vm, 2, Tuck(vm.dstack))

\* Pops a number and applies Move to the rest of the stack.
Indexed(vm, Move(_, _)) ==
  LET rest == Front(vm.dstack)
  IN  CASE IntError(vm, 0, defaultScriptNumLen) # "" ->
             Fail(vm, IntError(vm, 0, defaultScriptNumLen))
        [] OTHER -> IF IntAt(vm, 0) \notin 0..(Len(rest) - 1)
                    THEN Fail(vm, "ErrInvalidStackOperation")
                    ELSE [vm EXCEPT !.dstack = Move(rest, IntAt(vm, 0))]

opcodePick(op, vm) == Indexed(vm, PickN)
opcodeRoll(op, vm) == Indexed(vm, RollN)

opcodeSize(op, vm) == Stack(vm, 1, Append(vm.dstack, Raw(NumBytes(Size(Last(vm.dstack))))))
opcodeEqual(op, vm) ==
  Stack(vm, 2, Append(DropN(vm.dstack, 2),
                      fromBool(PeekByteArray(vm.dstack, 0) = PeekByteArray(vm.dstack, 1))))
opcodeEqualVerify(op, vm) == abstractVerify(op, opcodeEqual(op, vm), "ErrEqualVerify")

opcode1Add(op, vm) == NumOp(vm, 1, LAMBDA v : v[1] + 1)
opcode1Sub(op, vm) == NumOp(vm, 1, LAMBDA v : v[1] - 1)
opcodeNegate(op, vm) == NumOp(vm, 1, LAMBDA v : -v[1])
opcodeAbs(op, vm) == NumOp(vm, 1, LAMBDA v : IF v[1] < 0 THEN -v[1] ELSE v[1])
opcodeNot(op, vm) == NumOp(vm, 1, LAMBDA v : Bit(v[1] = 0))
opcode0NotEqual(op, vm) == NumOp(vm, 1, LAMBDA v : Bit(v[1] # 0))
opcodeAdd(op, vm) == NumOp(vm, 2, LAMBDA v : v[1] + v[2])
opcodeSub(op, vm) == NumOp(vm, 2, LAMBDA v : v[2] - v[1])
opcodeBoolAnd(op, vm) == NumOp(vm, 2, LAMBDA v : Bit(v[1] # 0 /\ v[2] # 0))
opcodeBoolOr(op, vm) == NumOp(vm, 2, LAMBDA v : Bit(v[1] # 0 \/ v[2] # 0))
opcodeNumEqual(op, vm) == NumOp(vm, 2, LAMBDA v : Bit(v[1] = v[2]))
opcodeNumEqualVerify(op, vm) == abstractVerify(op, opcodeNumEqual(op, vm), "ErrNumEqualVerify")
opcodeNumNotEqual(op, vm) == NumOp(vm, 2, LAMBDA v : Bit(v[1] # v[2]))
opcodeLessThan(op, vm) == NumOp(vm, 2, LAMBDA v : Bit(v[2] < v[1]))
opcodeGreaterThan(op, vm) == NumOp(vm, 2, LAMBDA v : Bit(v[2] > v[1]))
opcodeLessThanOrEqual(op, vm) == NumOp(vm, 2, LAMBDA v : Bit(v[2] <= v[1]))
opcodeGreaterThanOrEqual(op, vm) == NumOp(vm, 2, LAMBDA v : Bit(v[2] >= v[1]))
opcodeMin(op, vm) == NumOp(vm, 2, LAMBDA v : IF v[2] < v[1] THEN v[2] ELSE v[1])
opcodeMax(op, vm) == NumOp(vm, 2, LAMBDA v : IF v[2] > v[1] THEN v[2] ELSE v[1])
opcodeWithin(op, vm) == NumOp(vm, 3, LAMBDA v : Bit(v[3] >= v[2] /\ v[3] < v[1]))

Hashed(vm, Hash(_)) == Stack(vm, 1, Append(Front(vm.dstack), Hash(Last(vm.dstack))))

opcodeRipemd160(op, vm) == Hashed(vm, Ripemd160)
opcodeSha1(op, vm) == Hashed(vm, Sha1)
opcodeSha256(op, vm) == Hashed(vm, Sha256)
opcodeHash160(op, vm) == Hashed(vm, Hash160)
opcodeHash256(op, vm) == Hashed(vm, LAMBDA d : Sha256(Sha256(d)))
=============================================================================

---------------------------- MODULE ScriptChecks ----------------------------
(***************************************************************************)
(* What is checked of the scripts of package txscript one input at a time: *)
(* encodings and standard forms, and the opcodes against what they are     *)
(* documented to do.                                                       *)
(***************************************************************************)
EXTENDS ScriptEngine, Inputs

Unsigned == [Version |-> 2, LockTime |-> 0, TxOut |-> <<>>,
             TxIn |-> <<[PreviousOutPoint |-> "a", SignatureScript |-> <<>>,
                         Witness |-> <<>>, Sequence |-> 0]>>]

\* The engine after it has run script on a stack.  No script follows.
RunOn(stack, script, flags) ==
  Execute([NewEngine(script, Unsigned, 1, flags, {}, NewTxSigHashes(Unsigned), 0)
             EXCEPT !.dstack = stack])

Built(b) == ~b.err

\* The pushes that the builder makes of an input, and the element of each.
PushesOf ==
  CASE input.kind = "number" ->
         {<<AddInt64(NewScriptBuilder, input.n).script[1], Raw(NumBytes(input.n))>>}
    [] input.kind = "push" /\ Len(input.bytes) > MaxScriptElementSize ->
         {<<AddFullData(NewScriptBuilder, Raw(input.bytes)).script[1], Raw(input.bytes)>>}
    [] input.kind = "push" /\ Len(input.bytes) <= MaxScriptElementSize ->
         {<<AddData(NewScriptBuilder, Raw(input.bytes)).script[1],
            Raw(IF input.bytes = <<0>> THEN <<>> ELSE input.bytes)>>}
    [] OTHER -> {}

\* One opcode, in the middle of a script, on an empty stack.
Leaves(pop, d) ==
  opfunc(pop, NewEngine(<<Op("NOP")>>, Unsigned, 1, {}, {}, NewTxSigHashes(Unsigned), 0)).dstack = <<d>>

\* No proper part of a script's bytes parses to something else than a part of
\* the script.
ParsesBack(pops) ==
  \E script \in {unparseScript(pops)} :
    /\ parseScriptTemplate(script) = [pops |-> pops, err |-> FALSE]
    /\ \A n \in 0..Len(script) :
         IsPrefix(parseScriptTemplate(SubSeq(script, 1, n)).pops, pops)

\* The contract ExtractAtomicSwapDataPushes recognises, with its terms.
AtomicSwap(swap) ==
  LET Number(n) == AddInt64(NewScriptBuilder, n).script[1]
      Term(i) == Cardinality({j \in 1..i : SwapForm[j] = "-"})
      Contract(terms) ==
        [i \in DOMAIN SwapForm |-> IF SwapForm[i] = "-" THEN terms[Term(i)] ELSE Op(SwapForm[i])]
  IN  Contract(<<Number(swap.SecretSize), PushOf(swap.SecretHash), PushOf(swap.RecipientHash160),
                 Number(swap.LockTime), PushOf(swap.RefundHash160)>>)

\* What comes back of carried data.
Extracted(data) ==
  CASE data \in {<<>>, <<0>>} -> <<NoData>>
    [] data \in {<<b>> : b \in 1..16 \cup {129}} -> <<>>
    [] OTHER -> <<Raw(data)>>

(***************************************************************************)
(* Scripts carry what was put into them.  A number comes back from its     *)
(* bytes, and of the byte strings with its value exactly those bytes pass  *)
(* as minimal; what AddData and AddInt64 append parses back, passes the    *)
(* engine's rules for minimal and canonical pushes and leaves the element  *)
(* on the stack (a single zero byte becomes the empty element); and from   *)
(* the script made for an address, a set of keys, carried data or an       *)
(* atomic swap the same address, keys, data and terms are extracted.  The  *)
(* exceptions are data of one byte that has an opcode of its own: of 1 to  *)
(* 16 and 0x81 PushedData extracts nothing, and 0x81 makes a script that   *)
(* is no longer of the type of carried data; a zero byte is extracted as   *)
(* no bytes.                                                               *)
(***************************************************************************)
ScriptsCarryData ==
  /\ \A push \in PushesOf : Leaves(push[1], push[2])
  /\ input.kind = "number" =>
       \E d \in {Raw(NumBytes(input.n))}, added \in {AddInt64(NewScriptBuilder, input.n)} :
         /\ makeScriptNum(d) = input.n
         /\ checkMinimalDataEncoding(d[2])
         /\ Built(added) /\ ParsesBack(added.script)
  /\ input.kind = "element" =>
       (NumError(Raw(input.bytes), TRUE, 2) = "")
         <=> (Len(input.bytes) <= 2 /\ NumBytes(makeScriptNum(Raw(input.bytes))) = input.bytes)
  /\ input.kind = "push" =>
       \E added \in {AddData(NewScriptBuilder, Raw(input.bytes))} :
         /\ Built(added) = (Len(input.bytes) <= MaxScriptElementSize)
         /\ Built(added) => \E pop \in {added.script[1]} :
              /\ Len(added.script) = 1
              /\ pop.value <= OP_PUSHDATA4 => checkMinimalDataPush(pop)
              /\ canonicalPush(pop)
              /\ {OpSize(pop)} = {canonicalDataSize(Raw(input.bytes)), Len(bytes(pop))}
              /\ Len(input.bytes) < 300 => ParsesBack(<<Op("DUP"), pop, Op("EQUAL")>>)
  /\ input.kind = "address" =>
       \E script \in {PayToAddrScript(input.address)} :
         /\ ExtractPkScriptAddrs(script) = <<input.address>>
         /\ RequiredSigs(script) = 1
         /\ ~IsUnspendable(Script(script))
  /\ input.kind = "multisig" =>
       \E made \in {MultiSigScript(input.keys, input.m)} :
         /\ Built(made) = (input.m <= Len(input.keys))
         /\ Built(made) =>
              /\ typeOfScript(made.script) = "MultiSigTy"
              /\ CalcMultiSigStats(made.script) = <<input.m, Len(input.keys)>>
              /\ ExtractPkScriptAddrs(made.script)
                   = [i \in DOMAIN input.keys |-> <<"pk", input.keys[i]>>]
              /\ getSigOpCount(made.script, TRUE) = Len(input.keys)
              /\ GetSigOpCount(Script(made.script)) = MaxPubKeysPerMultiSig
              /\ GetPreciseSigOpCount(<<Plain(OP_0), PushOf(Script(made.script))>>,
                                      PayToAddrScript(<<"sh", Hash160(Script(made.script))>>))
                   = Len(input.keys)
  /\ input.kind = "nulldata" =>
       \E made \in {NullDataScript(Raw(input.bytes))} :
         /\ Built(made) = (Len(input.bytes) <= MaxDataCarrierSize)
         /\ Built(made) =>
              /\ (typeOfScript(made.script) = "NullDataTy") = (input.bytes # <<129>>)
              /\ IsUnspendable(Script(made.script))
              /\ PushedData(made.script) = Extracted(input.bytes)
              /\ RequiredSigs(made.script) = 0 /\ ExtractPkScriptAddrs(made.script) = <<>>
  /\ input.kind = "swap" =>
       ExtractAtomicSwapDataPushes(AtomicSwap(input.swap)) = input.swap

-----------------------------------------------------------------------------
(* Conditionals, as blocks.                                                *)

Depth(script, i) ==
  FoldLeft(LAMBDA n, pop : CASE pop.value \in {OP.IF, OP.NOTIF} -> n + 1
                             [] pop.value = OP.ENDIF -> n - 1
                             [] OTHER -> n,
           0, SubSeq(script, 1, i))

Balanced(script) ==
  /\ Depth(script, Len(script)) = 0
  /\ \A i \in DOMAIN script :
       Depth(script, i) >= 0 /\ (script[i].value = OP.ELSE => Depth(script, i) > 0)

\* The end of the block that opens at i.
BlockEnd(script, i) ==
  CHOOSE j \in (i + 1)..Len(script) :
    /\ Depth(script, j) = Depth(script, i) - 1
    /\ \A k \in i..(j - 1) : Depth(script, k) >= Depth(script, i)

\* The opcodes of the block from i to j that its condition selects: those
\* after an even number of the block's own OP_ELSEs, or after an odd one.
Selected(script, i, j, condition) ==
  LET Elses(k) == {e \in (i + 1)..k : script[e].value = OP.ELSE /\ Depth(script, e) = Depth(script, i)}
      chosen == {k \in (i + 1)..(j - 1) :
                   /\ k \notin Elses(k)
                   /\ (Cardinality(Elses(k)) % 2 = 0) = condition}
  IN  [n \in 1..Cardinality(chosen) |->
         script[CHOOSE k \in chosen : Cardinality({l \in chosen : l <= k}) = n]]

\* The stack a balanced script of pushes and conditionals ends with, or {}.
RECURSIVE Evaluated(_, _)
Evaluated(script, stack) ==
  IF script = <<>> THEN {stack}
  ELSE IF script[1].value \notin {OP.IF, OP.NOTIF}
  THEN Evaluated(Tail(script), Append(stack, Raw(NumBytes(asSmallInt(script[1])))))
  ELSE IF stack = <<>> THEN {}
  ELSE LET end == BlockEnd(script, 1)
           condition == asBool(Last(stack)) = (script[1].value = OP.IF)
       IN  Evaluated(Selected(script, 1, end, condition) \o SubSeq(script, end + 1, Len(script)),
                     Front(stack))

True(stack) == stack # <<>> /\ asBool(Last(stack))

\* The stack transformations of opcode.go's comments: how many elements the
\* opcode needs, and which of them, counted from the deepest, it leaves.
StackEffects == <<
  <<"2DROP", 2, <<>>>>, <<"2DUP", 2, <<1, 2, 1, 2>>>>, <<"3DUP", 3, <<1, 2, 3, 1, 2, 3>>>>,
  <<"2OVER", 4, <<1, 2, 3, 4, 1, 2>>>>, <<"2ROT", 6, <<3, 4, 5, 6, 1, 2>>>>,
  <<"2SWAP", 4, <<3, 4, 1, 2>>>>, <<"DROP", 1, <<>>>>, <<"DUP", 1, <<1, 1>>>>,
  <<"NIP", 2, <<2>>>>, <<"OVER", 2, <<1, 2, 1>>>>, <<"ROT", 3, <<2, 3, 1>>>>,
  <<"SWAP", 2, <<2, 1>>>>, <<"TUCK", 2, <<2, 1, 2>>>>>>

Elements(n) == [i \in 1..n |-> Raw(<<i>>)]

\* Scripts that leave true for all numbers a, b and c.
Laws == {
  <<"a", "b", "SUB", "b", "ADD", "a", "NUMEQUAL">>,
  <<"a", "b", "MIN", "a", "b", "MAX", "ADD", "a", "b", "ADD", "NUMEQUAL">>,
  <<"a", "b", "LESSTHAN", "b", "a", "GREATERTHAN", "NUMEQUAL">>,
  <<"a", "b", "LESSTHANOREQUAL", "NOT", "a", "b", "GREATERTHAN", "NUMEQUAL">>,
  <<"a", "b", "GREATERTHANOREQUAL", "a", "b", "LESSTHAN", "NUMNOTEQUAL">>,
  <<"a", "b", "c", "WITHIN", "a", "b", "GREATERTHANOREQUAL", "a", "c", "LESSTHAN", "BOOLAND", "NUMEQUAL">>,
  <<"a", "NEGATE", "ABS", "a", "ABS", "NUMEQUALVERIFY", "a", "1ADD", "1SUB", "a", "EQUAL">>,
  <<"a", "b", "BOOLOR", "NOT", "a", "NOT", "b", "NOT", "BOOLAND", "NUMEQUAL">>,
  <<"a", "0NOTEQUAL", "a", "NOT", "NUMNOTEQUAL">>,
  <<"a", "b", "EQUAL", "a", "b", "NUMEQUAL", "NUMEQUAL">>,
  <<"a", "b", "one", "PICK", "a", "EQUALVERIFY", "one", "ROLL", "a", "EQUALVERIFY", "TOALTSTACK", "c",
    "FROMALTSTACK", "b", "EQUALVERIFY", "DEPTH", "one", "NUMEQUALVERIFY", "SIZE", "NIP", "c", "SIZE",
    "NIP", "EQUAL">>}

Assemble(law, numbers) ==
  [i \in DOMAIN law |-> IF law[i] \in DOMAIN numbers
                        THEN AddInt64(NewScriptBuilder, numbers[law[i]]).script[1]
                        ELSE Op(law[i])]

\* What is run for an input: a script, on a stack.  After a stack opcode comes
\* the true that a script must leave.
Programs ==
  CASE input.kind = "conditional" ->
         {[stack |-> input.stack, script |-> input.script, flags |-> {}]}
    [] input.kind = "stack" ->
         {[stack |-> Elements(input.depth), script |-> <<Op(StackEffects[i][1]), Plain(OP_1)>>,
           flags |-> {}, needs |-> StackEffects[i][2], leaves |-> StackEffects[i][3]] :
            i \in DOMAIN StackEffects}
    [] input.kind = "law" ->
         {[stack |-> <<>>, script |-> Assemble(law, input.numbers), flags |-> {"MinimalData"}] :
            law \in Laws}
    [] OTHER -> {}

FollowsBlocks(program, vm) ==
  \E ends \in {IF Balanced(program.script) THEN Evaluated(program.script, program.stack) ELSE {}} :
    IF \E s \in ends : True(s) THEN vm.err = "" /\ \A s \in ends : vm.dstack = Front(s)
    ELSE vm.err # ""

MovesElements(program, vm) ==
  \E rest \in {Len(program.stack) - program.needs} :
    IF rest < 0 THEN vm.err = "ErrInvalidStackOperation"
    ELSE /\ vm.err = ""
         /\ vm.dstack = SubSeq(program.stack, 1, rest)
                        \o [j \in DOMAIN program.leaves |-> program.stack[rest + program.leaves[j]]]

(***************************************************************************)
(* The engine does what the opcodes are documented to do.  A script of     *)
(* nested conditionals executes exactly the branches its conditions select *)
(* (opcodeIf, opcodeNotIf, opcodeElse, opcodeEndif and the conditional     *)
(* stack, against blocks), and fails exactly if it is unbalanced or a      *)
(* condition is missing; the stack opcodes move the elements their         *)
(* comments name and fail on a shorter stack; the numeric opcodes agree    *)
(* with each other on all numbers, unless a result is too long to be used  *)
(* again, and leave minimal encodings.                                     *)
(***************************************************************************)
OpcodesDoAsDocumented ==
  \A program \in Programs :
    \E vm \in {RunOn(program.stack, program.script, program.flags)} :
      /\ input.kind = "conditional" => FollowsBlocks(program, vm)
      /\ input.kind = "stack" => MovesElements(program, vm)
      /\ input.kind = "law" => vm.err \in {"", "ErrNumberTooBig"}

-----------------------------------------------------------------------------
(***************************************************************************)
(* Inputs: numbers and elements around every boundary of                   *)
(* their encodings, every standard form, and every short script of         *)
(* conditionals.                                                           *)
(***************************************************************************)

Numbers == (-20)..20 \union UNION {{-n - 1, -n, -n + 1, n - 1, n, n + 1} : n \in {127, 255, 32767, 65535}}

NumberInputs ==
  {[kind |-> "number", n |-> n] : n \in Numbers}
  \union {[kind |-> "element", bytes |-> b] :
            b \in UNION {[1..n -> {0, 1, 127, 128, 129, 255}] : n \in 0..3}}

PushInputs ==
  {[kind |-> "push", bytes |-> [i \in 1..n |-> b]] :
     n \in {0, 1, 2, 74, 75, 76, 77, 254, 255, 256, 257, MaxScriptElementSize, MaxScriptElementSize + 1},
     b \in {0, 1, 16, 17, 76, 128, 129, 255}}

AddressInputs ==
  {[kind |-> "address", address |-> a] :
     a \in UNION {{<<"pk", k>>, <<"pkh", Hash160(k)>>, <<"wpkh", Hash160(k)>>,
                   <<"sh", Hash160(Script(<<PushOf(k), Op("CHECKSIG")>>))>>,
                   <<"wsh", Sha256(Script(<<PushOf(k), Op("CHECKSIG")>>))>>} :
                    k \in {Key(i, c) : i \in 1..2, c \in BOOLEAN}}}
  \union {[kind |-> "multisig", keys |-> [i \in 1..n |-> Key(i, i % 2 = 0)], m |-> m] :
            n \in 1..16, m \in 1..17}
  \union {[kind |-> "nulldata", bytes |-> [i \in 1..n |-> 7]] :
            n \in {0, 1, 2, 75, 76, MaxDataCarrierSize, MaxDataCarrierSize + 1}}
  \union {[kind |-> "nulldata", bytes |-> <<b>>] : b \in {0, 1, 16, 17, 128, 129, 130}}
  \union {[kind |-> "swap",
           swap |-> [RecipientHash160 |-> Hash160(Key(1, TRUE)), RefundHash160 |-> Hash160(Key(2, TRUE)),
                     SecretHash |-> Sha256(Raw(<<7>>)), SecretSize |-> n, LockTime |-> t]] :
            n \in {1, 16, 17, 32}, t \in {0, 1, 16, 17, 127, 128, 32768, 8388608}}

Tokens == {Op("IF"), Op("NOTIF"), Op("ELSE"), Op("ENDIF"), Plain(OP_0), Plain(OP_1)}

\* Of the longer scripts those that are one conditional.
ConditionalInputs ==
  {[kind |-> "conditional", stack |-> t, script |-> s] :
     t \in {<<>>, <<Raw(<<1>>)>>, <<Raw(<<1>>), Raw(<<0>>), Raw(<<1>>)>>,
            <<Raw(<<0>>), Raw(<<1>>), Raw(<<128>>)>>},
     s \in UNION {[1..n -> Tokens] : n \in 1..3}
           \union {<<Op("IF")>> \o s \o <<Op("ENDIF"), Plain(OP_1)>> : s \in [1..4 -> Tokens]}}

StackInputs == {[kind |-> "stack", depth |-> n] : n \in 0..8}

LawInputs ==
  {[kind |-> "law", numbers |-> [a |-> a, b |-> b, c |-> c, one |-> 1]] :
     a, b, c \in {-32767, -256, -128, -1, 0, 1, 16, 127, 128, 32767}}
=============================================================================

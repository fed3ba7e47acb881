--------------------------- MODULE ScriptStandard ---------------------------
(***************************************************************************)
(* The standard forms of a public key script: recognising them, building   *)
(* them, the addresses in them and the inputs they expect (standard.go of  *)
(* package txscript).  An address is a pair: its kind and the key or hash. *)
(***************************************************************************)
EXTENDS ScriptCode

CONSTANT MaxDataCarrierSize   \* 80 in the code

StandardVerifyFlags == {
  "Bip16", "DERSignatures", "StrictEncoding", "MinimalData", "StrictMultiSig",
  "DiscourageUpgradableNops", "CleanStack", "NullFail", "CheckLockTimeVerify",
  "CheckSequenceVerify", "LowS", "Witness",
  "DiscourageUpgradeableWitnessProgram", "MinimalIf", "WitnessPubKeyType"}

KeySized(pop) == Size(pop.data) \in {33, 65}

isPubkey(pops) == Len(pops) = 2 /\ KeySized(pops[1]) /\ pops[2].value = OP.CHECKSIG

isPubkeyHash(pops) ==
  Values(pops) = <<OP.DUP, OP.HASH160, 20, OP.EQUALVERIFY, OP.CHECKSIG>>

isMultiSig(pops) ==
  LET l == Len(pops)
  IN  /\ l >= 4
      /\ isSmallInt(pops[1])
      /\ isSmallInt(pops[l - 1])
      /\ pops[l].value = OP.CHECKMULTISIG
      /\ l - 3 = asSmallInt(pops[l - 1])
      /\ \A i \in 2..(l - 2) : KeySized(pops[i])

isNullData(pops) ==
  /\ Len(pops) \in 1..2
  /\ pops[1].value = OP.RETURN
  /\ Len(pops) = 2 => /\ isSmallInt(pops[2]) \/ pops[2].value <= OP_PUSHDATA4
                      /\ Size(pops[2].data) <= MaxDataCarrierSize

typeOfScript(pops) ==
  IF isPubkey(pops) THEN "PubKeyTy"
  ELSE IF isPubkeyHash(pops) THEN "PubKeyHashTy"
  ELSE IF isWitnessPubKeyHash(pops) THEN "WitnessV0PubKeyHashTy"
  ELSE IF isScriptHash(pops) THEN "ScriptHashTy"
  ELSE IF isWitnessScriptHash(pops) THEN "WitnessV0ScriptHashTy"
  ELSE IF isMultiSig(pops) THEN "MultiSigTy"
  ELSE IF isNullData(pops) THEN "NullDataTy"
  ELSE "NonStandardTy"

expectedInputs(pops) ==
  LET class == typeOfScript(pops)
  IN  CASE class \in {"PubKeyTy", "ScriptHashTy", "WitnessV0ScriptHashTy"} -> 1
        [] class \in {"PubKeyHashTy", "WitnessV0PubKeyHashTy"} -> 2
        [] class = "MultiSigTy" -> asSmallInt(pops[1]) + 1
        [] OTHER -> -1

PlusInputs(n, pops) == IF expectedInputs(pops) = -1 THEN -1 ELSE n + expectedInputs(pops)

\* The empty signature script of a script hash makes the code index out of
\* range; it is an error here.
CalcScriptInfo(sigPops, pkPops, witness, segwit) ==
  LET Info(e, s, n) == [err |-> FALSE, ExpectedInputs |-> e, SigOps |-> s, NumInputs |-> n]
      InfoOf(class, expected, witnessOps) ==
        CASE ~isPushOnly(sigPops) \/ (class = "ScriptHashTy" /\ sigPops = <<>>) ->
               [err |-> TRUE]
          [] class = "ScriptHashTy" /\ sigPops # <<>> /\ ~segwit ->
               LET sh == parseScript(Last(sigPops).data)
               IN  IF sh.err THEN [err |-> TRUE]
                   ELSE Info(PlusInputs(expected, sh.pops), getSigOpCount(sh.pops, TRUE),
                             Len(sigPops))
          [] class = "WitnessV0PubKeyHashTy" /\ segwit ->
               Info(expected, witnessOps, Len(witness))
          [] /\ class = "ScriptHashTy" /\ sigPops # <<>> /\ segwit
             /\ IsWitnessProgram(AfterFirstByte(sigPops)) ->
               Info(PlusInputs(expected, parseScript(AfterFirstByte(sigPops)).pops),
                    witnessOps, Len(witness) + Len(sigPops))
          [] class = "WitnessV0ScriptHashTy" /\ segwit ->
               Info(PlusInputs(expected, parseScript(Last(witness)).pops),
                    witnessOps, Len(witness))
          [] OTHER -> Info(expected, getSigOpCount(pkPops, TRUE), Len(sigPops))
  IN  InfoOf(typeOfScript(pkPops), expectedInputs(pkPops),
             GetWitnessSigOpCount(sigPops, pkPops, witness))

\* Keys needed and keys listed.
CalcMultiSigStats(pops) == <<asSmallInt(pops[1]), asSmallInt(pops[Len(pops) - 1])>>

payToPubKeyHashScript(pubKeyHash) ==
  AddOp(AddOp(AddData(AddOp(AddOp(NewScriptBuilder, "DUP"), "HASH160"), pubKeyHash),
              "EQUALVERIFY"), "CHECKSIG").script

payToWitnessScript(hash) ==
  AddData(AddOps(NewScriptBuilder, <<Plain(OP_0)>>), hash).script

payToScriptHashScript(scriptHash) ==
  AddOp(AddData(AddOp(NewScriptBuilder, "HASH160"), scriptHash), "EQUAL").script

payToPubKeyScript(pubKey) == AddOp(AddData(NewScriptBuilder, pubKey), "CHECKSIG").script

PayToAddrScript(address) ==
  CASE address[1] = "pkh" -> payToPubKeyHashScript(address[2])
    [] address[1] = "sh" -> payToScriptHashScript(address[2])
    [] address[1] = "pk" -> payToPubKeyScript(address[2])
    [] address[1] \in {"wpkh", "wsh"} -> payToWitnessScript(address[2])

NullDataScript(data) ==
  IF Size(data) > MaxDataCarrierSize THEN [script |-> <<>>, err |-> TRUE]
  ELSE AddData(AddOp(NewScriptBuilder, "RETURN"), data)

MultiSigScript(pubkeys, nrequired) ==
  IF Len(pubkeys) < nrequired THEN [script |-> <<>>, err |-> TRUE]
  ELSE AddOp(AddInt64(AddAll(AddInt64(NewScriptBuilder, nrequired), pubkeys),
                      Len(pubkeys)), "CHECKMULTISIG")

\* Pushed data, OP_0 included, OP_1 to OP_16 not.
PushedData(pops) ==
  LET pushes == SelectSeq(pops, LAMBDA pop : pop.data # NoData \/ pop.value = OP_0)
  IN  [i \in DOMAIN pushes |-> pushes[i].data]

IsPubKey(d) == d[1] = "key"

\* Keys that do not parse are left out.
ExtractPkScriptAddrs(pops) ==
  LET keys == SelectSeq(SubSeq(pops, 2, Len(pops) - 2), LAMBDA pop : IsPubKey(pop.data))
      AddrsOf(class) ==
        CASE class = "PubKeyHashTy" -> <<<<"pkh", pops[3].data>>>>
          [] class = "WitnessV0PubKeyHashTy" -> <<<<"wpkh", pops[2].data>>>>
          [] class = "PubKeyTy" ->
               IF IsPubKey(pops[1].data) THEN <<<<"pk", pops[1].data>>>> ELSE <<>>
          [] class = "ScriptHashTy" -> <<<<"sh", pops[2].data>>>>
          [] class = "WitnessV0ScriptHashTy" -> <<<<"wsh", pops[2].data>>>>
          [] class = "MultiSigTy" -> [i \in DOMAIN keys |-> <<"pk", keys[i].data>>]
          [] OTHER -> <<>>
  IN  AddrsOf(typeOfScript(pops))

RequiredSigs(pops) ==
  CASE typeOfScript(pops) = "MultiSigTy" -> asSmallInt(pops[1])
    [] typeOfScript(pops) \in {"NullDataTy", "NonStandardTy"} -> 0
    [] OTHER -> 1

SwapForm == <<"IF", "SIZE", "-", "EQUALVERIFY", "SHA256", "-", "EQUALVERIFY", "DUP",
              "HASH160", "-", "ELSE", "-", "CHECKLOCKTIMEVERIFY", "DROP", "DUP",
              "HASH160", "-", "ENDIF", "EQUALVERIFY", "CHECKSIG">>

IsNumber(pop) ==
  IF pop.data # NoData THEN NumError(pop.data, TRUE, 5) = "" ELSE isSmallInt(pop)

NumberOf(pop) == IF pop.data # NoData THEN makeScriptNum(pop.data) ELSE asSmallInt(pop)

NoSwap == [SecretHash |-> NoData]

ExtractAtomicSwapDataPushes(pops) ==
  IF /\ Len(pops) = 20
     /\ \A i \in 1..20 : SwapForm[i] # "-" => pops[i].value = OP[SwapForm[i]]
     /\ canonicalPush(pops[3]) /\ canonicalPush(pops[12])
     /\ pops[6].value = 32 /\ pops[10].value = 20 /\ pops[17].value = 20
     /\ IsNumber(pops[3]) /\ IsNumber(pops[12])
  THEN [RecipientHash160 |-> pops[10].data, RefundHash160 |-> pops[17].data,
        SecretHash |-> pops[6].data, SecretSize |-> NumberOf(pops[3]),
        LockTime |-> NumberOf(pops[12])]
  ELSE NoSwap
=============================================================================

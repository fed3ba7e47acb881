----------------------------- MODULE ScriptSign -----------------------------
(***************************************************************************)
(* Signing inputs (sign.go of package txscript).  A signer's key database  *)
(* kdb is a set of public keys whose private keys it holds, its script     *)
(* database sdb a set of redeem scripts.                                   *)
(***************************************************************************)
EXTENDS ScriptSighash

RawTxInSignature(tx, idx, subScript, hashType, key) ==
  Sign(key[2], calcSignatureHash(subScript, hashType, tx, idx), hashType)

RawTxInWitnessSignature(tx, sigHashes, idx, amt, subScript, hashType, key) ==
  Sign(key[2], calcWitnessSignatureHash(subScript, sigHashes, hashType, tx, idx, amt), hashType)

WitnessSignature(tx, sigHashes, idx, amt, subscript, hashType, key) ==
  <<RawTxInWitnessSignature(tx, sigHashes, idx, amt, subscript, hashType, key), key>>

SignatureScript(tx, idx, subscript, hashType, key) ==
  AddAll(NewScriptBuilder, <<RawTxInSignature(tx, idx, subscript, hashType, key), key>>).script

p2pkSignatureScript(tx, idx, subScript, hashType, key) ==
  AddData(NewScriptBuilder, RawTxInSignature(tx, idx, subScript, hashType, key)).script

Owned(kdb, addr) ==
  {key \in kdb : addr = <<"pk", key>> \/ addr = <<"pkh", Hash160(key)>>}

GetKey(kdb, addr) == CHOOSE key \in Owned(kdb, addr) : TRUE

Scripts(sdb, addr) == {script \in sdb : addr = <<"sh", Hash160(Script(script))>>}

FirstN(s, n) == SubSeq(s, 1, IF n < Len(s) THEN n ELSE Len(s))

signMultiSig(tx, idx, subScript, hashType, addresses, nRequired, kdb) ==
  LET held == SelectSeq(addresses, LAMBDA addr : Owned(kdb, addr) # {})
      signing == FirstN(held, nRequired)
      sigs == [i \in DOMAIN signing |->
                 RawTxInSignature(tx, idx, subScript, hashType, GetKey(kdb, signing[i]))]
  IN  AddAll(AddOps(NewScriptBuilder, <<Plain(OP_0)>>), sigs).script

CannotSign == [err |-> TRUE, script |-> <<>>]
Signed(script) == [err |-> FALSE, script |-> script]

sign(tx, idx, subScript, hashType, kdb, sdb) ==
  LET SignAs(class, addresses) ==
        LET addr == addresses[1]
        IN  CASE class = "PubKeyTy" ->
                   IF Owned(kdb, addr) = {} THEN CannotSign
                   ELSE Signed(p2pkSignatureScript(tx, idx, subScript, hashType, GetKey(kdb, addr)))
              [] class = "PubKeyHashTy" ->
                   IF Owned(kdb, addr) = {} THEN CannotSign
                   ELSE Signed(SignatureScript(tx, idx, subScript, hashType, GetKey(kdb, addr)))
              [] class = "ScriptHashTy" ->
                   IF Scripts(sdb, addr) = {} THEN CannotSign
                   ELSE Signed(CHOOSE script \in Scripts(sdb, addr) : TRUE)
              [] class = "MultiSigTy" ->
                   Signed(signMultiSig(tx, idx, subScript, hashType, addresses,
                                       RequiredSigs(subScript), kdb))
              [] OTHER -> CannotSign
  IN  SignAs(typeOfScript(subScript), ExtractPkScriptAddrs(subScript))

\* Bug: merged signatures keep the order in which they arrived.
mergeMultiSigAsFound(tx, idx, addresses, nRequired, pkScript, sigScript, prevScript) ==
  LET data(pops) == SelectSeq([i \in DOMAIN pops |-> pops[i].data], IsSignature)
      found == FirstN(data(prevScript) \o data(sigScript), nRequired)
  IN  AddAll(AddOps(NewScriptBuilder, <<Plain(OP_0)>>), found).script

mergeMultiSig(tx, idx, addresses, nRequired, pkScript, sigScript, prevScript) ==
  LET data(pops) == [i \in DOMAIN pops |-> pops[i].data]
      possibleSigs == SelectSeq(data(sigScript) \o data(prevScript), IsSignature)
      signer(sig) == SelectInSeq(addresses, LAMBDA addr :
                       Verify(sig, calcSignatureHash(pkScript, HashType(sig), tx, idx), addr[2]))
      Signs(sig, addr) == signer(sig) # 0 /\ addresses[signer(sig)] = addr
      found == SelectSeq(addresses, LAMBDA addr :
                           \E i \in DOMAIN possibleSigs : Signs(possibleSigs[i], addr))
      first(addr) == SelectInSeq(possibleSigs, LAMBDA sig : Signs(sig, addr))
      used == FirstN(found, nRequired)
      builder == AddAll(AddOps(NewScriptBuilder, <<Plain(OP_0)>>),
                        [i \in DOMAIN used |-> possibleSigs[first(used[i])]])
      padding == [i \in 1..(nRequired - Len(used)) |-> Plain(OP_0)]
  IN  CASE sigScript = <<>> -> prevScript
        [] sigScript # <<>> /\ prevScript = <<>> -> sigScript
        [] OTHER -> AddOps(builder, padding).script

\* The longest, for what is neither a script hash nor a multiple signature.
Longest(sigScript, prevScript) ==
  IF ScriptSize(sigScript) > ScriptSize(prevScript) THEN sigScript ELSE prevScript

\* The redeem script inside a script hash is merged by its own class, and
\* may be a script hash again.
RECURSIVE mergeScripts(_, _, _, _, _)
mergeScripts(tx, idx, pkScript, sigScript, prevScript) ==
  LET class == typeOfScript(pkScript)
      redeem == Last(sigScript).data
      merged == mergeScripts(tx, idx, parseScript(redeem).pops, sigScript, prevScript)
  IN  CASE class = "ScriptHashTy" ->
             IF sigScript = <<>> THEN prevScript
             ELSE IF prevScript = <<>> THEN sigScript
             ELSE AddData(AddOps(NewScriptBuilder, merged), redeem).script
        [] class = "MultiSigTy" ->
             mergeMultiSig(tx, idx, ExtractPkScriptAddrs(pkScript), RequiredSigs(pkScript),
                           pkScript, sigScript, prevScript)
        [] OTHER -> Longest(sigScript, prevScript)

\* A builder whose push fails keeps the script it had.
SignTxOutput(tx, idx, pkScript, hashType, kdb, sdb, previousScript) ==
  LET Merged(sigScript) == Signed(mergeScripts(tx, idx, pkScript, sigScript, previousScript))
      Redeeming(redeem, real) ==
        IF real.err THEN CannotSign
        ELSE Merged(AddData(AddOps(NewScriptBuilder, real.script), Script(redeem)).script)
      Complete(signed) ==
        IF signed.err THEN CannotSign
        ELSE IF typeOfScript(pkScript) = "ScriptHashTy"
        THEN Redeeming(signed.script, sign(tx, idx, signed.script, hashType, kdb, sdb))
        ELSE Merged(signed.script)
  IN  Complete(sign(tx, idx, pkScript, hashType, kdb, sdb))
=============================================================================

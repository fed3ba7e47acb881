---------------------------- MODULE ScriptSighash ----------------------------
(***************************************************************************)
(* What a signature signs: calcSignatureHash and, for witness programs,    *)
(* calcWitnessSignatureHash (script.go of package txscript).  A digest is  *)
(* the tuple of what the code hashes; a hash type is its byte.             *)
(***************************************************************************)
EXTENDS ScriptStandard

SigHashAll == 1
SigHashNone == 2
SigHashSingle == 3
SigHashAnyOneCanPay == 128

Base(hashType) == hashType % 32            \* & sigHashMask
AnyOneCanPay(hashType) == hashType >= SigHashAnyOneCanPay

Zero == <<"zero">>
One == <<"one">>                           \* the hash 1, of SigHashSingle's bug

calcHashPrevOuts(tx) == <<"prevouts", [i \in DOMAIN tx.TxIn |-> tx.TxIn[i].PreviousOutPoint]>>
calcHashSequence(tx) == <<"sequences", [i \in DOMAIN tx.TxIn |-> tx.TxIn[i].Sequence]>>
calcHashOutputs(tx) == <<"outputs", tx.TxOut>>

\* The fragments of a transaction that all its inputs share.
NewTxSigHashes(tx) ==
  [HashPrevOuts |-> calcHashPrevOuts(tx), HashSequence |-> calcHashSequence(tx),
   HashOutputs |-> calcHashOutputs(tx)]

\* Inputs and outputs count from 1.
calcWitnessSignatureHash(subScript, sigHashes, hashType, tx, idx, amt) ==
  <<"witness", tx.Version,
    IF AnyOneCanPay(hashType) THEN Zero ELSE sigHashes.HashPrevOuts,
    IF AnyOneCanPay(hashType) \/ Base(hashType) \in {SigHashSingle, SigHashNone}
    THEN Zero ELSE sigHashes.HashSequence,
    tx.TxIn[idx].PreviousOutPoint,
    IF isWitnessPubKeyHash(subScript) THEN payToPubKeyHashScript(subScript[2].data)
    ELSE subScript,
    amt, tx.TxIn[idx].Sequence,
    IF hashType % 4 \notin {SigHashSingle, SigHashNone} THEN sigHashes.HashOutputs
    ELSE IF Base(hashType) = SigHashSingle /\ idx <= Len(tx.TxOut)
         THEN <<"output", tx.TxOut[idx]>> ELSE Zero,
    tx.LockTime, hashType>>

\* Bug: SigHashSingle blanks the output of the input too.
TxCopyBlank(script, hashType, tx, idx) ==
  LET blank == [Value |-> -1, PkScript |-> <<>>]
      ins == [i \in DOMAIN tx.TxIn |->
                <<tx.TxIn[i].PreviousOutPoint, IF i = idx THEN script ELSE <<>>,
                  tx.TxIn[i].Sequence>>]
  IN  <<tx.Version, IF AnyOneCanPay(hashType) THEN <<ins[idx]>> ELSE ins,
        IF Base(hashType) = SigHashSingle THEN [i \in 1..idx |-> blank] ELSE tx.TxOut,
        tx.LockTime>>

\* The copy of the transaction that is serialised without witnesses.
TxCopy(script, hashType, tx, idx) ==
  LET sequence(i) == IF i # idx /\ Base(hashType) \in {SigHashNone, SigHashSingle}
                     THEN 0 ELSE tx.TxIn[i].Sequence
      in(i) == <<tx.TxIn[i].PreviousOutPoint, IF i = idx THEN script ELSE <<>>, sequence(i)>>
      ins == [i \in DOMAIN tx.TxIn |-> in(i)]
      blank == [Value |-> -1, PkScript |-> <<>>]
      outs == CASE Base(hashType) = SigHashNone -> <<>>
                [] Base(hashType) = SigHashSingle ->
                     [i \in 1..idx |-> IF i < idx THEN blank ELSE tx.TxOut[i]]
                [] OTHER -> tx.TxOut
  IN  <<tx.Version, IF AnyOneCanPay(hashType) THEN <<ins[idx]>> ELSE ins, outs, tx.LockTime>>

calcSignatureHash(script, hashType, tx, idx) ==
  IF Base(hashType) = SigHashSingle /\ idx > Len(tx.TxOut) THEN One
  ELSE <<"legacy", TxCopy(removeOpcode(script, OP.CODESEPARATOR), hashType, tx, idx), hashType>>

-----------------------------------------------------------------------------
(* Signing and verifying are modelled by their contract: a signature is    *)
(* valid for the key that made it and the digest it was made for.          *)

Sign(key, hash, hashType) == Signature(key, hash, hashType)
IsSignature(d) == d[1] = "sig"
HashType(sig) == sig[4]
Verify(sig, hash, pubKey) == sig[2] = pubKey[2] /\ sig[3] = hash
=============================================================================

----------------------------- MODULE ScriptSpend -----------------------------
(***************************************************************************)
(* Spending an output: co-signers complete one input of a transaction in   *)
(* turn (SignTxOutput, or WitnessSignature for witness programs), the      *)
(* transaction is amended between their signatures, and engines that share *)
(* a signature cache verify the result.                                    *)
(*                                                                         *)
(* The paths of an output are the ways in which it is meant to be spent:   *)
(* m of the keys sign, the elements of pushes follow the signature, and    *)
(* the transaction is as old as locktime and sequence ask.                 *)
(***************************************************************************)
EXTENDS ScriptEngine, ScriptSign

CONSTANTS
  Spent,        \* the outputs that may be spent, records [script, redeem, kind, paths]
  Drafts,       \* the transactions the spender considers, the first one to begin with
  idx,          \* the input that spends the output
  HashTypes,    \* the hash types signers use
  MaxSigns,     \* how many signatures are made
  MaxAmends     \* how often the transaction is amended

VARIABLES
  spent,        \* the output being spent
  draft,        \* the transaction, with the scripts of the other inputs empty
  sigScript,    \* the signature script of the input
  witness,      \* its witness
  signed,       \* the signatures made so far: signer, hash type and transaction
  amends,       \* how often the transaction was amended
  sigCache      \* the cache that verifiers share

vars == <<spent, draft, sigScript, witness, signed, amends, sigCache>>

amount == 7

AllKeys == UNION {path.keys : path \in spent.paths}

\* The transaction with the input's scripts in place.
Tx == [draft EXCEPT !.TxIn[idx].SignatureScript = sigScript, !.TxIn[idx].Witness = witness]

Run(flags, cache) ==
  Execute(NewEngine(spent.script, Tx, idx, flags, cache, NewTxSigHashes(Tx), amount))

Accepts(flags) == Run(flags, {}).err = ""

Init ==
  /\ spent \in Spent
  /\ draft = Drafts[1]
  /\ sigScript = <<>>
  /\ witness = <<>>
  /\ signed = <<>>
  /\ amends = 0
  /\ sigCache = {}

\* The holder of key signs, merging with what others did before.
CoSign(key, hashType) ==
  /\ spent.kind = "script"
  /\ Len(signed) < MaxSigns
  /\ \E result \in {SignTxOutput(Tx, idx, spent.script, hashType, {key}, {spent.redeem}, sigScript)} :
       /\ ~result.err
       /\ sigScript' = result.script
  /\ signed' = Append(signed, [key |-> key, hashType |-> hashType, tx |-> draft])
  /\ UNCHANGED <<spent, draft, witness, amends, sigCache>>

\* The subscript of a nested program is the program.
WitnessSign(key, hashType) ==
  /\ spent.kind \in {"witness", "nested"}
  /\ Len(signed) < MaxSigns
  /\ witness' = WitnessSignature(Tx, NewTxSigHashes(Tx), idx, amount,
                                 IF spent.kind = "nested" THEN spent.redeem ELSE spent.script,
                                 hashType, key)
  /\ sigScript' = IF spent.kind = "nested"
                  THEN AddData(NewScriptBuilder, Script(spent.redeem)).script ELSE <<>>
  /\ signed' = Append(signed, [key |-> key, hashType |-> hashType, tx |-> draft])
  /\ UNCHANGED <<spent, draft, amends, sigCache>>

\* A contract is no standard script: its spender puts the script together.
ContractSign(key, hashType, path) ==
  /\ spent.kind = "contract"
  /\ Len(signed) < MaxSigns
  /\ sigScript' = AddAll(NewScriptBuilder,
                         <<RawTxInSignature(Tx, idx, spent.script, hashType, key), key>>
                         \o path.pushes).script
  /\ signed' = Append(signed, [key |-> key, hashType |-> hashType, tx |-> draft])
  /\ UNCHANGED <<spent, draft, witness, amends, sigCache>>

Amend ==
  /\ amends < MaxAmends
  /\ signed # <<>>
  /\ \E i \in DOMAIN Drafts : draft' = Drafts[i] /\ draft' # draft
  /\ amends' = amends + 1
  /\ UNCHANGED <<spent, sigScript, witness, signed, sigCache>>

RECURSIVE AddEntries(_, _)
AddEntries(caches, entries) ==
  IF entries = <<>> THEN caches
  ELSE AddEntries(UNION {Add(c, entries[1].hash, entries[1].sig, entries[1].pubKey) : c \in caches},
                  Tail(entries))

\* A verifier runs the engine; what it verified enters the cache.
VerifyInput ==
  /\ signed # <<>>
  /\ \E run \in {Run(StandardVerifyFlags, sigCache)} :
       /\ run.verified # <<>>
       /\ sigCache' \in AddEntries({sigCache}, run.verified)
  /\ UNCHANGED <<spent, draft, sigScript, witness, signed, amends>>

Next ==
  \/ \E key \in AllKeys, hashType \in HashTypes :
       \/ CoSign(key, hashType)
       \/ WitnessSign(key, hashType)
       \/ \E path \in spent.paths : ContractSign(key, hashType, path)
  \/ Amend
  \/ VerifyInput

Spec == Init /\ [][Next]_vars

-----------------------------------------------------------------------------
(* What a signature commits to: the parts in which the transaction that    *)
(* was signed and the one that is verified may not differ.                 *)

SameIn(a, b, i) == a.TxIn[i].PreviousOutPoint = b.TxIn[i].PreviousOutPoint
                   /\ a.TxIn[i].Sequence = b.TxIn[i].Sequence

SameIns(a, b, sequences) ==
  /\ Len(a.TxIn) = Len(b.TxIn)
  /\ \A i \in DOMAIN a.TxIn :
       /\ a.TxIn[i].PreviousOutPoint = b.TxIn[i].PreviousOutPoint
       /\ sequences => a.TxIn[i].Sequence = b.TxIn[i].Sequence

\* A legacy signature of SigHashSingle without a matching output signs the
\* number one, hence every transaction of that shape.
SingleBug(a, b) == Len(a.TxOut) < idx /\ Len(b.TxOut) < idx

Commits(s, tx) ==
  LET base == Base(s.hashType)
      legacy == spent.kind \in {"script", "contract"}
  IN  \/ legacy /\ base = SigHashSingle /\ SingleBug(s.tx, tx)
      \/ /\ s.tx.Version = tx.Version /\ s.tx.LockTime = tx.LockTime
         /\ SameIn(s.tx, tx, idx)
         /\ ~AnyOneCanPay(s.hashType) => SameIns(s.tx, tx, base \notin {SigHashNone, SigHashSingle})
         /\ base \notin {SigHashNone, SigHashSingle} => s.tx.TxOut = tx.TxOut
         /\ base = SigHashSingle =>
              IF idx <= Len(s.tx.TxOut)
              THEN idx <= Len(tx.TxOut) /\ s.tx.TxOut[idx] = tx.TxOut[idx]
              ELSE ~legacy /\ idx > Len(tx.TxOut)

Committed == {key \in AllKeys :
                \E i \in DOMAIN signed : signed[i].key = key /\ Commits(signed[i], draft)}

Mature(path) ==
  /\ path.locktime > 0 => /\ draft.LockTime >= path.locktime
                          /\ draft.TxIn[idx].Sequence # MaxTxInSequenceNum
  /\ draft.TxIn[idx].Sequence >= path.sequence

Open(path) == Cardinality(Committed \cap path.keys) >= path.m /\ Mature(path)

Stages == <<
  {}, {"Bip16"}, {"Bip16", "DERSignatures"},
  {"Bip16", "DERSignatures", "CheckLockTimeVerify"},
  {"Bip16", "DERSignatures", "CheckLockTimeVerify", "CheckSequenceVerify", "Witness",
   "StrictMultiSig"},
  StandardVerifyFlags>>

\* The engine accepts an input under the rules of the network only if one of
\* the output's paths is open: as many of the path's keys as it asks for have
\* signed, each with a signature that commits to the transaction as it is
\* now, and the transaction is old enough.  This is about opcodeCheckSig,
\* opcodeCheckMultiSig, the lock time opcodes, the conditionals and the two
\* digests, whatever was signed, merged and amended before.
AcceptedIsAuthorised == Accepts(Stages[5]) => \E path \in spent.paths : Open(path)

\* Signers who sign one after another, each merging with the script so far
\* (mergeMultiSig), end with an input the engine accepts under the standard
\* flags as soon as enough of them have signed, provided every signature
\* made commits to the transaction as it is now and has a standard hash type:
\* the order in which they sign does not matter.  Such an input is what
\* CalcScriptInfo expects, and its engine verifies no more signatures than are
\* counted.
CompleteIsAccepted ==
  /\ spent.kind # "contract"
  /\ \E path \in spent.paths : Open(path)
  /\ \A i \in DOMAIN signed : Commits(signed[i], draft) /\ Base(signed[i].hashType) # 0
  => \E run \in {Run(StandardVerifyFlags, {})},
        info \in {CalcScriptInfo(sigScript, spent.script, witness, spent.kind # "script")} :
       /\ run.err = ""
       /\ ~info.err /\ info.NumInputs = info.ExpectedInputs
       /\ run.sigChecks <= info.SigOps

\* Rules only restrict: what the engine accepts with all the standard flags
\* it accepts with the flags of every earlier stage of the network's rules.
FlagsOnlyRestrict ==
  \E accepted \in {[i \in DOMAIN Stages |-> Accepts(Stages[i])]} :
    \A i \in 1..(Len(Stages) - 1) : accepted[i + 1] => accepted[i]

\* The cache never changes a verdict: an engine with the shared cache, after
\* any verifications, evictions and amendments, decides as one without
\* (SigCache.Exists compares digest, signature and key).
CacheIsTransparent ==
  Cardinality({Run(StandardVerifyFlags, cache).err : cache \in {sigCache, {}}}) = 1
=============================================================================

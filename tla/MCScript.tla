------------------------------ MODULE MCScript ------------------------------
(* An instance of ScriptSpend: two inputs, of which the second spends one  *)
(* of eight outputs, and drafts that differ in one part of it.             *)
EXTENDS ScriptSpend

K(i) == Key(i, TRUE)
Keys3 == <<K(1), K(2), K(3)>>
TwoOfThree == MultiSigScript(Keys3, 2).script

Path(keys, m, pushes, locktime, sequence) ==
  [keys |-> keys, m |-> m, pushes |-> pushes, locktime |-> locktime, sequence |-> sequence]

Output(script, redeem, kind, keys, m) ==
  [script |-> script, redeem |-> redeem, kind |-> kind,
   paths |-> {Path(keys, m, <<>>, 0, 0)}]

PKH == PayToAddrScript(<<"pkh", Hash160(K(1))>>)
WPKH == PayToAddrScript(<<"wpkh", Hash160(K(1))>>)
SH(redeem) == PayToAddrScript(<<"sh", Hash160(Script(redeem))>>)

Contract(script, paths) == [script |-> script, redeem |-> <<>>, kind |-> "contract", paths |-> paths]

ToKey(key) == <<Op("DUP"), Op("HASH160"), PushOf(Hash160(key))>>
Check == <<Op("EQUALVERIFY"), Op("CHECKSIG")>>
Number(n) == AddInt64(NewScriptBuilder, n).script

Secret == Raw(<<7, 7, 7>>)

\* The form ExtractAtomicSwapDataPushes recognises.
Swap ==
  <<Op("IF"), Op("SIZE")>> \o Number(3) \o <<Op("EQUALVERIFY"), Op("SHA256"),
  PushOf(Sha256(Secret)), Op("EQUALVERIFY")>> \o ToKey(K(1)) \o <<Op("ELSE")>> \o Number(9)
  \o <<Op("CHECKLOCKTIMEVERIFY"), Op("DROP")>> \o ToKey(K(2)) \o <<Op("ENDIF")>> \o Check

Delayed == Number(4) \o <<Op("CHECKSEQUENCEVERIFY"), Op("DROP")>> \o ToKey(K(1)) \o Check

Outputs == {
  Output(PKH, <<>>, "script", {K(1)}, 1),
  Output(PayToAddrScript(<<"pk", K(1)>>), <<>>, "script", {K(1)}, 1),
  Output(TwoOfThree, <<>>, "script", ToSet(Keys3), 2),
  Output(SH(TwoOfThree), TwoOfThree, "script", ToSet(Keys3), 2),
  Output(WPKH, <<>>, "witness", {K(1)}, 1),
  Output(SH(WPKH), WPKH, "nested", {K(1)}, 1),
  Contract(Swap, {Path({K(1)}, 1, <<Secret, Raw(<<1>>)>>, 0, 0),
                  Path({K(2)}, 1, <<Raw(<<>>)>>, 9, 0)}),
  Contract(Delayed, {Path({K(1)}, 1, <<>>, 0, 4)})}

In(out, sequence) ==
  [PreviousOutPoint |-> out, SignatureScript |-> <<>>, Witness |-> <<>>, Sequence |-> sequence]
Out(value) == [Value |-> value, PkScript |-> <<>>]
Draft(ins, outs, locktime) == [Version |-> 2, TxIn |-> ins, TxOut |-> outs, LockTime |-> locktime]

MCDrafts == <<
  Draft(<<In("a", 63), In("b", 5)>>, <<Out(1), Out(2)>>, 9),
  Draft(<<In("a", 63), In("b", 5)>>, <<Out(3), Out(2)>>, 9),
  Draft(<<In("a", 63), In("b", 5)>>, <<Out(1), Out(3)>>, 9),
  Draft(<<In("a", 63), In("b", 5)>>, <<Out(1)>>, 9),
  Draft(<<In("a", 5), In("b", 5)>>, <<Out(1), Out(2)>>, 9),
  Draft(<<In("c", 63), In("b", 5)>>, <<Out(1), Out(2)>>, 9),
  Draft(<<In("a", 63), In("b", 3)>>, <<Out(1), Out(2)>>, 9),
  Draft(<<In("a", 63), In("b", 63)>>, <<Out(1), Out(2)>>, 9),
  Draft(<<In("a", 63), In("b", 5)>>, <<Out(1), Out(2)>>, 8)>>

\* Zero is no standard type and signs as SigHashAll does.
AllHashTypes == {0, 1, 3, 130}
=============================================================================

---------------------------- MODULE MCHeaderSync ----------------------------
(* An instance of HeaderSync: two branches that part after the second      *)
(* header, and epochs of five headers, of which the first is complete, on  *)
(* a test network, as the client's.  The last header comes late and may    *)
(* have the least difficulty.                                              *)
EXTENDS HeaderSync

H(id, prev, time, bits) ==
  [id |-> id, prev |-> prev, Version |-> 1, Timestamp |-> time, Bits |-> bits, pow |-> 9]

Easy == 50397183      \* 0x0300ffff, the toy network's limit
MCGenesis == H("g", "none", 0, Easy)

Stem == <<MCGenesis, H("a1", "g", 10, Easy)>>
MCBranches == {
  Stem \o <<H("a2", "a1", 20, Easy), H("a3", "a2", 30, Easy), H("a4", "a3", 40, Easy),
            H("a5", "a4", 50, BigToCompact(52428)), H("a6", "a5", 75, Easy)>>,
  Stem \o <<H("b2", "a1", 21, Easy), H("b3", "b2", 31, Easy), H("b4", "b3", 41, Easy)>>}

MCLookups == {<<"bad", "dead", "good">>, <<"good", "dead">>}
=============================================================================

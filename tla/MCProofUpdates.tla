--------------------------- MODULE MCProofUpdates ---------------------------
(***************************************************************************)
(* Keys of three bits: the server's own log, and two logs that share one   *)
(* bit with it and two with each other, so that the leaf of a log a client *)
(* follows is split and pushed up, at two depths.                          *)
(***************************************************************************)
EXTENDS ProofUpdates

Zeros == <<0, 0, 0>>
A == <<0, 1, 0>>
B == <<0, 1, 1>>

SomeKeys == {Zeros, A, B}
ProofKeys == {{A}, {B}, {A, B}}

\* The trie as a dictionary, with deletions, and a server without a chain.
Dictionary ==
  [full |-> FALSE, established |-> FALSE, deletes |-> TRUE,
   values |-> {<<"x">>, <<"y">>}, commits |-> 3, restarts |-> 0]

\* A full server, fresh or on a data directory it restarts from.
FullServer ==
  [full |-> TRUE, established |-> FALSE, deletes |-> FALSE,
   values |-> {<<"x">>}, commits |-> 2, restarts |-> 0]

RestartedServer == [FullServer EXCEPT !.established = TRUE, !.restarts = 1]

AllSetups == {Dictionary, FullServer, RestartedServer}
=============================================================================

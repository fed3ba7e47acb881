---------------------------- MODULE MCLogServer ----------------------------
(***************************************************************************)
(* LogServer for model checking: connections are interchangeable.          *)
(***************************************************************************)
EXTENDS LogServerLedger, TLC

Symmetry == Permutations(Procs) \cup Permutations(Payloads)
=============================================================================

---------------------------- MODULE MCClientLog ----------------------------
(***************************************************************************)
(* ClientLog for model checking: callers and payloads are interchangeable.  *)
(***************************************************************************)
EXTENDS ClientLog

Symmetry == Permutations(Callers) \cup Permutations(Payloads)
=============================================================================

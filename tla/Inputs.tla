------------------------------- MODULE Inputs -------------------------------
(***************************************************************************)
(* What one call of a pure function is given.  A check of a function is an *)
(* invariant over input, a record whose kind says which function it is for.*)
(***************************************************************************)
VARIABLE input

NoInput == [kind |-> "none"]
=============================================================================

-------------------------- MODULE LogServerLedger ---------------------------
(***************************************************************************)
(* The server implements the ledger: its tree is the book, its last        *)
(* commitment the published book, and what the pushed proof updates add up *)
(* to at a connection is what that peer has been shown.                    *)
(***************************************************************************)
EXTENDS LogServerInv

Ledger == INSTANCE StatementLedger WITH
  Contents <- Payloads \cup ServerPayloads,
  Peers <- Procs,
  Nothing <- NoLeaf,
  book <- fullmpt,
  published <- lastCommitment,
  shown <- view

(***************************************************************************)
(* Every step of the goroutines of the server (RegisterLogStatement,       *)
(* Commit, SendProofs) is a step of the ledger or changes nothing there:   *)
(* in particular the leaves a peer collects from delta after delta are     *)
(* those of the tree whose root is the commitment.                         *)
(***************************************************************************)
ImplementsLedger == Ledger!Spec
=============================================================================

-------------------------- MODULE StatementLedger ---------------------------
(***************************************************************************)
(* What a b_verify server promises, with no threads, locks, marks or       *)
(* deltas: a book in which every log gets one statement after the other,   *)
(* a commitment that publishes the whole book as it is at one instant, and *)
(* peers that are shown leaves of the published book and of nothing else.  *)
(***************************************************************************)
EXTENDS Integers

CONSTANTS
  Keys,      \* the logs
  Contents,  \* what a statement may say
  Peers,     \* who is shown published statements
  Nothing    \* the leaf of a log that has no statement, its index is -1

VARIABLES
  book,       \* the last statement of each log
  published,  \* the book published last, as a set of at most one
  shown       \* what each peer has been shown of the published books

ledger == <<book, published, shown>>

Init ==
  /\ book = [k \in Keys |-> Nothing]
  /\ published = {}
  /\ shown = [p \in Peers |-> [k \in Keys |-> Nothing]]

Append(k) ==
  /\ \E c \in Contents :
       book' = [book EXCEPT ![k] = [idx |-> book[k].idx + 1, pay |-> c]]
  /\ UNCHANGED <<published, shown>>

Publish ==
  /\ published' = {book}
  /\ UNCHANGED <<book, shown>>

Show(p) ==
  /\ \E t \in published, K \in SUBSET Keys :
       shown' = [shown EXCEPT ![p] =
                   [k \in Keys |-> IF k \in K THEN t[k] ELSE shown[p][k]]]
  /\ UNCHANGED <<book, published>>

Next ==
  \/ \E k \in Keys : Append(k)
  \/ Publish
  \/ \E p \in Peers : Show(p)

Spec == Init /\ [][Next]_ledger
=============================================================================

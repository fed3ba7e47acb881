----------------------- MODULE LogServerLedgerProofs ------------------------
(***************************************************************************)
(* The server implements the ledger, for any number of connections, logs   *)
(* and statements: initial states map to initial states, and every step    *)
(* maps to a step of the ledger or to none.                                *)
(***************************************************************************)
EXTENDS LogServerProofs, LogServerLedger

\* A new server is an empty ledger (NewServer).
LEMMA LedgerInit == Init => Ledger!Init
  BY DEF Init, Ledger!Init, EmptyTree, NoRoot

(***************************************************************************)
(* An insertion appends one statement to its log in the book, or leaves    *)
(* the book alone (RegisterLogStatement, SetValue).                        *)
(***************************************************************************)
LEMMA InsertAppends ==
  ASSUME IInv, ~Overlapping, NEW t \in Threads, InsertStatement(t)
  PROVE  UNCHANGED fullmpt \/ Ledger!Append(msg[t].log)
<1>1. /\ msg[t].log \in Keys
      /\ \/ fullmpt'[msg[t].log] = fullmpt[msg[t].log]
         \/ fullmpt'[msg[t].log].idx = fullmpt[msg[t].log].idx + 1
  BY LeafAdvances DEF IInv, ExclusiveKeys
<1>2. fullmpt' = fullmpt \/ fullmpt' = [fullmpt EXCEPT ![msg[t].log] = LeafOf(msg[t])]
  BY DEF InsertStatement, Inserted
<1>3. fullmpt \in [Keys -> Leaves]
  BY DEF IInv, TypeOK, Trees
<1>4. LeafOf(msg[t]) = [idx |-> msg[t].idx, pay |-> msg[t].pay]
  BY DEF LeafOf
<1>5. msg[t].pay \in Payloads \cup ServerPayloads
  <2>1. LeafOf(msg[t]) \in Leaves
    BY ZenonT(60), MessageTyped DEF IInv, TypeOK
  <2> QED
    BY <1>4, <2>1 DEF Leaves
<1>6. UNCHANGED <<lastCommitment, view>>
  BY DEF InsertStatement, snapshot, history
<1>7. CASE fullmpt' # fullmpt
  <2>1. fullmpt' = [fullmpt EXCEPT ![msg[t].log] = LeafOf(msg[t])]
    BY <1>2, <1>7
  <2>2. fullmpt'[msg[t].log] = LeafOf(msg[t])
    BY <1>1, <1>3, <2>1
  <2>3. LeafOf(msg[t]) # fullmpt[msg[t].log]
    BY <1>1, <1>3, <1>7, <2>1
  <2>4. msg[t].idx = fullmpt[msg[t].log].idx + 1
    BY <1>1, <1>4, <2>2, <2>3
  <2> QED
    BY <1>4, <1>5, <1>6, <2>1, <2>4 DEF Ledger!Append
<1> QED
  BY <1>7

(***************************************************************************)
(* SendProofs shows its peer leaves of the published book and nothing else *)
(* (Commit, SendProofs, GetUpdatesForKeys).                                *)
(***************************************************************************)
LEMMA SendShows ==
  ASSUME IInv, NEW p \in Procs, SendProofs(p)
  PROVE  UNCHANGED view \/ Ledger!Show(p)
<1>1. /\ lastDelta = [l \in changed |-> LastCommitMpt[l]]
      /\ fullmpt = LastCommitMpt
      /\ lastCommitment = Root(fullmpt)
  BY DEF IInv, SendProofs, LockInv, SnapshotInv
<1>2. UNCHANGED <<fullmpt, lastCommitment>>
  BY DEF SendProofs, tree, snapshot
<1>3. CASE autoUpdates[p]
  <2> DEFINE K == Keys \cap logIDs[p] \cap changed
             shownNow == [k \in Keys |-> IF k \in K THEN fullmpt[k]
                                         ELSE view[p][k]]
  <2>1. Overlay(view[p], lastDelta, logIDs[p]) = shownNow
    BY <1>1 DEF Overlay
  <2>2. view' = [view EXCEPT ![p] = Overlay(view[p], lastDelta, logIDs[p])]
    BY <1>3 DEF SendProofs
  <2>3. view' = [view EXCEPT ![p] = shownNow]
    BY <2>1, <2>2
  <2>4. fullmpt \in lastCommitment /\ K \in SUBSET Keys
    BY <1>1 DEF Root
  <2> QED
    BY <1>2, <2>3, <2>4 DEF Ledger!Show
<1>4. CASE ~autoUpdates[p]
  BY <1>4 DEF SendProofs
<1> QED
  BY <1>3, <1>4

\* Only Commit computes a new root (CommitBegin).
LEMMA RootFrame ==
  ASSUME TypeOK, [Next]_vars
  PROVE  UNCHANGED lastCommitment \/ CommitBegin
<1> USE DEF registry, tree, snapshot, locks, conns, subscriptions, history
<1>1. ASSUME NEW p \in Procs, Connection(p) PROVE UNCHANGED lastCommitment
  BY <1>1, ConnectionFrame
<1>2. ASSUME NEW t \in Threads, RegisterLogStatement(t)
      PROVE  UNCHANGED lastCommitment
  BY <1>2, RegisterFrame
<1>3. ASSUME \/ Run \/ CommitNoChanges \/ CommitCopy \/ LockProcessors
             \/ CommitEnd \/ WalletCommits \/ WalletFails \/ CommitReturns
      PROVE  UNCHANGED lastCommitment
  BY ZenonT(60), <1>3 DEF Run, Trigger, MaidenStatement, StartCommit,
     CommitNoChanges, CommitCopy, LockProcessors, CommitEnd, WalletCommits,
     WalletFails, CommitReturns
<1>4. ASSUME NEW p \in Procs, SendProofs(p) PROVE UNCHANGED lastCommitment
  BY <1>4 DEF SendProofs
<1>5. ASSUME UNCHANGED vars PROVE UNCHANGED lastCommitment
  BY <1>5 DEF vars
<1> QED
  BY <1>1, <1>2, <1>3, <1>4, <1>5 DEF Next, Commit

(***************************************************************************)
(* Every step of the server is a step of the ledger or leaves it alone:    *)
(* statements are appended by InsertStatement, the book is published when  *)
(* Commit computes the root, peers are shown it by SendProofs.             *)
(***************************************************************************)
LEMMA LedgerStep ==
  ASSUME IInv, ~Overlapping, [Next]_vars
  PROVE  [Ledger!Next]_(Ledger!ledger)
<1> DEFINE Abstract == [Ledger!Next]_(Ledger!ledger)
<1>1. ASSUME NEW t \in Threads, InsertStatement(t) PROVE Abstract
  <2>1. UNCHANGED <<lastCommitment, view>>
    BY <1>1 DEF InsertStatement, snapshot, history
  <2>2. msg[t].log \in Keys
    BY <1>1, LeafAdvances DEF IInv
  <2> QED
    BY <1>1, <2>1, <2>2, InsertAppends DEF Ledger!Next, Ledger!ledger
<1>2. CASE CommitBegin
  <2>1. lastCommitment' = {fullmpt} /\ UNCHANGED <<fullmpt, view>>
    BY <1>2 DEF CommitBegin, Root, tree
  <2> QED
    BY <2>1 DEF Ledger!Next, Ledger!Publish
<1>3. ASSUME NEW p \in Procs, SendProofs(p) PROVE Abstract
  <2>1. UNCHANGED <<fullmpt, lastCommitment>>
    BY <1>3 DEF SendProofs, tree, snapshot
  <2> QED
    BY <1>3, <2>1, SendShows DEF Ledger!Next, Ledger!ledger
<1>4. CASE CommitCopy
  BY <1>4 DEF CommitCopy, tree, history, Ledger!ledger
<1>5. CASE UNCHANGED <<fullmpt, lastCommitment, LastCommitMpt, view>>
  BY <1>5 DEF Ledger!ledger
<1>6. \/ UNCHANGED fullmpt \/ \E t \in Threads : InsertStatement(t)
  BY TreeFrame DEF IInv
<1>7. \/ UNCHANGED <<LastCommitMpt, view>>
      \/ CommitCopy
      \/ \E p \in Procs : SendProofs(p)
  BY CommitFrame DEF IInv
<1>8. UNCHANGED lastCommitment \/ CommitBegin
  BY RootFrame DEF IInv
<1> QED
  BY <1>1, <1>2, <1>3, <1>4, <1>5, <1>6, <1>7, <1>8

(***************************************************************************)
(* While no two connections work on one log at a time, the server with its *)
(* goroutines, locks and deltas implements the ledger (server.go,          *)
(* logprocessor.go).                                                       *)
(***************************************************************************)
THEOREM LedgerImplemented ==
  ASSUME ~Overlapping
  PROVE  Spec => ImplementsLedger
<1>1. Init => Ledger!Init
  BY LedgerInit
<1>2. IInv /\ [Next]_vars => [Ledger!Next]_(Ledger!ledger)
  BY LedgerStep
<1> QED
  BY <1>1, <1>2, InvHolds, PTL DEF Spec, ImplementsLedger, Ledger!Spec
=============================================================================

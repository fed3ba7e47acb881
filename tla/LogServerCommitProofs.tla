----------------------- MODULE LogServerCommitProofs ------------------------
(***************************************************************************)
(* Proofs about LogServer, for any number of connections, logs and         *)
(* statements: its types, its locks and what Commit keeps of the tree.     *)
(***************************************************************************)
EXTENDS LogServerInv, TLAPS

(***************************************************************************)
(* Every state of the server is well typed (all of server.go's maps and    *)
(* every stage of the handlers).                                           *)
(***************************************************************************)
LEMMA LeafTyped == NoLeaf \in Leaves /\ EmptyTree \in Trees
  BY DEF NoLeaf, Leaves, ServerPayloads, EmptyTree, Trees

\* A message carries a log, an index and a payload of the right kind (wire).
LEMMA MessageTyped ==
  ASSUME NEW m \in Messages
  PROVE  /\ m.log \in Keys
         /\ m.idx \in Nat
         /\ LeafOf(m) \in Leaves
         /\ m.kind = "append" => m \in ClientMessages
         /\ m \in ClientMessages =>
              /\ m.log \in Logs
              /\ [log |-> m.log, idx |-> m.idx, pay |-> m.pay] \in Statements
  BY ConstantsAssumption
     DEF Messages, ClientMessages, ServerMessages, NoMessage, LeafOf, Leaves,
         Keys, ServerPayloads, Statements

\* A new server is well typed (NewServer).
LEMMA InitTyped == Init => TypeOK
<1> SUFFICES ASSUME Init PROVE TypeOK
  OBVIOUS
<1>1. NoMessage \in Messages
  BY DEF Messages
<1>2. pc \in [Threads -> ConnStates \cup SrvStates]
      /\ pc[Srv] \in SrvStates
      /\ \A p \in Procs : pc[p] = "none"
  BY ConstantsAssumption DEF Init, Threads, ConnStates, SrvStates, Handling
<1>3. \A p \in Procs : pc[p] \in ConnStates /\ pc[p] \notin Handling
  BY <1>2 DEF ConnStates, Handling
<1>4. pc[Srv] \notin {"readIndex", "setIndex", "insert"}
  BY ConstantsAssumption DEF Init, Threads
<1> QED
  BY ZenonT(60), LeafTyped, <1>1, <1>2, <1>3, <1>4 DEF Init, TypeOK, NoRoot

\* Every step of the handlers and of Commit keeps the types.
LEMMA NextTyped == TypeOK /\ [Next]_vars => TypeOK'
<1> SUFFICES ASSUME TypeOK, [Next]_vars PROVE TypeOK'
  OBVIOUS
<1> USE DEF registry, tree, snapshot, locks, conns, subscriptions, history, vars
<1>0. Srv \in Threads /\ Procs \subseteq Threads /\ Srv \notin Procs
      /\ Logs \subseteq Keys /\ ZeroLog \in Keys
  BY ConstantsAssumption DEF Threads, Keys
<1>1. ASSUME NEW p \in Procs, Connect(p) PROVE TypeOK'
  BY <1>0, <1>1 DEF Connect, TypeOK, Goto, Handling, ConnStates
<1>2. ASSUME NEW p \in Procs, NEW m \in ClientMessages, Receive(p, m) PROVE TypeOK'
  BY <1>0, <1>2 DEF Receive, TypeOK, Goto, Handling, ConnStates, Messages
<1>3. ASSUME NEW p \in Procs, HangUp(p) PROVE TypeOK'
  BY <1>0, <1>3 DEF HangUp, TypeOK, Goto, Handling, ConnStates
<1>4. ASSUME NEW p \in Procs, Close(p) PROVE TypeOK'
  BY <1>0, <1>4 DEF Close, TypeOK, Goto, Handling, ConnStates
<1>5. ASSUME NEW p \in Procs, SubscribeProofUpdates(p) PROVE TypeOK'
  BY <1>5 DEF SubscribeProofUpdates, TypeOK
<1>6. ASSUME NEW p \in Procs, UnsubscribeProofUpdates(p) PROVE TypeOK'
  BY <1>6 DEF UnsubscribeProofUpdates, TypeOK
<1>7. ASSUME NEW p \in Procs, CheckLogID(p) PROVE TypeOK'
  BY <1>0, <1>7 DEF CheckLogID, TypeOK, Goto, Handling, ConnStates
<1>8. ASSUME NEW p \in Procs, SetLogID(p) PROVE TypeOK'
  BY ZenonT(60), <1>0, <1>8, MessageTyped DEF SetLogID, TypeOK, Goto,
     Handling, ConnStates
<1>9. ASSUME NEW p \in Procs, VerifyAppendLog(p) PROVE TypeOK'
  BY <1>0, <1>9 DEF VerifyAppendLog, TypeOK, Goto, Handling, ConnStates
<1>10. ASSUME NEW p \in Procs, Ack(p) PROVE TypeOK'
  BY ZenonT(60), <1>0, <1>10, MessageTyped DEF Ack, TypeOK, Goto, Handling,
     ConnStates, Messages
<1>11. ASSUME NEW t \in Threads, CheckIndex(t) PROVE TypeOK'
  BY <1>11 DEF CheckIndex, TypeOK, Goto, Handling, ConnStates, SrvStates,
     Resume, Failed, ClientMessages, ServerMessages
<1>12. ASSUME NEW t \in Threads, SetIndex(t) PROVE TypeOK'
  BY <1>0, <1>12 DEF SetIndex, TypeOK, Goto, Handling, ConnStates,
     SrvStates, Threads, ClientMessages, ServerMessages
<1>13. ASSUME NEW t \in Threads, InsertStatement(t) PROVE TypeOK'
  <2>1. msg[t].log \in Keys /\ LeafOf(msg[t]) \in Leaves
    BY ZenonT(60), MessageTyped DEF TypeOK
  <2>2. fullmpt' \in Trees
    BY <1>13, <2>1 DEF InsertStatement, Inserted, TypeOK, Trees
  <2>3. \A moved \in Displaced(msg[t].log) : moved \subseteq Keys
    BY DEF Displaced
  <2>4. changed' \subseteq Keys
    BY <1>13, <2>1, <2>3 DEF InsertStatement, TypeOK
  <2>5. /\ pc' \in [Threads -> ConnStates \cup SrvStates]
        /\ \A p \in Procs : pc'[p] \in ConnStates
        /\ pc'[Srv] \in SrvStates
        /\ \A p \in Procs : pc'[p] \in Handling => msg[p] \in ClientMessages
        /\ pc'[Srv] \notin {"readIndex", "setIndex", "insert"} \/ t # Srv
    <3>1. CASE t = Srv
      BY <1>0, <1>13, <3>1
         DEF InsertStatement, TypeOK, Goto, Resume, SrvStates, ServerMessages
    <3>2. CASE t \in Procs
      BY <1>0, <1>13, <3>2
         DEF InsertStatement, TypeOK, Goto, Resume, ConnStates, Handling,
             ClientMessages
    <3> QED
      BY <3>1, <3>2 DEF Threads
  <2> QED
    BY <1>0, <1>13, <2>2, <2>4, <2>5 DEF InsertStatement, TypeOK, Goto
<1>14. CASE Trigger
  BY <1>0, <1>14 DEF Trigger, TypeOK, Goto, SrvStates, State, NextLogIndex,
     ServerMessages, ServerPayloads, Messages
<1>15. CASE MaidenStatement
  BY <1>0, <1>15 DEF MaidenStatement, TypeOK, Goto, SrvStates, State,
     ServerMessages, ServerPayloads, Messages
<1>16. CASE StartCommit
  BY <1>0, <1>16 DEF StartCommit, TypeOK, Goto, SrvStates
<1>17. CASE CommitNoChanges
  BY <1>0, <1>17 DEF CommitNoChanges, TypeOK, Goto, SrvStates
<1>18. CASE CommitBegin
  BY ZenonT(60), <1>0, <1>18 DEF CommitBegin, TypeOK, Goto, SrvStates, Root,
     Trees
<1>19. CASE CommitCopy
  BY <1>0, <1>19 DEF CommitCopy, TypeOK, Goto, SrvStates, Trees
<1>20. CASE LockProcessors
  BY <1>0, <1>20 DEF LockProcessors, TypeOK, Goto, SrvStates
<1>21. CASE CommitEnd
  BY <1>0, <1>21 DEF CommitEnd, TypeOK, Goto, SrvStates, Free
<1>22. CASE WalletCommits
  BY <1>0, <1>22 DEF WalletCommits, TypeOK, Goto, SrvStates, State,
     NextLogIndex, ServerMessages, ServerPayloads, Messages
<1>23. CASE WalletFails
  BY <1>0, <1>23 DEF WalletFails, TypeOK, Goto, SrvStates
<1>24. CASE CommitReturns
  BY <1>0, <1>24 DEF CommitReturns, TypeOK, Goto, SrvStates
<1>25. ASSUME NEW p \in Procs, SendProofs(p) PROVE TypeOK'
  BY <1>0, <1>25 DEF SendProofs, TypeOK, Overlay, Trees
<1>26. CASE UNCHANGED vars
  BY <1>26 DEF TypeOK
<1> QED
  BY <1>1, <1>2, <1>3, <1>4, <1>5, <1>6, <1>7, <1>8, <1>9, <1>10, <1>11,
     <1>12, <1>13, <1>14, <1>15, <1>16, <1>17, <1>18, <1>19, <1>20, <1>21,
     <1>22, <1>23, <1>24, <1>25, <1>26 DEF Next, Connection,
     RegisterLogStatement, Run, Commit

(***************************************************************************)
(* Type correctness of the server, whatever its connections do (server.go, *)
(* logprocessor.go).                                                       *)
(***************************************************************************)
THEOREM TypeCorrect == Spec => []TypeOK
<1>1. Init => TypeOK
  BY InitTyped
<1>2. TypeOK /\ [Next]_vars => TypeOK'
  BY NextTyped
<1> QED
  BY <1>1, <1>2, PTL DEF Spec

-----------------------------------------------------------------------------
(***************************************************************************)
(* What the goroutine of a connection leaves alone (Process), but for the  *)
(* statements it registers: the tree, the commitments and the locks.       *)
(***************************************************************************)
LEMMA ConnectionFrame ==
  ASSUME TypeOK, NEW p \in Procs, Connection(p)
  PROVE  /\ UNCHANGED <<fullmpt, changed, lastCommitment, LastCommitMpt,
                        lastDelta, mptLock, processorsLock, sending, logIDIndex,
                        view, forced>>
         /\ pc'[Srv] = pc[Srv]
         /\ msg'[Srv] = msg[Srv]
<1> USE ConstantsAssumption
    DEF registry, tree, snapshot, locks, conns, subscriptions, history, TypeOK,
        Goto
<1>1. CASE Connect(p)
  BY <1>1 DEF Connect
<1>2. CASE \E m \in ClientMessages : Receive(p, m)
  BY <1>2 DEF Receive
<1>3. CASE HangUp(p)
  BY <1>3 DEF HangUp
<1>4. CASE Close(p)
  BY <1>4 DEF Close
<1>5. CASE SubscribeProofUpdates(p) \/ UnsubscribeProofUpdates(p)
  BY <1>5 DEF SubscribeProofUpdates, UnsubscribeProofUpdates
<1>6. CASE CheckLogID(p)
  BY <1>6 DEF CheckLogID
<1>7. CASE SetLogID(p)
  BY <1>7 DEF SetLogID
<1>8. CASE VerifyAppendLog(p)
  BY <1>8 DEF VerifyAppendLog
<1>9. CASE Ack(p)
  BY <1>9 DEF Ack
<1> QED
  BY <1>1, <1>2, <1>3, <1>4, <1>5, <1>6, <1>7, <1>8, <1>9 DEF Connection

(***************************************************************************)
(* What RegisterLogStatement leaves alone, and that a thread that runs it  *)
(* is not in the middle of Commit and does not get there.                  *)
(***************************************************************************)
LEMMA RegisterFrame ==
  ASSUME TypeOK, NEW t \in Threads, RegisterLogStatement(t)
  PROVE  /\ UNCHANGED <<logIDToPubKey, lastCommitment, LastCommitMpt, lastDelta,
                        mptLock, processorsLock, processors, sending, msg,
                        acked, view, forced>>
         /\ \/ pc'[Srv] = pc[Srv]
            \/ pc[Srv] \notin CommitStages /\ pc'[Srv] \notin CommitStages
         /\ pc[t] # "insert" => UNCHANGED <<fullmpt, changed>>
<1> USE DEF registry, tree, snapshot, locks, conns, subscriptions, history, Goto
<1>0. pc \in [Threads -> ConnStates \cup SrvStates] /\ Srv \in Threads
  BY DEF TypeOK, Threads
<1>1. \A kind : Resume(kind) \notin CommitStages /\ Failed(kind) \notin CommitStages
  BY DEF Resume, Failed, CommitStages
<1>2. CASE CheckIndex(t)
  <2>1. pc[t] \notin CommitStages /\ pc'[t] \notin CommitStages
    BY <1>0, <1>1, <1>2 DEF CheckIndex, CommitStages
  <2> QED
    BY <1>0, <1>2, <2>1 DEF CheckIndex
<1>3. CASE SetIndex(t)
  <2>1. pc[t] \notin CommitStages /\ pc'[t] \notin CommitStages
    BY <1>0, <1>3 DEF SetIndex, CommitStages
  <2> QED
    BY <1>0, <1>3, <2>1 DEF SetIndex
<1>4. CASE InsertStatement(t)
  <2>1. pc[t] \notin CommitStages /\ pc'[t] \notin CommitStages
    BY <1>0, <1>1, <1>4 DEF InsertStatement, CommitStages
  <2> QED
    BY <1>0, <1>4, <2>1 DEF InsertStatement
<1> QED
  BY <1>2, <1>3, <1>4, RegisterLogStatement(t) DEF RegisterLogStatement

(***************************************************************************)
(* The locks are held at the stages of Commit that LockInv names, and      *)
(* processorsLock keeps the connections being written to registered        *)
(* (Commit, unregisterProcessor).                                          *)
(***************************************************************************)
LEMMA LockStep ==
  TypeOK /\ LockInv /\ [Next]_vars => LockInv'
<1> SUFFICES ASSUME TypeOK, LockInv, [Next]_vars PROVE LockInv'
  OBVIOUS
<1> USE ConstantsAssumption
    DEF registry, tree, snapshot, locks, conns, subscriptions, history, TypeOK,
        LockInv, Goto, Free, CommitStages
<1>1. ASSUME NEW p \in Procs, Connection(p) PROVE LockInv'
  <2>1. CASE Close(p)
    BY <1>1, <2>1, ConnectionFrame DEF Close
  <2>2. CASE ~Close(p)
    <3>1. processors \subseteq processors'
      BY <1>1, <2>2 DEF Connection, Connect, Receive, HangUp,
         SubscribeProofUpdates, UnsubscribeProofUpdates, CheckLogID, SetLogID,
         VerifyAppendLog, Ack
    <3> QED
      BY SMTT(30), <1>1, <3>1, ConnectionFrame
  <2> QED
    BY <2>1, <2>2
<1>2. ASSUME NEW t \in Threads, RegisterLogStatement(t) PROVE LockInv'
  BY <1>2, RegisterFrame
<1>3. CASE Run
  BY <1>3 DEF Run, Trigger, MaidenStatement, StartCommit, State, Threads
<1>4. CASE CommitNoChanges \/ CommitBegin \/ CommitCopy \/ LockProcessors
  BY <1>4 DEF CommitNoChanges, CommitBegin, CommitCopy, LockProcessors, Threads
<1>5. ASSUME NEW p \in Procs, SendProofs(p) PROVE LockInv'
  BY <1>5 DEF SendProofs
<1>6. CASE CommitEnd \/ WalletCommits \/ WalletFails \/ CommitReturns
  BY <1>6 DEF CommitEnd, WalletCommits, WalletFails, CommitReturns, State,
     Threads
<1>7. CASE UNCHANGED vars
  BY <1>7 DEF vars
<1> QED
  BY <1>1, <1>2, <1>3, <1>4, <1>5, <1>6, <1>7 DEF Next, Commit

(***************************************************************************)
(* The tree, its marks and the committed tree stay related as SnapshotInv  *)
(* says: nobody inserts while Commit holds mptLock, and an insertion marks *)
(* the leaf it changes (Commit, RegisterLogStatement, FullMPT.Insert).     *)
(***************************************************************************)
LEMMA SnapshotStep ==
  TypeOK /\ LockInv /\ SnapshotInv /\ [Next]_vars => SnapshotInv'
<1> SUFFICES ASSUME TypeOK, LockInv, SnapshotInv, [Next]_vars PROVE SnapshotInv'
  OBVIOUS
<1> USE ConstantsAssumption
    DEF registry, tree, snapshot, locks, conns, subscriptions, history,
        SnapshotInv, Goto
<1>0. pc \in [Threads -> ConnStates \cup SrvStates] /\ Srv \in Threads
      /\ changed \subseteq Keys /\ fullmpt \in Trees
  BY DEF TypeOK, Threads
<1>1. ASSUME NEW p \in Procs, Connection(p) PROVE SnapshotInv'
  BY <1>1, ConnectionFrame
<1>2. ASSUME NEW t \in Threads, RegisterLogStatement(t) PROVE SnapshotInv'
  <2>1. CASE InsertStatement(t)
    <3>1. pc[Srv] \notin CommitStages /\ pc'[Srv] \notin CommitStages
      BY <1>2, <2>1, RegisterFrame DEF InsertStatement, LockInv, Free
    <3>2. \A k \in Keys : fullmpt'[k] = fullmpt[k] \/ k \in changed'
      BY SMTT(30), <1>0, <2>1 DEF InsertStatement, Inserted, Trees
    <3>3. changed \subseteq changed'
      BY <2>1 DEF InsertStatement
    <3> QED
      BY <1>2, <3>1, <3>2, <3>3, RegisterFrame DEF CommitStages
  <2>2. CASE pc[t] # "insert"
    BY <1>2, <2>2, RegisterFrame DEF CommitStages
  <2> QED
    BY <1>2, <2>1, <2>2 DEF RegisterLogStatement, CheckIndex, SetIndex
<1>3. CASE Run
  BY <1>0, <1>3 DEF Run, Trigger, MaidenStatement, StartCommit, State
<1>4. CASE CommitNoChanges
  BY <1>0, <1>4 DEF CommitNoChanges
<1>5. CASE CommitBegin
  BY <1>0, <1>5 DEF CommitBegin
<1>6. CASE CommitCopy
  BY <1>0, <1>6 DEF CommitCopy
<1>7. CASE LockProcessors
  BY <1>0, <1>7 DEF LockProcessors
<1>8. ASSUME NEW p \in Procs, SendProofs(p) PROVE SnapshotInv'
  BY <1>8 DEF SendProofs
<1>9. CASE CommitEnd
  BY <1>0, <1>9 DEF CommitEnd
<1>10. CASE WalletCommits
  BY <1>0, <1>10 DEF WalletCommits, State
<1>11. CASE WalletFails \/ CommitReturns
  BY <1>0, <1>11 DEF WalletFails, CommitReturns
<1>12. CASE UNCHANGED vars
  BY <1>12 DEF vars
<1> QED
  BY <1>1, <1>2, <1>3, <1>4, <1>5, <1>6, <1>7, <1>8, <1>9, <1>10, <1>11, <1>12
     DEF Next, Commit
=============================================================================

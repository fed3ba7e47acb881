------------------------- MODULE LogServerLogProofs -------------------------
(***************************************************************************)
(* Proofs about LogServer: what is acknowledged, committed and shown to a  *)
(* peer comes from the log.                                                *)
(***************************************************************************)
EXTENDS LogServerIndexProofs

(***************************************************************************)
(* Inserting a statement moves its log on by exactly one statement, or     *)
(* leaves the server's own leaf alone (RegisterLogStatement, SetValue).    *)
(***************************************************************************)
LEMMA LeafAdvances ==
  ASSUME TypeOK, IndexInv, AliasInv, NEW t \in Threads, InsertStatement(t)
  PROVE  /\ msg[t].log \in Keys
         /\ \A k \in Keys \ {msg[t].log} : fullmpt'[k] = fullmpt[k]
         /\ msg[t].log \in ExclusiveKeys =>
              \/ fullmpt'[msg[t].log] = fullmpt[msg[t].log]
              \/ fullmpt'[msg[t].log].idx = fullmpt[msg[t].log].idx + 1
<1>1. msg[t].log \in Keys /\ msg[t].idx \in Nat
  BY ZenonT(60), MessageTyped DEF TypeOK
<1>2. /\ \/ SameBytes(fullmpt[msg[t].log], msg[t]) /\ fullmpt' = fullmpt
         \/ /\ ~SameBytes(fullmpt[msg[t].log], msg[t])
            /\ fullmpt'[msg[t].log].idx = msg[t].idx
      /\ \A k \in Keys \ {msg[t].log} : fullmpt'[k] = fullmpt[k]
  BY <1>1 DEF InsertStatement, Inserted, TypeOK, Trees, LeafOf
<1>3. ASSUME msg[t].log \in ExclusiveKeys
      PROVE  OwnRoot(msg[t].log) \/ fullmpt[msg[t].log].idx = msg[t].idx - 1
  <2>1. pc[t] = "insert" /\ InFlight(t, msg[t].log)
    BY DEF InsertStatement, InFlight, Handling
  <2>2. StageInv(t, msg[t].log)
    BY <1>3, <2>1 DEF IndexInv, KeyInv
  <2> QED
    BY <2>1, <2>2 DEF StageInv
<1>4. ASSUME OwnRoot(msg[t].log) PROVE SameBytes(fullmpt[msg[t].log], msg[t])
  <2>1. t = Srv /\ pc[Srv] \in Registering
    BY <1>4, FlightLog, ConstantsAssumption
       DEF OwnRoot, InsertStatement, Handling, Threads, Registering
  <2> QED
    BY <1>4, <2>1 DEF AliasInv, OwnRoot, SameBytes
<1>5. CASE SameBytes(fullmpt[msg[t].log], msg[t])
  BY <1>1, <1>2, <1>5
<1>6. CASE ~SameBytes(fullmpt[msg[t].log], msg[t])
  <2>1. fullmpt'[msg[t].log].idx = msg[t].idx
    BY <1>2, <1>6
  <2>2. msg[t].log \in ExclusiveKeys => fullmpt[msg[t].log].idx = msg[t].idx - 1
    BY <1>3, <1>4, <1>6
  <2> QED
    BY <1>1, <1>2, <2>1, <2>2
<1> QED
  BY <1>5, <1>6

(***************************************************************************)
(* The slice of the root's hash gets into the server's own leaf only once  *)
(* the trigger and the maiden statement are done (Run, Commit).            *)
(***************************************************************************)
LEMMA AliasStep ==
  TypeOK /\ AliasInv /\ [Next]_vars => AliasInv'
<1> SUFFICES ASSUME TypeOK, AliasInv, [Next]_vars PROVE AliasInv'
  OBVIOUS
<1> USE DEF registry, tree, snapshot, locks, conns, subscriptions, history, Goto
<1>a. /\ pc \in [Threads -> ConnStates \cup SrvStates]
      /\ msg \in [Threads -> Messages]
      /\ fullmpt \in [Keys -> Leaves]
      /\ Srv \in Threads /\ Srv \notin Procs /\ ZeroLog \in Keys
  BY ConstantsAssumption DEF TypeOK, Threads, Trees, Keys
<1>1. ASSUME NEW p \in Procs, Connection(p) PROVE AliasInv'
  BY <1>1, ConnectionFrame DEF AliasInv, OwnRoot
<1>2. ASSUME NEW t \in Threads \ {Srv}, RegisterLogStatement(t) PROVE AliasInv'
  <2>1. msg[t].log \in Keys \ {ZeroLog}
    BY <1>2, FlightLog, MessageTyped, ConstantsAssumption
       DEF RegisterLogStatement, CheckIndex, SetIndex, InsertStatement, Handling,
           Threads, Keys
  <2>2. fullmpt'[ZeroLog] = fullmpt[ZeroLog]
    BY <1>2, <1>a, <2>1 DEF RegisterLogStatement, CheckIndex, SetIndex,
       InsertStatement, Inserted
  <2>3. pc'[Srv] = pc[Srv] /\ msg' = msg
    BY <1>2, <1>a DEF RegisterLogStatement, CheckIndex, SetIndex, InsertStatement
  <2> QED
    BY <2>2, <2>3 DEF AliasInv, OwnRoot
<1>3. CASE CheckIndex(Srv)
  <2>1. UNCHANGED <<fullmpt, msg>>
    BY <1>3 DEF CheckIndex
  <2>2. pc'[Srv] = "setIndex" \/ pc'[Srv] = Failed(msg[Srv].kind)
    BY <1>3, <1>a DEF CheckIndex
  <2>3. pc[Srv] \in Registering /\ Failed(msg[Srv].kind) \notin Registering
    BY <1>3 DEF CheckIndex, Failed, Resume, Registering
  <2>4. msg[Srv].kind = "force" => Failed(msg[Srv].kind) = "return"
    BY DEF Failed, Resume
  <2> QED
    BY <2>1, <2>2, <2>3, <2>4 DEF AliasInv, OwnRoot
<1>4. CASE SetIndex(Srv)
  BY <1>4, <1>a DEF SetIndex, AliasInv, OwnRoot, Registering
<1>5. CASE InsertStatement(Srv)
  <2>1. msg' = msg /\ pc'[Srv] = Resume(msg[Srv].kind) /\ pc[Srv] \in Registering
    BY <1>5, <1>a DEF InsertStatement, Registering
  <2>2. msg[Srv].log = ZeroLog
    BY <1>5, FlightLog DEF InsertStatement, Handling
  <2>3. \/ fullmpt'[ZeroLog] = fullmpt[ZeroLog]
        \/ fullmpt'[ZeroLog].pay = msg[Srv].pay
    BY <1>5, <1>a, <2>2 DEF InsertStatement, Inserted, LeafOf
  <2>4. Resume(msg[Srv].kind) \notin Registering
    BY DEF Resume, Registering
  <2>5. msg[Srv].kind = "force" => Resume(msg[Srv].kind) = "return"
    BY DEF Resume
  <2> QED
    BY <2>1, <2>3, <2>4, <2>5 DEF AliasInv, OwnRoot
<1>6. CASE Trigger
  BY <1>6, <1>a DEF Trigger, State, AliasInv, OwnRoot
<1>7. CASE MaidenStatement
  BY <1>7, <1>a DEF MaidenStatement, State, AliasInv, OwnRoot
<1>8. CASE WalletCommits
  BY <1>8, <1>a DEF WalletCommits, State, AliasInv, OwnRoot
<1>9. ASSUME \/ StartCommit \/ CommitNoChanges \/ CommitBegin \/ CommitCopy
             \/ LockProcessors \/ CommitEnd \/ WalletFails \/ CommitReturns
      PROVE  AliasInv'
  <2>1. /\ UNCHANGED fullmpt
        /\ pc'[Srv] \notin Registering \cup {"trigger", "maiden"}
    BY SMTT(30), <1>9, <1>a DEF StartCommit, CommitNoChanges, CommitBegin, CommitCopy,
       LockProcessors, CommitEnd, WalletFails, CommitReturns, Registering
  <2> QED
    BY <2>1 DEF AliasInv
<1>10. ASSUME UNCHANGED vars \/ \E p \in Procs : SendProofs(p) PROVE AliasInv'
  BY <1>10 DEF SendProofs, vars, AliasInv, OwnRoot
<1> QED
  BY <1>1, <1>2, <1>3, <1>4, <1>5, <1>6, <1>7, <1>8, <1>9, <1>10
     DEF Next, Run, Commit, RegisterLogStatement

(***************************************************************************)
(* Every other step than an insertion leaves the dictionary as it is.      *)
(***************************************************************************)
LEMMA TreeFrame ==
  ASSUME TypeOK, [Next]_vars
  PROVE  \/ UNCHANGED fullmpt
         \/ \E t \in Threads : InsertStatement(t)
<1> USE DEF registry, tree, snapshot, locks, conns, subscriptions, history
<1>1. ASSUME NEW p \in Procs, Connection(p) PROVE UNCHANGED fullmpt
  BY SMTT(30), <1>1, ConnectionFrame
<1>2. ASSUME NEW t \in Threads, CheckIndex(t) \/ SetIndex(t)
      PROVE  UNCHANGED fullmpt
  BY ZenonT(60), <1>2 DEF CheckIndex, SetIndex
<1>3. ASSUME Run \/ Commit PROVE UNCHANGED fullmpt
  BY ZenonT(60), <1>3 DEF Run, Trigger, MaidenStatement, StartCommit, Commit,
     CommitNoChanges, CommitBegin, CommitCopy, LockProcessors, SendProofs,
     CommitEnd, WalletCommits, WalletFails, CommitReturns
<1>4. ASSUME UNCHANGED vars PROVE UNCHANGED fullmpt
  BY <1>4 DEF vars
<1> QED
  BY <1>1, <1>2, <1>3, <1>4 DEF Next, RegisterLogStatement

(***************************************************************************)
(* Only Ack acknowledges a statement.                                      *)
(***************************************************************************)
LEMMA AckedFrame ==
  ASSUME [Next]_vars
  PROVE  \/ UNCHANGED acked
         \/ \E p \in Procs : Ack(p)
<1> USE DEF registry, tree, snapshot, locks, conns, subscriptions, history
<1>1. ASSUME NEW p \in Procs, Connection(p) PROVE UNCHANGED acked \/ Ack(p)
  BY <1>1 DEF Connection, Connect, Receive, HangUp, Close,
     SubscribeProofUpdates, UnsubscribeProofUpdates, CheckLogID, SetLogID,
     VerifyAppendLog
<1>2. ASSUME NEW t \in Threads, RegisterLogStatement(t) PROVE UNCHANGED acked
  BY ZenonT(60), <1>2 DEF RegisterLogStatement, CheckIndex, SetIndex,
     InsertStatement
<1>3. ASSUME Run \/ Commit PROVE UNCHANGED acked
  BY <1>3 DEF Run, Trigger, MaidenStatement, StartCommit, Commit,
     CommitNoChanges, CommitBegin, CommitCopy, LockProcessors, SendProofs,
     CommitEnd, WalletCommits, WalletFails, CommitReturns
<1>4. ASSUME UNCHANGED vars PROVE UNCHANGED acked
  BY <1>4 DEF vars
<1> QED
  BY <1>1, <1>2, <1>3, <1>4 DEF Next

(***************************************************************************)
(* What is acknowledged is in the tree, or superseded, and has no rival at *)
(* its index: it is acknowledged after it was inserted, and an insertion   *)
(* only ever moves a log on (ProcessCreateLog, ProcessAppendLog).          *)
(***************************************************************************)
LEMMA AckedStep ==
  TypeOK /\ IndexInv /\ AliasInv /\ AckedInv /\ [Next]_vars => AckedInv'
<1> SUFFICES ASSUME TypeOK, IndexInv, AliasInv, AckedInv, [Next]_vars
             PROVE  AckedInv'
  OBVIOUS
<1>a. /\ fullmpt \in [Keys -> Leaves]
      /\ \A s \in acked : s \in [log : Logs, idx : Nat, pay : Payloads]
  BY DEF TypeOK, Trees, Statements
<1>1. ASSUME NEW t \in Threads, InsertStatement(t) PROVE AckedInv'
  <2>1. UNCHANGED acked
    BY <1>1 DEF InsertStatement, history
  <2>2. \A k \in ExclusiveKeys :
          fullmpt'[k] = fullmpt[k] \/ fullmpt'[k].idx = fullmpt[k].idx + 1
    BY <1>1, LeafAdvances DEF ExclusiveKeys, Keys
  <2>3. \A k \in ExclusiveKeys : fullmpt[k].idx \in Int
    BY <1>a DEF ExclusiveKeys, Keys, Leaves
  <2>4. ASSUME NEW s \in acked, s.log \in ExclusiveKeys
        PROVE  UpTo([idx |-> s.idx, pay |-> s.pay], fullmpt'[s.log])
    BY <1>a, <2>2, <2>3, <2>4 DEF AckedInv, UpTo
  <2> QED
    BY <2>1, <2>4 DEF AckedInv, ExclusiveKeys, UpTo
<1>2. ASSUME NEW p \in Procs, Ack(p) PROVE AckedInv'
  <2> DEFINE n == [log |-> msg[p].log, idx |-> msg[p].idx, pay |-> msg[p].pay]
  <2>1. acked' = acked \cup {n} /\ UNCHANGED fullmpt
    BY <1>2 DEF Ack, tree
  <2>2. n.log \in ExclusiveKeys =>
          fullmpt[n.log] = [idx |-> n.idx, pay |-> n.pay]
    BY <1>2 DEF Ack, IndexInv, KeyInv, StageInv, InFlight, Handling, Threads,
       LeafOf
  <2>3. \A s \in acked :
          s.log \in ExclusiveKeys /\ s.log = n.log /\ s.idx = n.idx => s = n
    <3> SUFFICES ASSUME NEW s \in acked, s.log \in ExclusiveKeys,
                        s.log = n.log, s.idx = n.idx
                 PROVE  s = n
      OBVIOUS
    <3>1. s \in [log : Logs, idx : Nat, pay : Payloads]
      BY <1>a
    <3>2. UpTo([idx |-> s.idx, pay |-> s.pay], [idx |-> n.idx, pay |-> n.pay])
      BY <2>2 DEF AckedInv
    <3>3. s.pay = n.pay
      BY <3>1, <3>2 DEF UpTo
    <3>4. s = [log |-> s.log, idx |-> s.idx, pay |-> s.pay]
      BY <3>1
    <3> QED
      BY <3>3, <3>4
  <2>4. n.log \in ExclusiveKeys =>
          UpTo([idx |-> n.idx, pay |-> n.pay], fullmpt[n.log])
    BY <2>2 DEF UpTo
  <2> HIDE DEF n
  <2>5. \A s \in acked' : s.log \in ExclusiveKeys =>
          UpTo([idx |-> s.idx, pay |-> s.pay], fullmpt[s.log])
    BY <2>1, <2>4 DEF AckedInv
  <2>6. \A s, r \in acked' :
          s.log \in ExclusiveKeys /\ s.log = r.log /\ s.idx = r.idx => s = r
    BY <2>1, <2>3 DEF AckedInv
  <2> QED
    BY <2>1, <2>5, <2>6 DEF AckedInv, ExclusiveKeys, UpTo
<1>3. CASE UNCHANGED <<fullmpt, acked>>
  BY <1>3 DEF AckedInv, ExclusiveKeys, UpTo
<1> QED
  BY <1>1, <1>2, <1>3, TreeFrame, AckedFrame

(***************************************************************************)
(* What changes the committed tree and the views of the peers (Commit).    *)
(***************************************************************************)
LEMMA CommitFrame ==
  ASSUME TypeOK, [Next]_vars
  PROVE  \/ UNCHANGED <<LastCommitMpt, view>>
         \/ CommitCopy
         \/ \E p \in Procs : SendProofs(p)
<1> USE DEF registry, tree, snapshot, locks, conns, subscriptions, history
<1>1. ASSUME NEW p \in Procs, Connection(p)
      PROVE  UNCHANGED <<LastCommitMpt, view>>
  BY <1>1, ConnectionFrame
<1>2. ASSUME NEW t \in Threads, RegisterLogStatement(t)
      PROVE  UNCHANGED <<LastCommitMpt, view>>
  BY <1>2, RegisterFrame
<1>3. ASSUME \/ Run \/ CommitNoChanges \/ CommitBegin \/ LockProcessors
             \/ CommitEnd \/ WalletCommits \/ WalletFails \/ CommitReturns
      PROVE  UNCHANGED <<LastCommitMpt, view>>
  BY <1>3 DEF Run, Trigger, MaidenStatement, StartCommit,
     CommitNoChanges, CommitBegin, LockProcessors, CommitEnd, WalletCommits,
     WalletFails, CommitReturns
<1>4. ASSUME UNCHANGED vars PROVE UNCHANGED <<LastCommitMpt, view>>
  BY <1>4 DEF vars
<1> QED
  BY <1>1, <1>2, <1>3, <1>4 DEF Next, Commit

(***************************************************************************)
(* SendProofs brings the peer's leaves to the committed ones or leaves     *)
(* them alone (DeltaMPT.GetUpdatesForKeys).                                *)
(***************************************************************************)
LEMMA SendShowsCommitted ==
  ASSUME TypeOK, LockInv, SnapshotInv, NEW p \in Procs, SendProofs(p),
         NEW q \in Procs, NEW k \in Keys
  PROVE  view'[q][k] = view[q][k] \/ view'[q][k] = LastCommitMpt[k]
<1>1. lastDelta = [l \in changed |-> LastCommitMpt[l]]
  BY DEF SendProofs, LockInv, SnapshotInv
<1>2. view \in [Procs -> Trees]
  BY DEF TypeOK
<1>3. CASE autoUpdates[p] /\ q = p
  <2>1. view'[q] = Overlay(view[q], lastDelta, logIDs[q])
    BY <1>2, <1>3 DEF SendProofs
  <2> QED
    BY <1>1, <2>1 DEF Overlay
<1>4. CASE ~(autoUpdates[p] /\ q = p)
  BY <1>2, <1>4 DEF SendProofs
<1> QED
  BY <1>3, <1>4

(***************************************************************************)
(* The committed tree is never ahead of the tree, nor a peer's view ahead  *)
(* of the committed tree (Commit, SendProofs).                             *)
(***************************************************************************)
LEMMA CommittedStep ==
  TypeOK /\ LockInv /\ SnapshotInv /\ IndexInv /\ AliasInv /\ CommittedInv
    /\ ViewInv /\ [Next]_vars => CommittedInv' /\ ViewInv'
<1> SUFFICES ASSUME TypeOK, LockInv, SnapshotInv, IndexInv, AliasInv,
                    CommittedInv, ViewInv, [Next]_vars
             PROVE  CommittedInv' /\ ViewInv'
  OBVIOUS
<1>a. /\ \A k \in ExclusiveKeys : k \in Keys
      /\ \A k \in Keys : fullmpt[k].idx \in Int /\ LastCommitMpt[k].idx \in Int
      /\ \A p \in Procs : \A k \in Keys : view[p][k].idx \in Int
  BY DEF TypeOK, Trees, Leaves, ExclusiveKeys, Keys
<1>1. ASSUME NEW t \in Threads, InsertStatement(t)
      PROVE  CommittedInv' /\ ViewInv'
  <2>1. UNCHANGED <<LastCommitMpt, view>>
    BY <1>1 DEF InsertStatement, snapshot, history
  <2>2. \A k \in ExclusiveKeys :
          fullmpt'[k] = fullmpt[k] \/ fullmpt'[k].idx = fullmpt[k].idx + 1
    BY <1>1, <1>a, LeafAdvances
  <2>3. CommittedInv'
    <3> SUFFICES ASSUME NEW k \in ExclusiveKeys
                 PROVE  UpTo(LastCommitMpt[k], fullmpt'[k])
      BY <2>1 DEF CommittedInv, UpTo, ExclusiveKeys
    <3>1. UpTo(LastCommitMpt[k], fullmpt[k])
      BY DEF CommittedInv
    <3> QED
      BY <1>a, <2>2, <3>1 DEF UpTo
  <2>4. ViewInv'
    BY <2>1 DEF ViewInv, UpTo, ExclusiveKeys
  <2> QED
    BY <2>3, <2>4
<1>2. ASSUME CommitCopy PROVE CommittedInv' /\ ViewInv'
  <2>1. LastCommitMpt' = fullmpt /\ fullmpt' = fullmpt /\ view' = view
    BY <1>2 DEF CommitCopy, tree, history
  <2>2. \A p \in Procs : \A k \in ExclusiveKeys : UpTo(view[p][k], fullmpt[k])
    BY <1>a DEF CommittedInv, ViewInv, UpTo
  <2> QED
    BY <2>1, <2>2 DEF CommittedInv, ViewInv, UpTo, ExclusiveKeys
<1>3. ASSUME NEW p \in Procs, SendProofs(p) PROVE CommittedInv' /\ ViewInv'
  <2>1. UNCHANGED <<LastCommitMpt, fullmpt>>
    BY <1>3 DEF SendProofs, snapshot, tree
  <2>2. \A q \in Procs : \A k \in ExclusiveKeys :
          view'[q][k] = view[q][k] \/ view'[q][k] = LastCommitMpt[k]
    BY <1>3, <1>a, SendShowsCommitted
  <2> QED
    BY SMTT(30), <2>1, <2>2 DEF CommittedInv, ViewInv, UpTo, ExclusiveKeys
<1>4. CASE UNCHANGED <<LastCommitMpt, view, fullmpt>>
  BY <1>4 DEF CommittedInv, ViewInv, UpTo, ExclusiveKeys
<1> QED
  BY <1>1, <1>2, <1>3, <1>4, TreeFrame, CommitFrame
=============================================================================

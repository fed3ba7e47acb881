------------------------ MODULE LogServerIndexProofs ------------------------
(***************************************************************************)
(* Proofs about LogServer: one thread at a time works on a log, and the    *)
(* index of the log keeps up with its leaf.                                *)
(***************************************************************************)
EXTENDS LogServerCommitProofs

(***************************************************************************)
(* Connections handle statements for the clients' logs, the server's own   *)
(* thread handles statements for ZeroLog (ProcessMessage, Run, Commit).    *)
(***************************************************************************)
LEMMA FlightLog ==
  ASSUME TypeOK
  PROVE  /\ \A p \in Procs : pc[p] \in Handling => msg[p].log \in Logs
         /\ pc[Srv] \in Handling => msg[Srv].log = ZeroLog
<1>1. \A p \in Procs : pc[p] \in Handling => msg[p].log \in Logs
  BY DEF TypeOK, ClientMessages
<1>2. pc[Srv] \in Handling => pc[Srv] \in {"readIndex", "setIndex", "insert"}
  BY DEF TypeOK, Handling, SrvStates
<1>3. pc[Srv] \in Handling => msg[Srv].log = ZeroLog
  BY <1>2 DEF TypeOK, ServerMessages
<1> QED
  BY <1>1, <1>3

(***************************************************************************)
(* At most one thread works on a log of ExclusiveKeys: a connection takes  *)
(* up a statement only when no other one has one in flight, and no client  *)
(* log is ZeroLog (Process, Run).                                          *)
(***************************************************************************)
LEMMA ExclusiveStep ==
  TypeOK /\ ExclusiveInv /\ [Next]_vars => ExclusiveInv'
<1> SUFFICES ASSUME TypeOK, ExclusiveInv, [Next]_vars PROVE ExclusiveInv'
  OBVIOUS
<1> USE DEF registry, tree, snapshot, locks, conns, subscriptions, history, Goto
<1>a. pc \in [Threads -> ConnStates \cup SrvStates] /\ msg \in [Threads -> Messages]
  BY DEF TypeOK
<1>b. Srv \in Threads /\ Procs \subseteq Threads /\ Srv \notin Procs
  BY ConstantsAssumption DEF Threads
<1>c. ASSUME NEW t \in Threads,
             \A u \in Threads \ {t} : pc'[u] = pc[u] /\ msg'[u] = msg[u],
             pc'[t] \in Handling => pc[t] \in Handling /\ msg'[t] = msg[t]
      PROVE  ExclusiveInv'
  BY <1>c DEF ExclusiveInv, InFlight
<1>d. ASSUME pc' = [pc EXCEPT ![Srv] = "readIndex"],
             \A u \in Procs : msg'[u] = msg[u],
             msg'[Srv].log = ZeroLog
      PROVE  ExclusiveInv'
  <2>1. \A t \in Procs : pc'[t] \in Handling => msg'[t].log # ZeroLog
    BY <1>a, <1>b, <1>d, FlightLog, ConstantsAssumption
  <2>2. \A t \in Procs : pc'[t] = pc[t]
    BY <1>a, <1>b, <1>d
  <2> QED
    BY <1>d, <2>1, <2>2 DEF ExclusiveInv, InFlight, Threads
<1>1. ASSUME NEW p \in Procs, Connection(p) PROVE ExclusiveInv'
  <2>1. ASSUME NEW m \in ClientMessages, Receive(p, m) PROVE ExclusiveInv'
    <3>1. \A u \in Threads \ {p} : pc'[u] = pc[u] /\ msg'[u] = msg[u]
      BY <1>a, <1>b, <2>1 DEF Receive
    <3>2. msg'[p] = m /\ m.log \in Logs
      BY <1>a, <1>b, <2>1 DEF Receive, ClientMessages
    <3>3. ASSUME NEW u \in Threads \ {p}, m.log \in ExclusiveKeys
          PROVE  ~InFlight(u, m.log)
      <4>1. ~Overlapping
        BY <3>2, <3>3, ConstantsAssumption DEF ExclusiveKeys
      <4> QED
        BY <1>b, <2>1, <3>2, <4>1, FlightLog, ConstantsAssumption
           DEF Receive, InFlight, Threads
    <3> QED
      BY <3>1, <3>2, <3>3 DEF ExclusiveInv, InFlight
  <2>2. CASE ~(\E m \in ClientMessages : Receive(p, m))
    <3>1. /\ pc' = pc \/ \E label : pc' = [pc EXCEPT ![p] = label]
          /\ pc'[p] \in Handling => pc[p] \in Handling
          /\ msg' = msg
      BY <1>1, <1>a, <1>b, <2>2 DEF Connection, Connect, HangUp, Close,
         SubscribeProofUpdates, UnsubscribeProofUpdates, CheckLogID, SetLogID,
         VerifyAppendLog, Ack, Handling
    <3> QED
      BY <1>a, <1>b, <1>c, <3>1
  <2> QED
    BY <2>1, <2>2
<1>2. ASSUME NEW t \in Threads, RegisterLogStatement(t) PROVE ExclusiveInv'
  <2>1. pc[t] \in Handling /\ msg' = msg
        /\ \E label : pc' = [pc EXCEPT ![t] = label]
    BY <1>2 DEF RegisterLogStatement, CheckIndex, SetIndex, InsertStatement,
       Handling
  <2> QED
    BY <1>a, <1>c, <2>1
<1>3. CASE Trigger \/ MaidenStatement \/ WalletCommits
  BY <1>3, <1>a, <1>b, <1>d DEF Trigger, MaidenStatement, WalletCommits, State
<1>4. CASE StartCommit \/ CommitNoChanges \/ CommitBegin \/ CommitCopy
  BY <1>4, <1>a, <1>b, <1>c
     DEF StartCommit, CommitNoChanges, CommitBegin, CommitCopy, Handling
<1>5. CASE LockProcessors \/ CommitEnd \/ WalletFails \/ CommitReturns
  BY <1>5, <1>a, <1>b, <1>c
     DEF LockProcessors, CommitEnd, WalletFails, CommitReturns, Handling
<1>6. ASSUME NEW p \in Procs, SendProofs(p) PROVE ExclusiveInv'
  BY <1>6 DEF SendProofs, ExclusiveInv, InFlight
<1>7. CASE UNCHANGED vars
  BY <1>7 DEF vars, ExclusiveInv, InFlight
<1> QED
  BY <1>1, <1>2, <1>3, <1>4, <1>5, <1>6, <1>7 DEF Next, Run, Commit

(***************************************************************************)
(* A step of thread t that touches the registry and the tree at log l only *)
(* keeps the invariant of every other log.                                 *)
(***************************************************************************)
LEMMA OtherKeysKeep ==
  ASSUME TypeOK, IndexInv, NEW t \in Threads, NEW l,
         \A u \in Threads \ {t} : pc'[u] = pc[u] /\ msg'[u] = msg[u],
         \A k \in Keys \ {l} : /\ logIDIndex'[k] = logIDIndex[k]
                               /\ fullmpt'[k] = fullmpt[k]
                               /\ k \in logIDToPubKey' <=> k \in logIDToPubKey,
         pc'[t] \in Handling => msg'[t].log = l,
         pc[t] = "insert" => msg[t].log = l
  PROVE  \A k \in ExclusiveKeys \ {l} : KeyInv(k)'
<1> SUFFICES ASSUME NEW k \in ExclusiveKeys \ {l} PROVE KeyInv(k)'
  OBVIOUS
<1>1. k \in Keys \ {l} /\ KeyInv(k)
  BY DEF IndexInv, ExclusiveKeys, Keys
<1>a. /\ logIDIndex'[k] = logIDIndex[k]
      /\ fullmpt'[k] = fullmpt[k]
      /\ k \in logIDToPubKey' <=> k \in logIDToPubKey
  BY <1>1
<1>2. (k \in Logs \ logIDToPubKey => logIDIndex[k] = -1)'
  BY <1>1, <1>a DEF KeyInv
<1>3. \A u \in Threads : (InFlight(u, k) => StageInv(u, k))'
  <2> SUFFICES ASSUME NEW u \in Threads, InFlight(u, k)' PROVE StageInv(u, k)'
    OBVIOUS
  <2>1. u # t
    BY <1>1 DEF InFlight
  <2>2. pc'[u] = pc[u] /\ msg'[u] = msg[u] /\ StageInv(u, k)
    BY <1>1, <2>1 DEF KeyInv, InFlight
  <2> QED
    BY <1>a, <2>2 DEF StageInv, OwnRoot
<1>4. \/ fullmpt'[k].idx = logIDIndex'[k]
      \/ OwnRoot(k)'
      \/ \E u \in Threads : pc'[u] = "insert" /\ msg'[u].log = k
  BY <1>1, <1>a DEF KeyInv, OwnRoot
<1> QED
  BY <1>2, <1>3, <1>4 DEF KeyInv

(***************************************************************************)
(* A step of a thread that ends outside the handling of a statement, was   *)
(* not about to insert one, and touches neither registry nor tree.         *)
(***************************************************************************)
LEMMA UntouchedKeep ==
  ASSUME TypeOK, IndexInv, NEW t \in Threads,
         \A u \in Threads \ {t} : pc'[u] = pc[u] /\ msg'[u] = msg[u],
         UNCHANGED <<logIDToPubKey, logIDIndex, fullmpt>>,
         \/ pc'[t] \notin Handling
         \/ pc'[t] = "checkID"
         \/ pc'[t] = "verify" /\ msg'[t].kind # "create",
         pc[t] # "insert"
  PROVE  IndexInv'
<1> SUFFICES ASSUME NEW k \in ExclusiveKeys PROVE KeyInv(k)'
  BY DEF IndexInv, ExclusiveKeys
<1>1. KeyInv(k)
  BY DEF IndexInv
<1>2. \A u \in Threads : (InFlight(u, k) => StageInv(u, k))'
  <2> SUFFICES ASSUME NEW u \in Threads, InFlight(u, k)' PROVE StageInv(u, k)'
    OBVIOUS
  <2>1. CASE u = t
    BY <2>1 DEF InFlight, StageInv
  <2>2. CASE u # t
    BY <1>1, <2>2 DEF KeyInv, InFlight, StageInv, OwnRoot
  <2> QED
    BY <2>1, <2>2
<1>3. \/ fullmpt'[k].idx = logIDIndex'[k]
      \/ OwnRoot(k)'
      \/ \E u \in Threads : pc'[u] = "insert" /\ msg'[u].log = k
  BY <1>1 DEF KeyInv, OwnRoot
<1> QED
  BY <1>1, <1>2, <1>3 DEF KeyInv

(***************************************************************************)
(* The stages of a registration relate index and leaf as KeyInv says: each *)
(* of the three steps of RegisterLogStatement advances its own log by one  *)
(* stage, and no other thread is at work on that log.                      *)
(***************************************************************************)
LEMMA IndexStep ==
  TypeOK /\ ExclusiveInv /\ IndexInv /\ [Next]_vars => IndexInv'
<1> SUFFICES ASSUME TypeOK, ExclusiveInv, IndexInv, [Next]_vars PROVE IndexInv'
  OBVIOUS
<1> USE DEF registry, tree, snapshot, locks, conns, subscriptions, history, Goto
<1>a. /\ pc \in [Threads -> ConnStates \cup SrvStates]
      /\ msg \in [Threads -> Messages]
      /\ logIDIndex \in [Keys -> Nat \cup {-1}]
      /\ fullmpt \in [Keys -> Leaves]
  BY DEF TypeOK, Trees
<1>b. Srv \in Threads /\ Procs \subseteq Threads /\ Srv \notin Procs
  BY ConstantsAssumption DEF Threads
<1>c. ExclusiveKeys \subseteq Keys /\ ZeroLog \in ExclusiveKeys
  BY DEF ExclusiveKeys, Keys
<1>d. ASSUME NEW t \in Threads, pc[t] \in Handling,
             \A u \in Threads \ {t} : pc'[u] = pc[u], msg' = msg,
             msg[t].log \in ExclusiveKeys,
             InFlight(t, msg[t].log)' => StageInv(t, msg[t].log)'
      PROVE  \A u \in Threads :
               (InFlight(u, msg[t].log) => StageInv(u, msg[t].log))'
  <2> SUFFICES ASSUME NEW u \in Threads \ {t}, InFlight(u, msg[t].log)'
               PROVE  FALSE
    BY <1>d
  <2>1. InFlight(u, msg[t].log) /\ InFlight(t, msg[t].log)
    BY <1>a, <1>d DEF InFlight
  <2> QED
    BY <1>d, <2>1 DEF ExclusiveInv
<1>1. ASSUME NEW p \in Procs, CheckLogID(p) PROVE IndexInv'
  <2>1. \A k \in ExclusiveKeys \ {msg[p].log} : KeyInv(k)'
    BY <1>1, <1>a, <1>b, OtherKeysKeep DEF CheckLogID
  <2>2. ASSUME msg[p].log \in ExclusiveKeys PROVE KeyInv(msg[p].log)'
    <3>1. KeyInv(msg[p].log)
      BY <2>2 DEF IndexInv
    <3>2. StageInv(p, msg[p].log)'
      BY <1>1, <1>a, <1>b DEF CheckLogID, StageInv
    <3>3. \A u \in Threads :
            (InFlight(u, msg[p].log) => StageInv(u, msg[p].log))'
      BY <1>1, <1>a, <1>b, <1>d, <2>2, <3>2 DEF CheckLogID, Handling
    <3> QED
      BY <1>1, <1>a, <1>b, <3>1, <3>3 DEF CheckLogID, KeyInv, OwnRoot
  <2> QED
    BY <1>1, <2>1, <2>2 DEF IndexInv, CheckLogID, ExclusiveKeys
<1>2. ASSUME NEW p \in Procs, SetLogID(p) PROVE IndexInv'
  <2>a. msg[p].log \in Logs
    BY <1>2, FlightLog DEF SetLogID, Handling
  <2>1. \A k \in ExclusiveKeys \ {msg[p].log} : KeyInv(k)'
    BY <1>2, <1>a, <1>b, OtherKeysKeep DEF SetLogID
  <2>2. ASSUME msg[p].log \in ExclusiveKeys PROVE KeyInv(msg[p].log)'
    <3>1. KeyInv(msg[p].log) /\ InFlight(p, msg[p].log)
      BY SMTT(30), <1>2, <2>2 DEF IndexInv, SetLogID, InFlight, Handling
    <3>2. logIDIndex[msg[p].log] = -1
      BY <1>2, <1>b, <2>a, <3>1 DEF SetLogID, KeyInv, StageInv
    <3>3. StageInv(p, msg[p].log)'
      BY <1>2, <1>a, <1>b, <3>2 DEF SetLogID, StageInv
    <3>4. \A u \in Threads :
            (InFlight(u, msg[p].log) => StageInv(u, msg[p].log))'
      BY <1>2, <1>a, <1>b, <1>d, <2>2, <3>3 DEF SetLogID, Handling
    <3> QED
      BY <1>2, <1>a, <1>b, <3>1, <3>4 DEF SetLogID, KeyInv, OwnRoot
  <2> QED
    BY <1>2, <2>1, <2>2 DEF IndexInv, ExclusiveKeys, SetLogID
<1>3. ASSUME NEW p \in Procs, VerifyAppendLog(p) PROVE IndexInv'
  <2>1. \A k \in ExclusiveKeys \ {msg[p].log} : KeyInv(k)'
    BY SMTT(30), <1>3, <1>a, <1>b, OtherKeysKeep DEF VerifyAppendLog
  <2>2. ASSUME msg[p].log \in ExclusiveKeys PROVE KeyInv(msg[p].log)'
    <3>1. KeyInv(msg[p].log) /\ InFlight(p, msg[p].log)
      BY SMTT(30), <1>3, <2>2 DEF IndexInv, VerifyAppendLog, InFlight, Handling
    <3>2. StageInv(p, msg[p].log)'
      BY ZenonT(60), <1>3, <1>a, <1>b, <3>1 DEF VerifyAppendLog, KeyInv, StageInv
    <3>3. \A u \in Threads :
            (InFlight(u, msg[p].log) => StageInv(u, msg[p].log))'
      BY <1>3, <1>a, <1>b, <1>d, <2>2, <3>2 DEF VerifyAppendLog, Handling
    <3> QED
      BY <1>3, <1>a, <1>b, <3>1, <3>3 DEF VerifyAppendLog, KeyInv, OwnRoot
  <2> QED
    BY <1>3, <2>1, <2>2 DEF IndexInv, ExclusiveKeys, VerifyAppendLog
<1>4. ASSUME NEW t \in Threads, CheckIndex(t) PROVE IndexInv'
  <2>a. msg[t] \in ClientMessages \cup ServerMessages
    BY <1>4 DEF CheckIndex, TypeOK, Handling, Threads
  <2>1. \A k \in ExclusiveKeys \ {msg[t].log} : KeyInv(k)'
    BY <1>4, <1>a, OtherKeysKeep DEF CheckIndex
  <2>2. ASSUME msg[t].log \in ExclusiveKeys PROVE KeyInv(msg[t].log)'
    <3>1. KeyInv(msg[t].log) /\ InFlight(t, msg[t].log)
      BY <1>4, <2>2 DEF IndexInv, CheckIndex, InFlight, Handling
    <3>2. StageInv(t, msg[t].log)
      BY <3>1 DEF KeyInv
    <3>3. msg[t].kind = "create" => msg[t].idx = NextLogIndex(msg[t].log)
      <4>1. msg[t].kind = "create" => msg[t].idx = 0
        BY <2>a DEF ClientMessages, ServerMessages
      <4>2. msg[t].kind = "create" => logIDIndex[msg[t].log] = -1
        BY <1>4, <3>2 DEF CheckIndex, StageInv
      <4> QED
        BY <4>1, <4>2 DEF NextLogIndex
    <3>4. pc'[t] \in Handling =>
            pc'[t] = "setIndex" /\ msg[t].idx = NextLogIndex(msg[t].log)
      BY SMTT(30), <1>4, <1>a, <2>a, <3>3
         DEF CheckIndex, Failed, Resume, Handling, ClientMessages, ServerMessages
    <3>5. pc'[t] \in Handling => StageInv(t, msg[t].log)'
      BY <1>4, <1>a, <3>2, <3>4 DEF CheckIndex, StageInv, NextLogIndex
    <3>6. \A u \in Threads :
            (InFlight(u, msg[t].log) => StageInv(u, msg[t].log))'
      BY <1>4, <1>a, <1>d, <2>2, <3>5 DEF CheckIndex, Handling, InFlight
    <3> QED
      BY SMTT(30), <1>4, <1>a, <3>1, <3>6 DEF CheckIndex, KeyInv, OwnRoot
  <2> QED
    BY <1>4, <2>1, <2>2 DEF IndexInv, ExclusiveKeys, CheckIndex
<1>5. ASSUME NEW t \in Threads, SetIndex(t) PROVE IndexInv'
  <2>a. msg[t].log \in Keys /\ msg[t].idx \in Nat
    BY ZenonT(60), <1>5, MessageTyped DEF TypeOK
  <2>1. \A k \in ExclusiveKeys \ {msg[t].log} : KeyInv(k)'
    BY <1>5, <1>a, OtherKeysKeep DEF SetIndex
  <2>2. ASSUME msg[t].log \in ExclusiveKeys PROVE KeyInv(msg[t].log)'
    <3>1. KeyInv(msg[t].log) /\ InFlight(t, msg[t].log)
      BY <1>5, <2>2 DEF IndexInv, SetIndex, InFlight, Handling
    <3>2. StageInv(t, msg[t].log)
      BY <3>1 DEF KeyInv
    <3>3. \A u \in Threads : ~(pc[u] = "insert" /\ msg[u].log = msg[t].log)
      BY <1>5, <2>2, <3>1 DEF SetIndex, ExclusiveInv, InFlight, Handling
    <3>4. OwnRoot(msg[t].log) \/ fullmpt[msg[t].log].idx = msg[t].idx - 1
      <4>1. OwnRoot(msg[t].log) \/ fullmpt[msg[t].log].idx = logIDIndex[msg[t].log]
        BY SMTT(30), <3>1, <3>3 DEF KeyInv
      <4>2. msg[t].idx = logIDIndex[msg[t].log] + 1
        BY <1>5, <3>2 DEF SetIndex, StageInv
      <4>3. logIDIndex[msg[t].log] \in Int
        BY <1>a, <2>a
      <4> QED
        BY <4>1, <4>2, <4>3
    <3>5. StageInv(t, msg[t].log)'
      BY <1>5, <1>a, <2>a, <3>2, <3>4 DEF SetIndex, StageInv, OwnRoot
    <3>6. \A u \in Threads :
            (InFlight(u, msg[t].log) => StageInv(u, msg[t].log))'
      BY <1>5, <1>a, <1>d, <2>2, <3>5 DEF SetIndex, Handling
    <3>7. msg[t].log \in logIDToPubKey \cup {ZeroLog}
      BY <1>5, <3>2 DEF SetIndex, StageInv
    <3>8. msg' = msg /\ logIDToPubKey' = logIDToPubKey /\ pc'[t] = "insert"
      BY <1>5, <1>a DEF SetIndex
    <3>9. msg[t].log \notin Logs \ logIDToPubKey
      BY <3>7, ConstantsAssumption
    <3>10. (\E u \in Threads : pc[u] = "insert" /\ msg[u].log = msg[t].log)'
      BY <3>8
    <3>11. (msg[t].log \in Logs \ logIDToPubKey => logIDIndex[msg[t].log] = -1)'
      BY <3>8, <3>9
    <3> QED
      BY ZenonT(60), <3>6, <3>10, <3>11 DEF KeyInv
  <2> QED
    BY <1>5, <2>1, <2>2 DEF IndexInv, ExclusiveKeys, SetIndex
<1>6. ASSUME NEW t \in Threads, InsertStatement(t) PROVE IndexInv'
  <2>a. /\ msg[t].log \in Keys /\ msg[t].idx \in Nat
        /\ msg[t] \in ClientMessages \cup ServerMessages
    BY ZenonT(60), <1>6, MessageTyped DEF TypeOK, InsertStatement, Handling, Threads
  <2>b. /\ \A k \in Keys \ {msg[t].log} : fullmpt'[k] = fullmpt[k]
        /\ UNCHANGED <<logIDToPubKey, logIDIndex, msg>>
        /\ \A u \in Threads \ {t} : pc'[u] = pc[u]
    BY <1>6, <1>a, <2>a DEF InsertStatement, Inserted
  <2>1. \A k \in ExclusiveKeys \ {msg[t].log} : KeyInv(k)'
    BY <1>a, <2>b, OtherKeysKeep
  <2>2. ASSUME msg[t].log \in ExclusiveKeys PROVE KeyInv(msg[t].log)'
    <3>1. KeyInv(msg[t].log) /\ InFlight(t, msg[t].log)
      BY ZenonT(60), <1>6, <2>2 DEF IndexInv, InsertStatement, InFlight, Handling
    <3>2. StageInv(t, msg[t].log)
      BY <3>1 DEF KeyInv
    <3>3. \/ fullmpt'[msg[t].log] = LeafOf(msg[t])
          \/ fullmpt'[msg[t].log].pay = "root" /\ msg[t].pay = "root"
      BY SMTT(30), <1>6, <1>a, <2>a DEF InsertStatement, Inserted, SameBytes
    <3>s. msg[t].pay = "root" => t = Srv /\ msg[t].log = ZeroLog
      BY <1>6, <1>b, <2>a, FlightLog, ConstantsAssumption
         DEF InsertStatement, Handling, Threads, TypeOK, ClientMessages,
             ServerPayloads
    <3>4. pc'[t] \in Handling => pc'[t] = "ack"
      BY SMTT(30), <1>6, <1>a, <2>a
         DEF InsertStatement, Resume, Handling, ClientMessages, ServerMessages
    <3>5. pc'[t] \in Handling => StageInv(t, msg[t].log)'
      <4>1. pc'[t] \in Handling => t # Srv
        <5>1. t = Srv => msg[t].kind \in {"trigger", "maiden", "force"}
          BY <1>6 DEF InsertStatement, TypeOK, ServerMessages
        <5> QED
          BY <1>6, <1>a, <3>4, <5>1 DEF InsertStatement, Resume
      <4> QED
        BY ZenonT(60), <1>6, <3>3, <3>4, <3>s, <4>1 DEF InsertStatement, StageInv, LeafOf
    <3>6. \A u \in Threads :
            (InFlight(u, msg[t].log) => StageInv(u, msg[t].log))'
      BY SMTT(30), <1>6, <1>a, <1>d, <2>2, <3>5 DEF InsertStatement, Handling, InFlight
    <3>7. (\/ fullmpt[msg[t].log].idx = logIDIndex[msg[t].log]
           \/ OwnRoot(msg[t].log))'
      <4>1. logIDIndex'[msg[t].log] = msg[t].idx /\ msg' = msg
        BY <1>6, <2>b, <3>2 DEF InsertStatement, StageInv
      <4>2. CASE fullmpt'[msg[t].log] = LeafOf(msg[t])
        <5>1. fullmpt'[msg[t].log].idx = msg[t].idx
          BY <4>2 DEF LeafOf
        <5> QED
          BY <4>1, <5>1
      <4>3. CASE fullmpt'[msg[t].log].pay = "root" /\ msg[t].pay = "root"
        BY <3>s, <4>1, <4>3 DEF OwnRoot
      <4> QED
        BY SMTT(30), <3>3, <4>2, <4>3
    <3> QED
      BY ZenonT(60), <1>6, <3>1, <3>6, <3>7 DEF InsertStatement, KeyInv
  <2> QED
    BY <1>6, <2>1, <2>2 DEF IndexInv, ExclusiveKeys, InsertStatement
<1>e. ASSUME pc[Srv] \notin Handling, pc' = [pc EXCEPT ![Srv] = "readIndex"],
             \A u \in Threads \ {Srv} : msg'[u] = msg[u],
             msg'[Srv].log = ZeroLog, msg'[Srv].kind # "create",
             UNCHANGED <<logIDIndex, fullmpt>>,
             logIDToPubKey' \in {logIDToPubKey, logIDToPubKey \cup {ZeroLog}}
      PROVE  IndexInv'
  <2>1. \A u \in Threads \ {Srv} : pc'[u] = pc[u]
    BY <1>a, <1>e
  <2>2. \A k \in ExclusiveKeys \ {ZeroLog} : KeyInv(k)'
    BY ZenonT(60), <1>e, <1>b, <2>1, OtherKeysKeep DEF Handling
  <2>3. KeyInv(ZeroLog)
    BY <1>c DEF IndexInv
  <2>4. \A u \in Threads \ {Srv} : pc[u] \in Handling => msg[u].log # ZeroLog
    BY FlightLog, ConstantsAssumption DEF Threads
  <2>5. \A u \in Threads : (InFlight(u, ZeroLog) => StageInv(u, ZeroLog))'
    <3> SUFFICES ASSUME NEW u \in Threads, InFlight(u, ZeroLog)'
                 PROVE  StageInv(u, ZeroLog)'
      OBVIOUS
    <3>1. u = Srv
      BY <1>e, <2>1, <2>4 DEF InFlight
    <3> QED
      BY <1>a, <1>b, <1>e, <3>1 DEF StageInv
  <2>6. \A u \in Threads : ~(pc[u] = "insert" /\ msg[u].log = ZeroLog)
    BY <1>e, <2>4 DEF Handling
  <2>7. KeyInv(ZeroLog)'
    BY <1>e, <2>3, <2>5, <2>6, ConstantsAssumption DEF KeyInv, OwnRoot
  <2> QED
    BY <2>2, <2>7 DEF IndexInv, ExclusiveKeys
<1>7. CASE Trigger
  BY <1>7, <1>a, <1>b, <1>e DEF Trigger, State, Handling
<1>8. CASE MaidenStatement
  BY <1>8, <1>a, <1>b, <1>e DEF MaidenStatement, State, Handling
<1>9. CASE WalletCommits
  BY <1>9, <1>a, <1>b, <1>e DEF WalletCommits, State, Handling
<1>10. ASSUME NEW p \in Procs,
              \/ Connect(p) \/ HangUp(p) \/ Close(p) \/ Ack(p)
              \/ SubscribeProofUpdates(p) \/ UnsubscribeProofUpdates(p)
       PROVE  IndexInv'
  <2>1. /\ \A u \in Threads \ {p} : pc'[u] = pc[u] /\ msg'[u] = msg[u]
        /\ pc'[p] \notin Handling /\ pc[p] # "insert"
        /\ UNCHANGED <<logIDToPubKey, logIDIndex, fullmpt>>
    BY ZenonT(60), <1>10, <1>a, <1>b DEF Connect, HangUp, Close, Ack,
       SubscribeProofUpdates, UnsubscribeProofUpdates, Handling
  <2> QED
    BY SMTT(30), <1>b, <2>1, UntouchedKeep
<1>11. ASSUME NEW p \in Procs, NEW m \in ClientMessages, Receive(p, m)
       PROVE  IndexInv'
  <2>1. /\ \A u \in Threads \ {p} : pc'[u] = pc[u] /\ msg'[u] = msg[u]
        /\ \/ pc'[p] = "checkID"
           \/ pc'[p] = "verify" /\ msg'[p].kind # "create"
        /\ pc[p] # "insert"
        /\ UNCHANGED <<logIDToPubKey, logIDIndex, fullmpt>>
    BY SMTT(30), <1>11, <1>a, <1>b DEF Receive
  <2> QED
    BY ZenonT(60), <1>b, <2>1, UntouchedKeep
<1>12. ASSUME \/ StartCommit \/ CommitNoChanges \/ CommitBegin \/ CommitCopy
              \/ LockProcessors \/ CommitEnd \/ WalletFails \/ CommitReturns
       PROVE  IndexInv'
  <2>1. /\ \A u \in Threads \ {Srv} : pc'[u] = pc[u] /\ msg'[u] = msg[u]
        /\ pc'[Srv] \notin Handling /\ pc[Srv] # "insert"
        /\ UNCHANGED <<logIDToPubKey, logIDIndex, fullmpt>>
    BY SMTT(30), <1>12, <1>a, <1>b DEF StartCommit, CommitNoChanges, CommitBegin,
       CommitCopy, LockProcessors, CommitEnd, WalletFails, CommitReturns, Handling
  <2> QED
    BY ZenonT(60), <1>b, <2>1, UntouchedKeep
<1>13. ASSUME \/ UNCHANGED vars
              \/ \E p \in Procs : SendProofs(p)
       PROVE  IndexInv'
  <2>1. UNCHANGED <<pc, msg, logIDToPubKey, logIDIndex, fullmpt>>
    BY ZenonT(60), <1>13 DEF SendProofs, vars
  <2>2. ASSUME NEW t \in Threads, NEW k
        PROVE  InFlight(t, k)' <=> InFlight(t, k)
    BY SMTT(30), <2>1 DEF InFlight
  <2>3. ASSUME NEW t \in Threads, NEW k
        PROVE  StageInv(t, k)' <=> StageInv(t, k)
    <3>1. OwnRoot(k)' <=> OwnRoot(k)
      BY <2>1 DEF OwnRoot
    <3> QED
      BY <2>1, <3>1 DEF StageInv
  <2> QED
    BY ZenonT(60), <2>1, <2>2, <2>3 DEF IndexInv, KeyInv, ExclusiveKeys, OwnRoot
<1> QED
  BY <1>1, <1>2, <1>3, <1>4, <1>5, <1>6, <1>7, <1>8, <1>9, <1>10, <1>11, <1>12,
     <1>13 DEF Next, Connection, RegisterLogStatement, Run, Commit
=============================================================================

-------------------------- MODULE LogServerProofs ---------------------------
(***************************************************************************)
(* Proofs about LogServer: the invariant holds, and with it the properties *)
(* of the server, for any number of connections, logs and statements.      *)
(***************************************************************************)
EXTENDS LogServerLogProofs

\* A new server satisfies the invariant (NewServer).
LEMMA InitInv == Init => IInv
<1> SUFFICES ASSUME Init PROVE IInv
  OBVIOUS
<1>1. TypeOK
  BY InitTyped
<1>2. /\ pc[Srv] \in {"trigger", "maiden"}
      /\ \A t \in Threads : pc[t] \in {"trigger", "maiden", "none"}
  BY DEF Init, Threads
<1>3. \A t \in Threads : pc[t] \notin Handling
  BY <1>2 DEF Handling
<1>4. \A k \in ExclusiveKeys : k \in Keys
  BY DEF ExclusiveKeys, Keys
<1>5. LockInv /\ SnapshotInv /\ ExclusiveInv
  BY <1>2, <1>3 DEF Init, LockInv, SnapshotInv, ExclusiveInv, InFlight,
     CommitStages, EmptyTree
<1>8. AliasInv
  <2>1. fullmpt[ZeroLog].pay = "none"
    BY DEF Init, EmptyTree, NoLeaf, Keys
  <2> QED
    BY <1>2, <2>1 DEF AliasInv, OwnRoot, Registering
<1>6. IndexInv
  BY <1>3, <1>4 DEF Init, IndexInv, KeyInv, InFlight, EmptyTree, NoLeaf
<1>7. AckedInv /\ CommittedInv /\ ViewInv
  BY <1>4 DEF Init, AckedInv, CommittedInv, ViewInv, EmptyTree, UpTo
<1> QED
  BY <1>1, <1>5, <1>6, <1>7, <1>8 DEF IInv

\* Every step of the server keeps it, part by part.
LEMMA NextInv == IInv /\ [Next]_vars => IInv'
  BY NextTyped, LockStep, SnapshotStep, ExclusiveStep, IndexStep, AckedStep,
     CommittedStep, AliasStep DEF IInv

\* The invariant holds in every state of the server (server.go, logprocessor.go).
THEOREM InvHolds == Spec => []IInv
<1>1. Init => IInv
  BY InitInv
<1>2. IInv /\ [Next]_vars => IInv'
  BY NextInv
<1> QED
  BY <1>1, <1>2, PTL DEF Spec

-----------------------------------------------------------------------------
(***************************************************************************)
(* The root committed last is always the root of the tree that is kept to  *)
(* serve proofs from, outside a running Commit (server.go, Commit).        *)
(***************************************************************************)
THEOREM CommitmentCorrect == Spec => []CommitmentMatchesTree
<1>1. IInv => CommitmentMatchesTree
  BY ConstantsAssumption
     DEF IInv, LockInv, SnapshotInv, CommitmentMatchesTree, CommitStages, Free
<1> QED
  BY <1>1, InvHolds, PTL

(***************************************************************************)
(* No connection is closed by its own goroutine while Commit still has to  *)
(* send it a proof update (Commit, unregisterProcessor).                   *)
(***************************************************************************)
THEOREM UpdatesRegistered == Spec => []UpdatesGoToRegistered
<1>1. IInv => UpdatesGoToRegistered
  BY DEF IInv, LockInv, UpdatesGoToRegistered
<1> QED
  BY <1>1, InvHolds, PTL

(***************************************************************************)
(* Every delta, laid over the previous committed tree, gives the new one:  *)
(* proof updates lose no statement (NewDeltaMPT, Reset, Insert).           *)
(***************************************************************************)
THEOREM DeltaCorrect == Spec => DeltaCoversCommit
<1>1. ASSUME IInv, [Next]_vars
      PROVE  [LastCommitMpt' # LastCommitMpt
                => LastCommitMpt' = Overlay(LastCommitMpt, lastDelta', Keys)]_vars
  <2>1. CASE CommitCopy
    <3>1. LastCommitMpt' = fullmpt /\ lastDelta' = [k \in changed |-> fullmpt[k]]
      BY <2>1 DEF CommitCopy
    <3>2. \A k \in Keys \ changed : fullmpt[k] = LastCommitMpt[k]
      BY <1>1 DEF IInv, SnapshotInv
    <3>3. \A k \in Keys : Overlay(LastCommitMpt, lastDelta', Keys)[k] = fullmpt[k]
      BY <3>1, <3>2 DEF Overlay
    <3>4. fullmpt \in [Keys -> Leaves]
      BY <1>1 DEF IInv, TypeOK, Trees
    <3>5. fullmpt = Overlay(LastCommitMpt, lastDelta', Keys)
      BY <3>3, <3>4 DEF Overlay
    <3> QED
      BY ZenonT(60), <3>1, <3>5
  <2>2. ASSUME NEW p \in Procs, SendProofs(p) PROVE UNCHANGED LastCommitMpt
    BY <2>2 DEF SendProofs, snapshot
  <2> QED
    BY SMTT(30), <1>1, <2>1, <2>2, CommitFrame DEF IInv
<1> QED
  BY <1>1, InvHolds, PTL DEF Spec, DeltaCoversCommit

(***************************************************************************)
(* While no two connections work on one log at a time, an acknowledged     *)
(* statement is in the tree or superseded by a later one of its log        *)
(* (ProcessCreateLog, ProcessAppendLog).                                   *)
(***************************************************************************)
THEOREM AckedKept ==
  ASSUME ~Overlapping
  PROVE  Spec => []AckedInTree
<1>1. IInv => AckedInTree
  <2> SUFFICES ASSUME IInv, NEW s \in acked
               PROVE  \/ fullmpt[s.log] = [idx |-> s.idx, pay |-> s.pay]
                      \/ fullmpt[s.log].idx > s.idx
    BY DEF AckedInTree
  <2>1. s.log \in Logs /\ s.idx \in Nat /\ s.log \in ExclusiveKeys
    BY DEF IInv, TypeOK, Statements, ExclusiveKeys, Keys
  <2>2. fullmpt[s.log].idx \in Int
    BY <2>1 DEF IInv, TypeOK, Trees, Leaves, Keys
  <2> QED
    BY <2>1, <2>2 DEF IInv, AckedInv, UpTo
<1> QED
  BY <1>1, InvHolds, PTL

-----------------------------------------------------------------------------
(***************************************************************************)
(* Steps of a connection between two stores, by which the registry stays   *)
(* as it is (RegisterLogID, RegisterLogStatement).                         *)
(***************************************************************************)
Between(p) ==
  \/ pc'[p] \notin Handling
  \/ pc'[p] = pc[p] /\ msg'[p] = msg[p]
  \/ pc'[p] = "checkID" /\ msg'[p].kind = "create"
  \/ pc'[p] = "verify" /\ msg'[p].kind # "create"
  \/ /\ msg'[p] = msg[p]
     /\ \/ pc[p] = "checkID" /\ pc'[p] = "setID" /\ msg[p].log \notin logIDToPubKey
        \/ pc[p] = "verify" /\ pc'[p] = "readIndex" /\ msg[p].log \in logIDToPubKey
        \/ /\ pc[p] = "readIndex" /\ pc'[p] = "setIndex"
           /\ msg[p].idx = logIDIndex[msg[p].log] + 1
        \/ pc[p] = "insert" /\ pc'[p] = "ack"

\* They keep what overlapping connections rely on.
LEMMA OverlapBetween ==
  ASSUME TypeOK, KeyedInv, DecidedInv, HeldInv, acked' = acked,
         \A l \in Logs : /\ logIDIndex'[l] = logIDIndex[l]
                         /\ l \in logIDToPubKey' <=> l \in logIDToPubKey,
         \A p \in Procs : Between(p)
  PROVE  KeyedInv' /\ DecidedInv' /\ HeldInv'
<1>1. \A p \in Procs : pc[p] \in Handling => msg[p].log \in Logs
  BY FlightLog
<1>2. KeyedInv'
  BY <1>1 DEF KeyedInv, Between, Handling
<1>3. DecidedInv'
  BY <1>1 DEF KeyedInv, DecidedInv, Between, Handling
<1>4. \A p \in Procs : pc'[p] \in {"insert", "ack"}
        => pc[p] \in {"insert", "ack"} /\ msg'[p] = msg[p] /\ msg[p].log \in Logs
  BY <1>1 DEF Between, Handling
<1>5. \A s \in acked : s.log \in Logs
  BY DEF TypeOK, Statements
<1>6. HeldInv'
  BY <1>4, <1>5 DEF HeldInv, Holds, OneStatementPerIndex
<1> QED
  BY <1>2, <1>3, <1>6

(***************************************************************************)
(* Every step of the server keeps them while one connection at a time      *)
(* decides on a log: the index a statement is stored under is then new     *)
(* (RegisterLogID, RegisterLogStatement, Ack).                             *)
(***************************************************************************)
LEMMA OverlapStep ==
  OverlapInv /\ OneDecides /\ [Next]_vars => OverlapInv'
<1> SUFFICES ASSUME OverlapInv, OneDecides, [Next]_vars PROVE OverlapInv'
  OBVIOUS
<1> USE DEF registry, tree, snapshot, locks, conns, subscriptions, history, Goto
<1>a. TypeOK /\ KeyedInv /\ DecidedInv /\ HeldInv /\ TypeOK'
  BY NextTyped DEF OverlapInv
<1>b. /\ pc \in [Threads -> ConnStates \cup SrvStates]
      /\ msg \in [Threads -> Messages]
      /\ logIDIndex \in [Keys -> Nat \cup {-1}]
      /\ Procs \subseteq Threads /\ Srv \notin Procs /\ Logs \subseteq Keys
      /\ ZeroLog \notin Logs
  BY <1>a, ConstantsAssumption DEF TypeOK, Threads, Keys
<1>c. \A p \in Procs : pc[p] \in Handling =>
        msg[p].log \in Logs /\ msg[p].idx \in Nat /\ msg[p].kind \in {"create", "append"}
  BY <1>a DEF TypeOK, ClientMessages
<1> SUFFICES KeyedInv' /\ DecidedInv' /\ HeldInv'
  BY <1>a DEF OverlapInv
<1>1. ASSUME NEW p \in Procs, SetLogID(p)
      PROVE  KeyedInv' /\ DecidedInv' /\ HeldInv'
  <2>1. /\ pc[p] = "setID" /\ pc'[p] = "readIndex" /\ msg' = msg
        /\ msg[p].kind = "create" /\ msg[p].log \in Logs
        /\ logIDToPubKey' = logIDToPubKey \cup {msg[p].log}
        /\ UNCHANGED <<logIDIndex, acked>>
        /\ \A q \in Procs \ {p} : pc'[q] = pc[q]
    BY <1>a, <1>b, <1>c, <1>1 DEF SetLogID, KeyedInv, Handling
  <2>2. logIDIndex[msg[p].log] = -1
    BY <1>a, <2>1 DEF KeyedInv, DecidedInv
  <2>3. \A q \in Procs \ {p} : pc[q] = "setID" => msg[q].log # msg[p].log
    BY <1>a, <2>1 DEF OneDecides, Deciding, KeyedInv
  <2>4. KeyedInv' /\ DecidedInv'
    BY <1>a, <2>1, <2>2, <2>3 DEF KeyedInv, DecidedInv
  <2>5. HeldInv'
    BY <1>a, <2>1 DEF HeldInv, Holds, OneStatementPerIndex
  <2> QED
    BY <2>4, <2>5
<1>2. ASSUME NEW p \in Procs, SetIndex(p)
      PROVE  KeyedInv' /\ DecidedInv' /\ HeldInv'
  <2> DEFINE l == msg[p].log
             i == msg[p].idx
  <2>1. /\ pc[p] = "setIndex" /\ pc'[p] = "insert" /\ msg' = msg
        /\ l \in Logs /\ i \in Nat
        /\ logIDIndex' = [logIDIndex EXCEPT ![l] = i]
        /\ UNCHANGED <<logIDToPubKey, acked>>
        /\ \A q \in Procs \ {p} : pc'[q] = pc[q]
    BY <1>b, <1>c, <1>2 DEF SetIndex, Handling
  <2>2. i = logIDIndex[l] + 1 /\ l \in logIDToPubKey
    BY <1>a, <2>1 DEF DecidedInv, KeyedInv
  <2>3. \A k \in Logs : /\ logIDIndex'[k] = IF k = l THEN i ELSE logIDIndex[k]
                        /\ logIDIndex[k] \in Int /\ logIDIndex[k] <= logIDIndex'[k]
    BY <1>b, <2>1, <2>2
  <2>4. \A q \in Procs \ {p} : Deciding(q, msg[q].log) /\ msg[q].log \in Logs => msg[q].log # l
    BY <2>1 DEF OneDecides, Deciding
  <2>5. \A q \in Procs \ {p} :
          /\ pc[q] = "setIndex" => msg[q].log # l
          /\ pc[q] = "readIndex" /\ msg[q].kind = "create" => msg[q].log # l
    BY <1>c, <2>4 DEF Deciding, Handling
  <2>6. KeyedInv'
    BY <1>a, <2>1, <2>2, <2>3 DEF KeyedInv
  <2>7. DecidedInv'
    BY <1>a, <1>c, <2>1, <2>3, <2>5 DEF DecidedInv, Handling
  <2>8. \A q \in Procs \ {p} : pc[q] \in {"insert", "ack"} => ~(msg[q].log = l /\ msg[q].idx = i)
    BY <1>a, <1>c, <2>1, <2>2, <2>3 DEF HeldInv, Handling
  <2>9. \A s \in acked : s.log \in Logs /\ s.idx \in Nat /\ ~(s.log = l /\ s.idx = i)
    BY <1>a, <2>1, <2>2, <2>3 DEF HeldInv, TypeOK, Statements
  <2>10. \A q \in Procs : pc'[q] \in {"insert", "ack"} => msg'[q].idx <= logIDIndex'[msg'[q].log]
    BY <1>a, <1>c, <2>1, <2>3 DEF HeldInv, Handling
  <2>11. \A s \in acked' : s.idx <= logIDIndex'[s.log]
    BY <1>a, <2>1, <2>3, <2>9 DEF HeldInv
  <2>12. \A q, r \in Procs : Holds(q, msg[r].log, msg[r].idx)' /\ pc'[r] \in {"insert", "ack"} => q = r
    BY <1>a, <2>1, <2>8 DEF HeldInv, Holds
  <2>13. \A q \in Procs : \A s \in acked' : ~Holds(q, s.log, s.idx)'
    BY <1>a, <2>1, <2>9 DEF HeldInv, Holds
  <2>14. HeldInv'
    BY <1>a, <2>1, <2>10, <2>11, <2>12, <2>13 DEF HeldInv, Holds, OneStatementPerIndex
  <2> QED
    BY <2>6, <2>7, <2>14
<1>3. ASSUME NEW p \in Procs, Ack(p)
      PROVE  KeyedInv' /\ DecidedInv' /\ HeldInv'
  <2> DEFINE s == [log |-> msg[p].log, idx |-> msg[p].idx, pay |-> msg[p].pay]
  <2>1. /\ pc[p] = "ack" /\ pc'[p] = "idle" /\ msg' = msg
        /\ acked' = acked \cup {s} /\ UNCHANGED <<logIDToPubKey, logIDIndex>>
        /\ \A q \in Procs \ {p} : pc'[q] = pc[q]
    BY <1>b, <1>3 DEF Ack
  <2>2. KeyedInv' /\ DecidedInv'
    BY <1>a, <2>1 DEF KeyedInv, DecidedInv
  <2>3. Holds(p, s.log, s.idx) /\ s.log = msg[p].log /\ s.idx = msg[p].idx
    BY <2>1 DEF Holds
  <2>4. \A r \in acked : ~(r.log = s.log /\ r.idx = s.idx)
    BY <1>a, <2>3 DEF HeldInv, Holds
  <2>5. \A q \in Procs \ {p} : ~Holds(q, s.log, s.idx)
    BY <1>a, <2>1, <2>3 DEF HeldInv
  <2>6. s.idx <= logIDIndex[s.log]
    BY <1>a, <2>1, <2>3 DEF HeldInv
  <2>7. \A q \in Procs : \A r \in acked' : ~Holds(q, r.log, r.idx)'
    BY <1>a, <2>1, <2>5 DEF HeldInv, Holds
  <2>8. OneStatementPerIndex'
    BY <1>a, <2>1, <2>4 DEF HeldInv, OneStatementPerIndex
  <2>9. HeldInv'
    BY <1>a, <2>1, <2>6, <2>7, <2>8 DEF HeldInv, Holds
  <2> QED
    BY <2>2, <2>9
<1>d. \A l \in Logs : l \in logIDToPubKey \cup {ZeroLog} <=> l \in logIDToPubKey
  BY <1>b
<1>4. ASSUME NEW p \in Procs,
             \/ Connect(p) \/ HangUp(p) \/ Close(p)
             \/ SubscribeProofUpdates(p) \/ UnsubscribeProofUpdates(p)
      PROVE  KeyedInv' /\ DecidedInv' /\ HeldInv'
  <2>1. UNCHANGED <<logIDToPubKey, logIDIndex, acked, msg>>
    BY <1>4 DEF Connect, HangUp, Close, SubscribeProofUpdates, UnsubscribeProofUpdates
  <2>2. \A q \in Procs : pc'[q] = pc[q] \/ pc'[q] \in {"idle", "close", "closed"}
    BY <1>4, <1>b DEF Connect, HangUp, Close, SubscribeProofUpdates, UnsubscribeProofUpdates
  <2> QED
    BY <1>a, <2>1, <2>2, OverlapBetween DEF Between, Handling
<1>5. ASSUME NEW p \in Procs, NEW m \in ClientMessages, Receive(p, m)
      PROVE  KeyedInv' /\ DecidedInv' /\ HeldInv'
  <2>1. UNCHANGED <<logIDToPubKey, logIDIndex, acked>>
    BY <1>5 DEF Receive
  <2>2. \A q \in Procs \ {p} : pc'[q] = pc[q] /\ msg'[q] = msg[q]
    BY <1>5, <1>b DEF Receive
  <2>3. /\ msg'[p] = m
        /\ pc'[p] = IF m.kind = "create" THEN "checkID" ELSE "verify"
    BY <1>5, <1>b DEF Receive
  <2> QED
    BY <1>a, <2>1, <2>2, <2>3, OverlapBetween DEF Between
<1>6. ASSUME NEW p \in Procs, CheckLogID(p) \/ VerifyAppendLog(p)
      PROVE  KeyedInv' /\ DecidedInv' /\ HeldInv'
  <2>1. UNCHANGED <<logIDToPubKey, logIDIndex, acked, msg>>
    BY <1>6 DEF CheckLogID, VerifyAppendLog
  <2>2. \A q \in Procs \ {p} : pc'[q] = pc[q]
    BY <1>6, <1>b DEF CheckLogID, VerifyAppendLog
  <2>3. \/ pc'[p] = "close"
        \/ pc[p] = "checkID" /\ pc'[p] = "setID" /\ msg[p].log \notin logIDToPubKey
        \/ pc[p] = "verify" /\ pc'[p] = "readIndex" /\ msg[p].log \in logIDToPubKey
    BY <1>6, <1>b DEF CheckLogID, VerifyAppendLog
  <2> QED
    BY <1>a, <2>1, <2>2, <2>3, OverlapBetween DEF Between, Handling
<1>7. ASSUME NEW p \in Procs, CheckIndex(p) \/ InsertStatement(p)
      PROVE  KeyedInv' /\ DecidedInv' /\ HeldInv'
  <2>1. UNCHANGED <<logIDToPubKey, logIDIndex, acked, msg>>
    BY ZenonT(60), <1>7 DEF CheckIndex, InsertStatement
  <2>2. \A q \in Procs \ {p} : pc'[q] = pc[q]
    BY <1>7, <1>b DEF CheckIndex, InsertStatement
  <2>3. pc[p] \in {"readIndex", "insert"} /\ msg[p].kind \in {"create", "append"}
    BY <1>7, <1>c DEF CheckIndex, InsertStatement, Handling
  <2>4. CASE CheckIndex(p)
    <3>1. \/ pc'[p] = "setIndex" /\ msg[p].idx = logIDIndex[msg[p].log] + 1
          \/ /\ pc'[p] = Failed(msg[p].kind)
             /\ msg[p].idx # logIDIndex[msg[p].log] + 1
      BY <2>4, <1>b DEF CheckIndex, NextLogIndex
    <3>2. msg[p].kind = "create" => msg[p].idx = 0 /\ logIDIndex[msg[p].log] = -1
      BY <1>a, <2>4 DEF CheckIndex, DecidedInv, TypeOK, ClientMessages, Handling
    <3>3. pc[p] = "readIndex" /\ (pc'[p] = "close" \/
             (pc'[p] = "setIndex" /\ msg[p].idx = logIDIndex[msg[p].log] + 1))
      BY <2>3, <2>4, <3>1, <3>2 DEF CheckIndex, Failed
    <3> QED
      BY <1>a, <2>1, <2>2, <3>3, OverlapBetween DEF Between, Handling
  <2>5. CASE InsertStatement(p)
    <3>1. pc[p] = "insert" /\ pc'[p] = "ack"
      BY <1>b, <2>3, <2>5 DEF InsertStatement, Resume
    <3> QED
      BY <1>a, <2>1, <2>2, <3>1, OverlapBetween DEF Between
  <2> QED
    BY <1>7, <2>4, <2>5
<1>8. ASSUME RegisterLogStatement(Srv) \/ Run \/ Commit \/ UNCHANGED vars
      PROVE  KeyedInv' /\ DecidedInv' /\ HeldInv'
  <2>1. ASSUME RegisterLogStatement(Srv)
        PROVE  /\ acked' = acked /\ logIDToPubKey' = logIDToPubKey
               /\ \A l \in Logs : logIDIndex'[l] = logIDIndex[l]
               /\ \A q \in Procs : pc'[q] = pc[q] /\ msg'[q] = msg[q]
    <3>1. msg[Srv].log = ZeroLog
      BY <1>a, <2>1, FlightLog
         DEF RegisterLogStatement, CheckIndex, SetIndex, InsertStatement, Handling
    <3> QED
      BY <1>b, <2>1, <3>1 DEF RegisterLogStatement, CheckIndex, SetIndex, InsertStatement
  <2>2. ASSUME Run \/ Commit \/ UNCHANGED vars
        PROVE  /\ acked' = acked /\ logIDIndex' = logIDIndex
               /\ logIDToPubKey' \in {logIDToPubKey, logIDToPubKey \cup {ZeroLog}}
    BY <2>2 DEF Run, Trigger, MaidenStatement, StartCommit, Commit, CommitNoChanges,
       CommitBegin, CommitCopy, LockProcessors, SendProofs, CommitEnd, WalletCommits,
       WalletFails, CommitReturns, vars
  <2>3. ASSUME Run \/ Commit \/ UNCHANGED vars
        PROVE  \A q \in Procs : pc'[q] = pc[q] /\ msg'[q] = msg[q]
    BY <1>b, <2>3 DEF Run, Trigger, MaidenStatement, StartCommit, State, Commit,
       CommitNoChanges, CommitBegin, CommitCopy, LockProcessors, SendProofs, CommitEnd,
       WalletCommits, WalletFails, CommitReturns, vars
  <2>4. /\ acked' = acked
        /\ \A l \in Logs : /\ logIDIndex'[l] = logIDIndex[l]
                           /\ l \in logIDToPubKey' <=> l \in logIDToPubKey
        /\ \A q \in Procs : pc'[q] = pc[q] /\ msg'[q] = msg[q]
    BY <1>8, <1>d, <2>1, <2>2, <2>3
  <2> QED
    BY <1>a, <2>4, OverlapBetween DEF Between
<1> QED
  BY <1>1, <1>2, <1>3, <1>4, <1>5, <1>6, <1>7, <1>8
     DEF Next, Connection, RegisterLogStatement, Threads

\* What overlapping connections rely on holds as long as one at a time decides
\* on a log (RegisterLogID, RegisterLogStatement).
LEMMA OverlapHolds == Spec /\ []OneDecides => []OverlapInv
<1>1. Init => OverlapInv
  <2> SUFFICES ASSUME Init PROVE OverlapInv
    OBVIOUS
  <2>1. \A p \in Procs : pc[p] = "none"
    BY ConstantsAssumption DEF Init, Threads
  <2>2. acked = {} /\ \A l \in Logs : logIDIndex[l] = -1
    BY DEF Init, Keys
  <2>3. KeyedInv /\ DecidedInv
    BY <2>1, <2>2 DEF KeyedInv, DecidedInv
  <2>4. HeldInv
    BY <2>1, <2>2 DEF HeldInv, Holds, OneStatementPerIndex
  <2> QED
    BY <2>3, <2>4, InitTyped DEF OverlapInv
<1>2. OverlapInv /\ OneDecides /\ [Next]_vars => OverlapInv'
  BY OverlapStep
<1> QED
  BY <1>1, <1>2, PTL DEF Spec

(***************************************************************************)
(* With any number of connections that have statements for one log in      *)
(* flight, the server acknowledges at most one statement for each index of *)
(* a log, unless two of them decide on the log at the same time: what      *)
(* happens while others wait for a lock, insert or acknowledge is of no    *)
(* account, and a second statement for an index can only come from those   *)
(* two gaps of RegisterLogID and RegisterLogStatement.                     *)
(***************************************************************************)
THEOREM OnePerIndex == Spec /\ []OneDecides => []OneStatementPerIndex
<1>1. OverlapInv => OneStatementPerIndex
  BY DEF OverlapInv, HeldInv
<1> QED
  BY <1>1, OverlapHolds, PTL

(***************************************************************************)
(* Under that condition alone, the error that ProcessCreateLog ignores     *)
(* does not occur: also with appends for the log in flight, which its key  *)
(* admits before it has an index (ProcessCreateLog, ProcessAppendLog).     *)
(***************************************************************************)
THEOREM CreateNeverFails == Spec /\ []OneDecides => []CreateIndexIsZero
<1>1. OverlapInv => CreateIndexIsZero
  BY DEF OverlapInv, DecidedInv, CreateIndexIsZero, NextLogIndex
<1> QED
  BY <1>1, OverlapHolds, PTL

-----------------------------------------------------------------------------
(***************************************************************************)
(* While no two connections work on one log at a time, logs grow statement *)
(* by statement: neither the index of a log nor its leaf ever skips or     *)
(* goes back (RegisterLogStatement).                                       *)
(***************************************************************************)
THEOREM GrowByOne ==
  ASSUME ~Overlapping
  PROVE  Spec => LogsGrowByOne
<1> DEFINE Grows ==
      \A k \in Keys :
        /\ logIDIndex'[k] \in {logIDIndex[k], logIDIndex[k] + 1}
        /\ fullmpt'[k] = fullmpt[k] \/ fullmpt'[k].idx = fullmpt[k].idx + 1
<1>1. ASSUME IInv, [Next]_vars PROVE [Grows]_vars
  <2>1. \A k \in Keys : k \in ExclusiveKeys
    BY DEF ExclusiveKeys
  <2>2. \A k \in Keys :
          fullmpt'[k] = fullmpt[k] \/ fullmpt'[k].idx = fullmpt[k].idx + 1
    <3>1. ASSUME NEW t \in Threads, InsertStatement(t), NEW k \in Keys
          PROVE  fullmpt'[k] = fullmpt[k] \/ fullmpt'[k].idx = fullmpt[k].idx + 1
      BY <1>1, <2>1, <3>1, LeafAdvances DEF IInv
    <3> QED
      BY <1>1, <3>1, TreeFrame DEF IInv
  <2>3. ASSUME NEW t \in Threads, SetIndex(t), NEW k \in Keys
        PROVE  logIDIndex'[k] \in {logIDIndex[k], logIDIndex[k] + 1}
    <3>1. msg[t].log \in Keys
      BY ZenonT(60), <1>1, MessageTyped DEF IInv, TypeOK
    <3>2. msg[t].idx = logIDIndex[msg[t].log] + 1
      BY <1>1, <2>1, <2>3, <3>1
         DEF IInv, IndexInv, KeyInv, StageInv, InFlight, SetIndex, Handling
    <3> QED
      BY <1>1, <2>3, <3>1, <3>2 DEF SetIndex, IInv, TypeOK
  <2>4. \/ UNCHANGED logIDIndex
        \/ \E t \in Threads : SetIndex(t)
    <3> USE DEF registry, tree, snapshot, locks, conns, subscriptions, history
    <3>1. ASSUME NEW p \in Procs, Connection(p) PROVE UNCHANGED logIDIndex
      BY <1>1, <3>1, ConnectionFrame DEF IInv
    <3>2. ASSUME NEW t \in Threads, CheckIndex(t) \/ InsertStatement(t)
          PROVE  UNCHANGED logIDIndex
      BY ZenonT(60), <3>2 DEF CheckIndex, InsertStatement
    <3>3. ASSUME Run \/ Commit PROVE UNCHANGED logIDIndex
      BY <3>3 DEF Run, Trigger, MaidenStatement, StartCommit, Commit,
         CommitNoChanges, CommitBegin, CommitCopy, LockProcessors, SendProofs,
         CommitEnd, WalletCommits, WalletFails, CommitReturns
    <3>4. ASSUME UNCHANGED vars PROVE UNCHANGED logIDIndex
      BY <3>4 DEF vars
    <3> QED
      BY <1>1, <3>1, <3>2, <3>3, <3>4 DEF Next, RegisterLogStatement
  <2> QED
    BY <2>2, <2>3, <2>4
<1>2. Spec => [][Grows]_vars
  BY <1>1, InvHolds, PTL DEF Spec
<1> QED
  BY <1>2 DEF LogsGrowByOne

(***************************************************************************)
(* Under the same condition, a pushed update brings a peer to the          *)
(* committed statement, and never back (SendProofs).                       *)
(***************************************************************************)
THEOREM UpdatesAdvance ==
  ASSUME ~Overlapping
  PROVE  Spec => PushedUpdatesAdvance
<1> DEFINE Advances ==
      \A p \in Procs, k \in Keys :
        view'[p][k] # view[p][k] =>
          /\ view'[p][k] = LastCommitMpt[k]
          /\ view'[p][k].idx > view[p][k].idx
<1>1. ASSUME IInv, [Next]_vars PROVE [Advances]_vars
  <2>1. ASSUME NEW q \in Procs, SendProofs(q) PROVE Advances
    <3> SUFFICES ASSUME NEW p \in Procs, NEW k \in Keys,
                        view'[p][k] # view[p][k]
                 PROVE  /\ view'[p][k] = LastCommitMpt[k]
                        /\ view'[p][k].idx > view[p][k].idx
      OBVIOUS
    <3>1. view'[p][k] = LastCommitMpt[k]
      BY <1>1, <2>1, SendShowsCommitted DEF IInv
    <3>2. UpTo(view[p][k], LastCommitMpt[k])
      BY <1>1 DEF IInv, ViewInv, ExclusiveKeys
    <3>3. view[p][k].idx \in Int /\ LastCommitMpt[k].idx \in Int
      BY <1>1 DEF IInv, TypeOK, Trees, Leaves
    <3> QED
      BY <3>1, <3>2, <3>3 DEF UpTo
  <2>2. ASSUME CommitCopy PROVE UNCHANGED view
    BY <2>2 DEF CommitCopy, history
  <2> QED
    BY <1>1, <2>1, <2>2, CommitFrame DEF IInv
<1>2. Spec => [][Advances]_vars
  BY <1>1, InvHolds, PTL DEF Spec
<1> QED
  BY <1>2 DEF PushedUpdatesAdvance
=============================================================================

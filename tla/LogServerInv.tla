---------------------------- MODULE LogServerInv ----------------------------
(***************************************************************************)
(* The inductive invariant of LogServer, in named parts, from which all    *)
(* that is proved of the server follows.                                   *)
(***************************************************************************)
EXTENDS LogServer

(***************************************************************************)
(* The locks: mptLock is held exactly while Commit works on the tree,      *)
(* processorsLock while it sends.                                          *)
(***************************************************************************)
CommitStages == {"copy", "notify", "send"}

LockInv ==
  /\ mptLock = IF pc[Srv] \in CommitStages THEN Srv ELSE Free
  /\ processorsLock = IF pc[Srv] = "send" THEN Srv ELSE Free
  /\ sending \subseteq processors
  /\ sending # {} => pc[Srv] = "send"

(***************************************************************************)
(* The tree and what is committed of it: a leaf that is not marked as      *)
(* changed is the committed one.                                           *)
(***************************************************************************)
SnapshotInv ==
  /\ pc[Srv] = "copy" => lastCommitment = Root(fullmpt)
  /\ pc[Srv] # "copy" => lastCommitment \in {NoRoot, Root(LastCommitMpt)}
  /\ pc[Srv] \in {"notify", "send"} =>
       /\ fullmpt = LastCommitMpt
       /\ lastCommitment = Root(fullmpt)
       /\ lastDelta = [k \in changed |-> LastCommitMpt[k]]
  /\ \A k \in Keys \ changed : fullmpt[k] = LastCommitMpt[k]

(***************************************************************************)
(* The logs that one thread at a time works on: the server's own log       *)
(* always, the clients' logs unless connections overlap.                   *)
(***************************************************************************)
ExclusiveKeys == IF Overlapping THEN {ZeroLog} ELSE Keys

ExclusiveInv ==
  \A t, u \in Threads : \A k \in ExclusiveKeys :
    InFlight(t, k) /\ InFlight(u, k) => t = u

(***************************************************************************)
(* The server's own leaf holds the slice of the root's hash: from then on  *)
(* its index falls behind, and only Commit still states anything there.    *)
(***************************************************************************)
OwnRoot(k) == k = ZeroLog /\ fullmpt[k].pay = "root"

Registering == {"readIndex", "setIndex", "insert"}

AliasInv ==
  /\ OwnRoot(ZeroLog) =>
       /\ pc[Srv] \notin {"trigger", "maiden"}
       /\ pc[Srv] \in Registering => msg[Srv].pay = "root"
  /\ pc[Srv] \in Registering /\ msg[Srv].pay = "root" => msg[Srv].kind = "force"

(***************************************************************************)
(* How far the registration of a statement for log k has come, and how the *)
(* index and the leaf of k relate at that stage.                           *)
(***************************************************************************)
StageInv(t, k) ==
  /\ pc[t] = "setID" => k \notin logIDToPubKey
  /\ pc[t] = "verify" => msg[t].kind # "create"
  /\ pc[t] = "readIndex" /\ msg[t].kind = "create" => logIDIndex[k] = -1
  /\ pc[t] \in {"readIndex", "setIndex", "insert"}
       => k \in logIDToPubKey \cup {ZeroLog}
  /\ pc[t] = "setIndex" => msg[t].idx = logIDIndex[k] + 1
  /\ pc[t] = "insert" => /\ logIDIndex[k] = msg[t].idx
                         /\ OwnRoot(k) \/ fullmpt[k].idx = msg[t].idx - 1
  /\ pc[t] = "ack" => fullmpt[k] = LeafOf(msg[t])

KeyInv(k) ==
  /\ k \in Logs \ logIDToPubKey => logIDIndex[k] = -1
  /\ \A t \in Threads : InFlight(t, k) => StageInv(t, k)
  /\ \/ fullmpt[k].idx = logIDIndex[k]
     \/ OwnRoot(k)
     \/ \E t \in Threads : pc[t] = "insert" /\ msg[t].log = k

IndexInv == \A k \in ExclusiveKeys : KeyInv(k)

(***************************************************************************)
(* A leaf is the other one or comes from an earlier statement.             *)
(***************************************************************************)
UpTo(leaf, other) == leaf = other \/ leaf.idx < other.idx

AckedInv ==
  /\ \A s \in acked : s.log \in ExclusiveKeys =>
       UpTo([idx |-> s.idx, pay |-> s.pay], fullmpt[s.log])
  /\ \A s, r \in acked :
       s.log \in ExclusiveKeys /\ s.log = r.log /\ s.idx = r.idx => s = r

CommittedInv ==
  \A k \in ExclusiveKeys : UpTo(LastCommitMpt[k], fullmpt[k])

ViewInv ==
  \A p \in Procs : \A k \in ExclusiveKeys : UpTo(view[p][k], LastCommitMpt[k])

(***************************************************************************)
(* The whole inductive invariant: at every point between two steps of the  *)
(* connections, of Run and of Commit, locks, indices, leaves, marks,       *)
(* snapshot, acknowledgements and pushed updates agree with how far each   *)
(* of them has come (server.go, logprocessor.go).                          *)
(***************************************************************************)
IInv ==
  /\ TypeOK
  /\ LockInv
  /\ SnapshotInv
  /\ ExclusiveInv
  /\ IndexInv
  /\ AckedInv
  /\ CommittedInv
  /\ ViewInv
  /\ AliasInv

-----------------------------------------------------------------------------
(***************************************************************************)
(* Connections that overlap.  Between looking something up and storing     *)
(* what follows from it a thread holds no lock: RegisterLogID between the  *)
(* look-up of the log and its key, RegisterLogStatement between the index  *)
(* it compares and the one it stores.  A creation relies on what it found  *)
(* from the first look-up to the last store.                               *)
(***************************************************************************)
Deciding(t, l) ==
  /\ msg[t].log = l
  /\ pc[t] = "setIndex" \/ (pc[t] \in {"setID", "readIndex"} /\ msg[t].kind = "create")

(***************************************************************************)
(* No two connections decide on one log at the same time.  The code does   *)
(* nothing to ensure this; all other interleavings of any number of        *)
(* statements for one log remain.                                          *)
(***************************************************************************)
OneDecides ==
  \A p, q \in Procs : \A l \in Logs : Deciding(p, l) /\ Deciding(q, l) => p = q

\* A connection that has stored the index of its statement and still has to
\* insert or to acknowledge it.
Holds(p, l, i) == pc[p] \in {"insert", "ack"} /\ msg[p].log = l /\ msg[p].idx = i

(***************************************************************************)
(* What connections that overlap keep as long as one at a time decides.    *)
(***************************************************************************)
KeyedInv ==
  /\ \A l \in Logs \ logIDToPubKey : logIDIndex[l] = -1
  /\ \A p \in Procs : pc[p] \in {"readIndex", "setIndex", "insert", "ack"}
                        => msg[p].log \in logIDToPubKey
  /\ \A p \in Procs : pc[p] \in {"checkID", "setID"} => msg[p].kind = "create"
  /\ \A p \in Procs : pc[p] = "verify" => msg[p].kind # "create"

DecidedInv ==
  \A p \in Procs :
    /\ pc[p] = "setID" => msg[p].log \notin logIDToPubKey
    /\ pc[p] = "readIndex" /\ msg[p].kind = "create" => logIDIndex[msg[p].log] = -1
    /\ pc[p] = "setIndex" => msg[p].idx = logIDIndex[msg[p].log] + 1

HeldInv ==
  /\ \A p \in Procs : pc[p] \in {"insert", "ack"} => msg[p].idx <= logIDIndex[msg[p].log]
  /\ \A s \in acked : s.idx <= logIDIndex[s.log]
  /\ \A p, q \in Procs : Holds(p, msg[q].log, msg[q].idx) /\ pc[q] \in {"insert", "ack"} => p = q
  /\ \A p \in Procs : \A s \in acked : ~Holds(p, s.log, s.idx)
  /\ OneStatementPerIndex

OverlapInv == TypeOK /\ KeyedInv /\ DecidedInv /\ HeldInv
=============================================================================

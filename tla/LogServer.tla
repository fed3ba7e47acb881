----------------------------- MODULE LogServer -----------------------------
(***************************************************************************)
(* The in-memory core of the b_verify server: the registry of logs, the    *)
(* tree of statements, and the Commit that snapshots the tree and pushes   *)
(* proof updates to the subscribed connections (server/server.go and       *)
(* server/logprocessor.go).                                                *)
(*                                                                         *)
(* Each connection is served by its own goroutine (a thread in Procs).     *)
(* The goroutine of Run, and after it the blockWatcher, is the thread      *)
(* Srv: they never call Commit at the same time, since the blockWatcher    *)
(* waits for isReady.  logIDToPubKeyLock and logIDIndexLock are held for   *)
(* one map access at a time, so every access is one atomic step and what   *)
(* lies between two accesses is interleaved.  mptLock and processorsLock   *)
(* are held across steps and are variables.                                *)
(*                                                                         *)
(* The Merkle prefix trie is abstracted to the dictionary it stores and    *)
(* the set of leaves it marks as changed; its root, which does not depend  *)
(* on the insertion order and is collision free, is the dictionary itself. *)
(* (Module Mpt has the trie, module ProofUpdates the bytes in its leaves.) *)
(***************************************************************************)
EXTENDS Integers, FiniteSets

CONSTANTS
  Procs,        \* connections, each with its ServerLogProcessor
  Logs,         \* log identifiers clients may create
  Payloads,     \* what a client may state
  Srv,          \* the server's own thread: Run, then the blockWatcher
  ZeroLog,      \* the server's own log, identifier [32]byte{}
  Full,         \* srv.Full: commitments go to the chain
  Overlapping,  \* may two connections have statements for one log in flight?
  MaxIndex,     \* bound: highest index a client puts in a statement
  MaxCommits    \* bound: highest index of the server's own log

ServerPayloads == {"none", "maiden", "trigger", "root"}

ASSUME ConstantsAssumption ==
  /\ Srv \notin Procs \cup {"free"}
  /\ ZeroLog \notin Logs
  /\ Payloads \cap ServerPayloads = {}
  /\ Full \in BOOLEAN
  /\ Overlapping \in BOOLEAN
  /\ MaxIndex \in Nat
  /\ MaxCommits \in Nat

Threads == Procs \cup {Srv}
Keys == Logs \cup {ZeroLog}

(***************************************************************************)
(* A leaf of the tree: the index and content of a statement.  The tree     *)
(* stores only the witness, a hash that binds both.  Index -1 stands for   *)
(* "absent", in the tree as in the map logIDIndex.                         *)
(***************************************************************************)
Leaves == [idx : Nat \cup {-1}, pay : Payloads \cup ServerPayloads]
NoLeaf == [idx |-> -1, pay |-> "none"]
Trees == [Keys -> Leaves]
EmptyTree == [k \in Keys |-> NoLeaf]

(***************************************************************************)
(* The 32 bytes of a commitment: the root of a tree, or the zero value     *)
(* that no tree has for its root.                                          *)
(***************************************************************************)
NoRoot == {}
Root(t) == {t}

(***************************************************************************)
(* Statements: a client creates a log or appends to it; the server states  *)
(* its trigger, its maiden statement and its forced changes in ZeroLog.    *)
(***************************************************************************)
ClientMessages ==
  [kind : {"create"}, log : Logs, idx : {0}, pay : Payloads]
    \cup [kind : {"append"}, log : Logs, idx : 0..MaxIndex, pay : Payloads]

ServerMessages ==
  [kind : {"trigger", "maiden", "force"}, log : {ZeroLog}, idx : Nat,
   pay : ServerPayloads]

NoMessage == [kind |-> "none", log |-> ZeroLog, idx |-> 0, pay |-> "none"]

Messages == ClientMessages \cup ServerMessages \cup {NoMessage}

LeafOf(m) == [idx |-> m.idx, pay |-> m.pay]

Free == "free"

VARIABLES
  logIDToPubKey,   \* the logs that have a controlling key
  logIDIndex,      \* last accepted index of each log, -1 when absent
  fullmpt,         \* the dictionary in the server's tree
  changed,         \* the leaves marked as changed since the last Reset
  mptLock,         \* Free or the thread that holds it
  processorsLock,  \* Free or the thread that holds it
  lastCommitment,  \* the root committed last
  LastCommitMpt,   \* the copy of the tree committed last
  lastDelta,       \* the changed leaves of the last commitment
  processors,      \* the registered connections
  sending,         \* the SendProofs goroutines Commit waits for
  isReady,         \* srv.isReady: the doors are open
  logIDs,          \* lp.logIDs: the logs of a connection
  autoUpdates,     \* lp.autoUpdates
  pc,              \* where each thread is
  msg,             \* the message each thread handles
  acked,           \* history: the statements acknowledged
  awaited,         \* history: of those, the ones made while subscribed
  view,            \* what the pushed updates show the peer of a connection
  forced           \* history: the last commitment got its forced change

registry == <<logIDToPubKey, logIDIndex>>
tree == <<fullmpt, changed>>
snapshot == <<lastCommitment, LastCommitMpt, lastDelta>>
locks == <<mptLock, processorsLock>>
conns == <<processors, sending, isReady>>
subscriptions == <<logIDs, autoUpdates>>
history == <<acked, awaited, view, forced>>
vars == <<registry, tree, snapshot, locks, conns, subscriptions, pc, msg,
          history>>

(***************************************************************************)
(* NewServer.  A full server first touches its own log (Run, "trigger"), a *)
(* server that keeps no chain goes straight to the maiden statement.       *)
(***************************************************************************)
Init ==
  /\ logIDToPubKey = {}
  /\ logIDIndex = [k \in Keys |-> -1]
  /\ fullmpt = EmptyTree
  /\ changed = {}
  /\ mptLock = Free
  /\ processorsLock = Free
  /\ lastCommitment = NoRoot
  /\ LastCommitMpt = EmptyTree
  /\ lastDelta = [k \in {} |-> NoLeaf]
  /\ processors = {}
  /\ sending = {}
  /\ isReady = FALSE
  /\ logIDs = [p \in Procs |-> {}]
  /\ autoUpdates = [p \in Procs |-> FALSE]
  /\ pc = [t \in Threads |-> IF t # Srv THEN "none"
                             ELSE IF Full THEN "trigger" ELSE "maiden"]
  /\ msg = [t \in Threads |-> NoMessage]
  /\ acked = {}
  /\ awaited = [p \in Procs |-> {}]
  /\ view = [p \in Procs |-> EmptyTree]
  /\ forced = FALSE

Goto(t, label) == pc' = [pc EXCEPT ![t] = label]

(***************************************************************************)
(* The connections.  NewLogProcessor registers a connection once the doors *)
(* are open; Process reads a message and handles it before it reads the    *)
(* next; a read error, a malformed or badly signed message and an error of *)
(* a handler all end in unregisterProcessor and Close.                     *)
(***************************************************************************)
Connect(p) ==
  /\ isReady
  /\ pc[p] = "none"
  /\ processorsLock = Free
  /\ processors' = processors \cup {p}
  /\ Goto(p, "idle")
  /\ UNCHANGED <<registry, tree, snapshot, locks, sending, isReady,
                 subscriptions, msg, history>>

Handling == {"checkID", "setID", "verify", "readIndex", "setIndex", "insert",
             "ack"}

InFlight(t, l) == pc[t] \in Handling /\ msg[t].log = l

Receive(p, m) ==
  /\ pc[p] = "idle"
  /\ Overlapping \/ \A q \in Procs : ~InFlight(q, m.log)
  /\ msg' = [msg EXCEPT ![p] = m]
  /\ Goto(p, IF m.kind = "create" THEN "checkID" ELSE "verify")
  /\ UNCHANGED <<registry, tree, snapshot, locks, conns, subscriptions,
                 history>>

HangUp(p) ==
  /\ pc[p] = "idle"
  /\ Goto(p, "close")
  /\ UNCHANGED <<registry, tree, snapshot, locks, conns, subscriptions, msg,
                 history>>

CloseUnlocked(p) ==
  /\ pc[p] = "close"
  /\ processors' = processors \ {p}
  /\ Goto(p, "closed")
  /\ UNCHANGED <<registry, tree, snapshot, locks, sending, isReady,
                 subscriptions, msg, history>>

Close(p) ==
  /\ pc[p] = "close"
  /\ processorsLock = Free
  /\ processors' = processors \ {p}
  /\ Goto(p, "closed")
  /\ UNCHANGED <<registry, tree, snapshot, locks, sending, isReady,
                 subscriptions, msg, history>>

SubscribeProofUpdates(p) ==
  /\ pc[p] = "idle"
  /\ ~autoUpdates[p]
  /\ autoUpdates' = [autoUpdates EXCEPT ![p] = TRUE]
  /\ UNCHANGED <<registry, tree, snapshot, locks, conns, logIDs, pc, msg,
                 history>>

UnsubscribeProofUpdates(p) ==
  /\ pc[p] = "idle"
  /\ autoUpdates[p]
  /\ autoUpdates' = [autoUpdates EXCEPT ![p] = FALSE]
  /\ awaited' = [awaited EXCEPT ![p] = {}]
  /\ UNCHANGED <<registry, tree, snapshot, locks, conns, logIDs, pc, msg,
                 acked, view, forced>>

(***************************************************************************)
(* ProcessCreateLog: RegisterLogID looks the identifier up under the lock, *)
(* lets go of it, and takes it again to store the controlling key.         *)
(***************************************************************************)
CheckLogIDAccepts(p) ==
  /\ pc[p] = "checkID"
  /\ Goto(p, "setID")
  /\ UNCHANGED <<registry, tree, snapshot, locks, conns, subscriptions, msg,
                 history>>

CheckLogID(p) ==
  /\ pc[p] = "checkID"
  /\ Goto(p, IF msg[p].log \in logIDToPubKey THEN "close" ELSE "setID")
  /\ UNCHANGED <<registry, tree, snapshot, locks, conns, subscriptions, msg,
                 history>>

SetLogID(p) ==
  /\ pc[p] = "setID"
  /\ logIDToPubKey' = logIDToPubKey \cup {msg[p].log}
  /\ Goto(p, "readIndex")
  /\ UNCHANGED <<logIDIndex, tree, snapshot, locks, conns, subscriptions, msg,
                 history>>

(***************************************************************************)
(* ProcessAppendLog verifies the signature with the key of the log.        *)
(***************************************************************************)
VerifyAppendLog(p) ==
  /\ pc[p] = "verify"
  /\ Goto(p, IF msg[p].log \in logIDToPubKey THEN "readIndex" ELSE "close")
  /\ UNCHANGED <<registry, tree, snapshot, locks, conns, subscriptions, msg,
                 history>>

(***************************************************************************)
(* RegisterLogStatement, called by every thread: the index is read and     *)
(* compared, then stored, then the statement is inserted, with other       *)
(* threads running in between.  Where a caller goes on depends on what it  *)
(* was doing; only an append looks at the error.                           *)
(***************************************************************************)
Resume(kind) ==
  CASE kind = "trigger" -> "maiden"
    [] kind = "maiden" -> "commit"
    [] kind = "force" -> "return"
    [] OTHER -> "ack"

Failed(kind) == IF kind = "append" THEN "close" ELSE Resume(kind)

NextLogIndex(l) == logIDIndex[l] + 1

CheckIndexNotOlder(t) ==
  /\ pc[t] = "readIndex"
  /\ Goto(t, IF msg[t].idx >= logIDIndex[msg[t].log]
             THEN "setIndex" ELSE Failed(msg[t].kind))
  /\ UNCHANGED <<registry, tree, snapshot, locks, conns, subscriptions, msg,
                 history>>

CheckIndex(t) ==
  /\ pc[t] = "readIndex"
  /\ Goto(t, IF msg[t].idx = NextLogIndex(msg[t].log)
             THEN "setIndex" ELSE Failed(msg[t].kind))
  /\ UNCHANGED <<registry, tree, snapshot, locks, conns, subscriptions, msg,
                 history>>

SetIndexSkipsInsert(t) ==
  /\ pc[t] = "setIndex"
  /\ logIDIndex' = [logIDIndex EXCEPT ![msg[t].log] = msg[t].idx]
  /\ Goto(t, Resume(msg[t].kind))
  /\ UNCHANGED <<logIDToPubKey, tree, snapshot, locks, conns, subscriptions,
                 msg, history>>

SetIndex(t) ==
  /\ pc[t] = "setIndex"
  /\ logIDIndex' = [logIDIndex EXCEPT ![msg[t].log] = msg[t].idx]
  /\ Goto(t, "insert")
  /\ UNCHANGED <<logIDToPubKey, tree, snapshot, locks, conns, subscriptions,
                 msg, history>>

(***************************************************************************)
(* FullMPT.Insert under mptLock.  A leaf is marked as changed when its     *)
(* value differs; a new leaf may push one existing leaf down the trie      *)
(* (split), which marks that leaf too.                                     *)
(*                                                                         *)
(* A value that is equal, byte for byte, leaves the leaf and its hash      *)
(* alone (SetValue).  What Commit states in the server's own log is the    *)
(* slice the root keeps its hash in: Commitment returns that slice and     *)
(* SetValue stores it without a copy.  From then on leaf and statement are *)
(* the same bytes, whatever they are, and the statement changes nothing.   *)
(***************************************************************************)
Displaced(l) ==
  {{}} \cup {{k} : k \in {k \in Keys : fullmpt[l] = NoLeaf
                                       /\ fullmpt[k] # NoLeaf}}

SameBytes(leaf, m) ==
  \/ leaf = LeafOf(m)
  \/ leaf.pay = "root" /\ m.pay = "root"

Inserted(m) ==
  IF SameBytes(fullmpt[m.log], m)
  THEN fullmpt ELSE [fullmpt EXCEPT ![m.log] = LeafOf(m)]

InsertStatementUnlocked(t) ==
  /\ pc[t] = "insert"
  /\ fullmpt' = Inserted(msg[t])
  /\ changed' = changed \cup {msg[t].log}
  /\ Goto(t, Resume(msg[t].kind))
  /\ UNCHANGED <<registry, snapshot, locks, conns, subscriptions, msg, history>>

InsertStatementUnmarked(t) ==
  /\ pc[t] = "insert"
  /\ mptLock = Free
  /\ fullmpt' = Inserted(msg[t])
  /\ changed' = IF fullmpt[msg[t].log] = NoLeaf
                THEN changed \cup {msg[t].log} ELSE changed
  /\ Goto(t, Resume(msg[t].kind))
  /\ UNCHANGED <<registry, snapshot, locks, conns, subscriptions, msg, history>>

InsertStatement(t) ==
  /\ pc[t] = "insert"
  /\ mptLock = Free
  /\ fullmpt' = Inserted(msg[t])
  /\ \E moved \in Displaced(msg[t].log) :
       changed' = IF SameBytes(fullmpt[msg[t].log], msg[t]) THEN changed
                  ELSE changed \cup {msg[t].log} \cup moved
  /\ Goto(t, Resume(msg[t].kind))
  /\ UNCHANGED <<registry, snapshot, locks, conns, subscriptions, msg, history>>

(***************************************************************************)
(* The end of ProcessCreateLog and of ProcessAppendLog: SubscribeToLog,    *)
(* then the Ack.                                                           *)
(***************************************************************************)
Ack(p) ==
  /\ pc[p] = "ack"
  /\ LET s == [log |-> msg[p].log, idx |-> msg[p].idx, pay |-> msg[p].pay]
     IN  /\ logIDs' = [logIDs EXCEPT ![p] = @ \cup {s.log}]
         /\ acked' = acked \cup {s}
         /\ awaited' = IF autoUpdates[p]
                       THEN [awaited EXCEPT ![p] = @ \cup {s}] ELSE awaited
  /\ Goto(p, "idle")
  /\ UNCHANGED <<registry, tree, snapshot, locks, conns, autoUpdates, msg, view,
                 forced>>

(***************************************************************************)
(* Run: the trigger of a full server and the maiden statement.  Neither    *)
(* looks at the error of RegisterLogStatement.                             *)
(***************************************************************************)
State(kind, i, pay) ==
  /\ msg' = [msg EXCEPT ![Srv] =
               [kind |-> kind, log |-> ZeroLog, idx |-> i, pay |-> pay]]
  /\ Goto(Srv, "readIndex")

Trigger ==
  /\ pc[Srv] = "trigger"
  /\ State("trigger", NextLogIndex(ZeroLog), "trigger")
  /\ UNCHANGED <<registry, tree, snapshot, locks, conns, subscriptions, history>>

MaidenStatement ==
  /\ pc[Srv] = "maiden"
  /\ logIDToPubKey' = logIDToPubKey \cup {ZeroLog}
  /\ State("maiden", 0, "maiden")
  /\ UNCHANGED <<logIDIndex, tree, snapshot, locks, conns, subscriptions,
                 history>>

(***************************************************************************)
(* blockWatcher calls Commit again and again.                              *)
(***************************************************************************)
StartCommit ==
  /\ pc[Srv] = "idle"
  /\ Goto(Srv, "commit")
  /\ UNCHANGED <<registry, tree, snapshot, locks, conns, subscriptions, msg,
                 history>>

CommitNoChangesSameLogs ==
  /\ pc[Srv] = "commit"
  /\ mptLock = Free
  /\ \A k \in Keys : fullmpt[k] = NoLeaf <=> LastCommitMpt[k] = NoLeaf
  /\ Goto(Srv, "return")
  /\ UNCHANGED <<registry, tree, snapshot, locks, conns, subscriptions, msg,
                 history>>

CommitNoChanges ==
  /\ pc[Srv] = "commit"
  /\ mptLock = Free
  /\ lastCommitment = Root(fullmpt)
  /\ Goto(Srv, "return")
  /\ UNCHANGED <<registry, tree, snapshot, locks, conns, subscriptions, msg,
                 history>>

CommitBegin ==
  /\ pc[Srv] = "commit"
  /\ mptLock = Free
  /\ lastCommitment # Root(fullmpt)
  /\ mptLock' = Srv
  /\ lastCommitment' = Root(fullmpt)
  /\ forced' = FALSE
  /\ Goto(Srv, "copy")
  /\ UNCHANGED <<registry, tree, LastCommitMpt, lastDelta, processorsLock, conns,
                 subscriptions, msg, acked, awaited, view>>

CommitCopyAfterDelta ==
  /\ pc[Srv] = "copy"
  /\ LastCommitMpt' = fullmpt
  /\ lastDelta' = [k \in changed |-> LastCommitMpt[k]]
  /\ Goto(Srv, "notify")
  /\ UNCHANGED <<registry, tree, lastCommitment, locks, conns, subscriptions,
                 msg, history>>

CommitCopy ==
  /\ pc[Srv] = "copy"
  /\ LastCommitMpt' = fullmpt
  /\ lastDelta' = [k \in changed |-> fullmpt[k]]
  /\ Goto(Srv, "notify")
  /\ UNCHANGED <<registry, tree, lastCommitment, locks, conns, subscriptions,
                 msg, history>>

LockProcessors ==
  /\ pc[Srv] = "notify"
  /\ processorsLock = Free
  /\ processorsLock' = Srv
  /\ sending' = processors
  /\ Goto(Srv, "send")
  /\ UNCHANGED <<registry, tree, snapshot, mptLock, processors, isReady,
                 subscriptions, msg, history>>

(***************************************************************************)
(* One SendProofs goroutine per connection.  The peer lays the leaves of   *)
(* its own logs that the delta holds over what it had; a connection that   *)
(* has not subscribed, or has no logs, gets nothing.                       *)
(***************************************************************************)
Overlay(base, delta, keys) ==
  [k \in Keys |-> IF k \in keys \cap DOMAIN delta THEN delta[k] ELSE base[k]]

SendProofs(p) ==
  /\ p \in sending
  /\ sending' = sending \ {p}
  /\ view' = IF autoUpdates[p]
             THEN [view EXCEPT ![p] = Overlay(@, lastDelta, logIDs[p])]
             ELSE view
  /\ UNCHANGED <<registry, tree, snapshot, locks, processors, isReady,
                 subscriptions, pc, msg, acked, awaited, forced>>

CommitEndWhenAlone ==
  /\ pc[Srv] = "send"
  /\ sending = {}
  /\ processorsLock' = Free
  /\ IF processors = {}
     THEN /\ changed' = {}
          /\ mptLock' = Free
          /\ Goto(Srv, IF Full THEN "wallet" ELSE "return")
     ELSE Goto(Srv, "notify") /\ UNCHANGED <<changed, mptLock>>
  /\ UNCHANGED <<registry, fullmpt, snapshot, conns, subscriptions, msg, history>>

CommitEnd ==
  /\ pc[Srv] = "send"
  /\ sending = {}
  /\ processorsLock' = Free
  /\ changed' = {}
  /\ mptLock' = Free
  /\ Goto(Srv, IF Full THEN "wallet" ELSE "return")
  /\ UNCHANGED <<registry, fullmpt, snapshot, conns, subscriptions, msg, history>>

(***************************************************************************)
(* The chain part of Commit on a full server.  A wallet error leaves       *)
(* Commit at once.  (For the maiden commitment it is a panic, after which  *)
(* nothing happens any more.)  Otherwise Commit ends by stating the root   *)
(* in the server's own log.  MaxCommits bounds the index of that log: when *)
(* it is reached the wallet has run out of money for good.                 *)
(***************************************************************************)
WalletCommits ==
  /\ pc[Srv] = "wallet"
  /\ logIDIndex[ZeroLog] < MaxCommits
  /\ State("force", NextLogIndex(ZeroLog), "root")
  /\ forced' = TRUE
  /\ UNCHANGED <<registry, tree, snapshot, locks, conns, subscriptions, acked,
                 awaited, view>>

WalletFails ==
  /\ pc[Srv] = "wallet"
  /\ isReady
  /\ Goto(Srv, "return")
  /\ UNCHANGED <<registry, tree, snapshot, locks, conns, subscriptions, msg,
                 history>>

CommitReturns ==
  /\ pc[Srv] = "return"
  /\ isReady' = TRUE
  /\ Goto(Srv, "idle")
  /\ UNCHANGED <<registry, tree, snapshot, locks, processors, sending,
                 subscriptions, msg, history>>

Connection(p) ==
  \/ Connect(p)
  \/ \E m \in ClientMessages : Receive(p, m)
  \/ HangUp(p)
  \/ Close(p)
  \/ SubscribeProofUpdates(p)
  \/ UnsubscribeProofUpdates(p)
  \/ CheckLogID(p)
  \/ SetLogID(p)
  \/ VerifyAppendLog(p)
  \/ Ack(p)

RegisterLogStatement(t) == CheckIndex(t) \/ SetIndex(t) \/ InsertStatement(t)

Run == Trigger \/ MaidenStatement \/ StartCommit

Commit ==
  \/ CommitNoChanges
  \/ CommitBegin
  \/ CommitCopy
  \/ LockProcessors
  \/ \E p \in Procs : SendProofs(p)
  \/ CommitEnd
  \/ WalletCommits
  \/ WalletFails
  \/ CommitReturns

Next ==
  \/ \E p \in Procs : Connection(p)
  \/ \E t \in Threads : RegisterLogStatement(t)
  \/ Run
  \/ Commit

Spec == Init /\ [][Next]_vars

(***************************************************************************)
(* Fairness.  A goroutine that can run does run, and a peer reads what it  *)
(* is sent (the client's ReceiveLoop always gets back to its read).  Go's  *)
(* mutexes hand a waiter the lock after a bounded wait, so the thread that *)
(* waits to insert is not passed over for ever: strong fairness.  Blocks   *)
(* keep coming, so StartCommit is taken again and again.                   *)
(***************************************************************************)
Handle(p) ==
  Close(p) \/ CheckLogID(p) \/ SetLogID(p) \/ VerifyAppendLog(p) \/ Ack(p)

Fairness ==
  /\ WF_vars(Run)
  /\ WF_vars(Commit)
  /\ \A p \in Procs : WF_vars(Handle(p))
  /\ \A t \in Threads :
       /\ WF_vars(CheckIndex(t) \/ SetIndex(t))
       /\ SF_vars(InsertStatement(t))

FairSpec == Spec /\ Fairness
-----------------------------------------------------------------------------
(***************************************************************************)
(* Every variable keeps its type: the maps of the server, the states of    *)
(* the threads, and locks that are held by the Srv thread or by nobody     *)
(* between two steps.                                                      *)
(***************************************************************************)
Statements ==
  [log : Logs, idx : Nat, pay : Payloads]

ConnStates == {"none", "idle", "close", "closed"} \cup Handling
SrvStates == {"trigger", "maiden", "readIndex", "setIndex", "insert", "idle",
              "commit", "copy", "notify", "send", "wallet", "return"}

TypeOK ==
  /\ logIDToPubKey \subseteq Keys
  /\ logIDIndex \in [Keys -> Nat \cup {-1}]
  /\ fullmpt \in Trees
  /\ changed \subseteq Keys
  /\ mptLock \in {Free, Srv}
  /\ processorsLock \in {Free, Srv}
  /\ lastCommitment \subseteq Trees
  /\ LastCommitMpt \in Trees
  /\ DOMAIN lastDelta \subseteq Keys
  /\ lastDelta \in [DOMAIN lastDelta -> Leaves]
  /\ processors \subseteq Procs
  /\ sending \subseteq Procs
  /\ isReady \in BOOLEAN
  /\ logIDs \in [Procs -> SUBSET Logs]
  /\ autoUpdates \in [Procs -> BOOLEAN]
  /\ pc \in [Threads -> ConnStates \cup SrvStates]
  /\ \A p \in Procs : pc[p] \in ConnStates
  /\ pc[Srv] \in SrvStates
  /\ msg \in [Threads -> Messages]
  /\ \A p \in Procs : pc[p] \in Handling => msg[p] \in ClientMessages
  /\ pc[Srv] \in {"readIndex", "setIndex", "insert"}
       => msg[Srv] \in ServerMessages
  /\ acked \subseteq Statements
  /\ awaited \in [Procs -> SUBSET Statements]
  /\ view \in [Procs -> Trees]
  /\ forced \in BOOLEAN

(***************************************************************************)
(* Outside a running Commit, the root committed last is the root of the    *)
(* tree kept for serving proofs (Commit, LastCommitMpt): no statement slips *)
(* in between computing the root and copying the tree.                     *)
(***************************************************************************)
CommitmentMatchesTree ==
  mptLock = Free =>
    lastCommitment = NoRoot \/ lastCommitment = Root(LastCommitMpt)

(***************************************************************************)
(* The delta of a commitment, laid over the tree committed before it,      *)
(* gives the tree committed now (NewDeltaMPT, Reset): the marks that       *)
(* statements leave between two commitments lose no statement.             *)
(***************************************************************************)
DeltaCoversCommit ==
  [][LastCommitMpt' # LastCommitMpt
       => LastCommitMpt' = Overlay(LastCommitMpt, lastDelta', Keys)]_vars

(***************************************************************************)
(* While Commit waits for its SendProofs goroutines, none of the           *)
(* connections they write to is unregistered and closed by its own         *)
(* goroutine (processorsLock).                                             *)
(***************************************************************************)
UpdatesGoToRegistered == sending \subseteq processors

(***************************************************************************)
(* A statement the server has acknowledged is in the tree or has been      *)
(* superseded by a later statement of its log (RegisterLogStatement before *)
(* Ack), provided that no two connections work on one log at a time.       *)
(***************************************************************************)
AckedInTree ==
  \A s \in acked :
    \/ fullmpt[s.log] = [idx |-> s.idx, pay |-> s.pay]
    \/ fullmpt[s.log].idx > s.idx

(***************************************************************************)
(* The server acknowledges one statement for each index of a log: the      *)
(* index check of RegisterLogStatement refuses a second one.               *)
(***************************************************************************)
OneStatementPerIndex ==
  \A s, r \in acked : s.log = r.log /\ s.idx = r.idx => s = r

(***************************************************************************)
(* The index of a log only ever goes up by one, and so does the statement  *)
(* in its leaf (RegisterLogStatement): the log never skips or goes back.   *)
(***************************************************************************)
LogsGrowByOne ==
  [][\A k \in Keys :
       /\ logIDIndex'[k] \in {logIDIndex[k], logIDIndex[k] + 1}
       /\ fullmpt'[k] = fullmpt[k] \/ fullmpt'[k].idx = fullmpt[k].idx + 1]_vars

(***************************************************************************)
(* What a pushed proof update changes at a peer is brought to the tree     *)
(* just committed, and to a later statement than the peer had              *)
(* (SendProofs): updates show committed statements only, in order.         *)
(***************************************************************************)
PushedUpdatesAdvance ==
  [][\A p \in Procs, k \in Keys :
       view'[p][k] # view[p][k] =>
         /\ view'[p][k] = LastCommitMpt[k]
         /\ view'[p][k].idx > view[p][k].idx]_vars

(***************************************************************************)
(* Once a commitment went to the chain and Commit has returned, there is   *)
(* something to commit: the statement Commit makes in the server's own log *)
(* is there to "change something in the tree to force a commitment next    *)
(* time around".                                                           *)
(***************************************************************************)
ForcedChangePending ==
  Full /\ forced /\ pc[Srv] = "idle" => lastCommitment # Root(fullmpt)

(***************************************************************************)
(* The last commitment has the statement and, on a full server, the wallet *)
(* has sent its transaction; or the wallet has just failed with it.        *)
(***************************************************************************)
Published(l, i) == LastCommitMpt[l].idx >= i /\ (Full => forced)

WalletFailedWith(l, i) ==
  LastCommitMpt[l].idx >= i /\ Full /\ ~forced /\ pc[Srv] = "return"

(***************************************************************************)
(* A statement whose index was accepted is eventually part of a commitment *)
(* that was published (RegisterLogStatement, Commit), unless the wallet    *)
(* fails with that commitment: Commit then returns the error and nothing   *)
(* tries again, since the root is already the last commitment's.           *)
(***************************************************************************)
AcceptedIsCommitted ==
  \A l \in Logs, i \in 0..MaxIndex :
    logIDIndex[l] >= i ~> Published(l, i) \/ WalletFailedWith(l, i)

(***************************************************************************)
(* The same without the exception.  Does not hold: after WalletFails,      *)
(* CommitNoChanges passes over the root until another statement changes    *)
(* the tree, and there may be none.                                        *)
(***************************************************************************)
AcceptedIsPublished ==
  \A l \in Logs, i \in 0..MaxIndex : logIDIndex[l] >= i ~> Published(l, i)

(***************************************************************************)
(* Commit, once begun, lets go of the locks: no thread waits for a lock    *)
(* for ever (mptLock, processorsLock, the WaitGroup of SendProofs).        *)
(***************************************************************************)
LocksAreReleased == mptLock # Free ~> mptLock = Free

(***************************************************************************)
(* ProcessCreateLog ignores the error of RegisterLogStatement since "the 0 *)
(* index is always correct": a new log has no index yet.                   *)
(***************************************************************************)
CreateIndexIsZero ==
  \A p \in Procs :
    pc[p] = "readIndex" /\ msg[p].kind = "create"
      => NextLogIndex(msg[p].log) = 0

(***************************************************************************)
(* The first commitment of a fresh server is the fixed one of the maiden   *)
(* statement, "that will always result in the same commitment hash" (Run). *)
(***************************************************************************)
MaidenTree == [EmptyTree EXCEPT ![ZeroLog] = [idx |-> 0, pay |-> "maiden"]]

FirstCommitmentIsMaiden ==
  ~isReady /\ lastCommitment # NoRoot => lastCommitment = Root(MaidenTree)

(***************************************************************************)
(* A proof update is "the delta since the last proof update, provided we   *)
(* have subscribed": a statement acknowledged to a subscribed connection,  *)
(* once committed, has been shown to that connection.                      *)
(***************************************************************************)
AwaitedIsDelivered ==
  \A p \in Procs : \A s \in awaited[p] :
    mptLock = Free /\ LastCommitMpt[s.log] = [idx |-> s.idx, pay |-> s.pay]
      => view[p][s.log] = LastCommitMpt[s.log]
=============================================================================

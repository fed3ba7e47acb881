----------------------------- MODULE CommitChain -----------------------------
(***************************************************************************)
(* The life of a commitment of a full server, from the root of its tree to *)
(* a Bitcoin block and back: Server.Run, blockWatcher, processMerkleProofs *)
(* and Commit, the wallet's BlockLoop, processBlock and Commit, what each  *)
(* of them keeps on disk, and crashes and restarts in between.             *)
(*                                                                         *)
(* Three threads of the server run side by side: "run" (Run up to its      *)
(* accept loop), "watcher" (blockWatcher) and "wallet" (BlockLoop).  The   *)
(* Bitcoin node is external: it accepts, mines and reorganises.            *)
(*                                                                         *)
(* LogServer has the connections and the locks around one commitment and   *)
(* ProofUpdates the trie; here a tree is the number of client statements   *)
(* in it, the value of the server's own log and what their hashes were     *)
(* computed from.  Amounts are in thousands of satoshi.                    *)
(***************************************************************************)
EXTENDS Naturals, Sequences, FiniteSets, SequencesExt

CONSTANTS
  Histories,           \* how many commitments the data directory may start with
  Funds,               \* what the wallet had before them
  Deposits,            \* the amounts someone may pay into the wallet
  CommitEveryNBlocks,
  QueueSize,           \* capacity of newBlockChan, and the block the watcher has
  MaxBlocks,           \* bound on the blocks after an earlier process's
  MaxDeposits,         \* bound on the deposits, an earlier process's included;
                       \* one fewer with a crash or a failing call
  MaxStatements,       \* bound on the clients' statements, likewise
  MaxReorgs,           \* bound on the reorganisations, with no other fault
  MaxCrashes,          \* bound on the crashes, with no reorganisation and no failing
                       \* call but a lost reply
  MaxSkips             \* bound on the failing calls to the node, likewise, before any crash

Fee == 1
MINOUTPUT == 1

ASSUME BoundsAssumption ==
  /\ Histories \subseteq Nat
  /\ Funds \in Nat /\ Funds > 5
  /\ \A h \in Histories : Funds > h * Fee + MINOUTPUT
  /\ Deposits \subseteq Nat
  /\ \A b \in {CommitEveryNBlocks, MaxBlocks, MaxDeposits, MaxStatements,
               MaxReorgs, MaxCrashes, MaxSkips} : b \in Nat
  /\ QueueSize \in Nat \ {0}

VARIABLES
  txs,            \* node: every transaction it accepted, by its number
  blocks,         \* node: the set of transactions of every block
  nodeChain,      \* node: its best chain, a sequence of blocks
  reorgs,
  pc,             \* where each thread is
  activeChain,    \* wallet: the chain it follows
  todo,           \* wallet: blocks attached and not processed
  synced,         \* wallet
  skips,
  utxos,          \* wallet, written through to wallet.db: transactions
  lastCommitmentTxId,  \* wallet, written through to wallet.db
  chainstate,     \* disk: chainstate.hex
  queue,          \* newBlockChan
  tree,           \* server: fullmpt
  lastCommitment,
  LastCommitMpt,
  LastConfirmedCommitMpt,
  commitments,    \* server: srv.commitments
  LastCommitHeight,
  scanned,        \* watcher: the commitments it has gone over
  sending,        \* locals of Commit: the root and its transaction
  commitmentDb,   \* disk: the commitments in commitment.db
  zeroIndexed,    \* disk: the server's own log has an index
  serverstate,    \* disk: serverstate.hex
  earlier,        \* the commitments the data directory started with
  starts,
  crashes,
  unsaved,        \* history: commitments sent whose Commit ended before saving them
  torn            \* history: a crash has cut serverstate.hex short

node == <<txs, blocks, nodeChain, reorgs>>
wallet == <<activeChain, todo, synced, skips, utxos, chainstate>>
memory == <<lastCommitment, LastCommitMpt, LastConfirmedCommitMpt, commitments,
            LastCommitHeight, scanned, sending>>
disk == <<commitmentDb, zeroIndexed, serverstate>>
past == <<earlier, starts, crashes, unsaved, torn>>
vars == <<node, pc, wallet, lastCommitmentTxId, queue, tree, memory, disk, past>>
-----------------------------------------------------------------------------
(***************************************************************************)
(* Hashes are symbolic.  A leaf's cached hash is Stale (to be computed),   *)
(* Zero (copied before it was ever computed) or the value it was computed  *)
(* from.                                                                   *)
(***************************************************************************)
None == <<>>
Stale == <<"stale">>
Zero == <<"zero">>
MaidenValue == <<"maiden">>
TriggerValue(k) == <<"trigger", k>>
Statements(n) == <<"statements", n>>
Root(n, z) == <<"root", n, z>>
MaidenHash == Root(Statements(0), MaidenValue)

HashedFrom(hash, value) == IF hash = Stale THEN value ELSE hash

Commitment(t) ==
  Root(HashedFrom(t.hn, Statements(t.n)), HashedFrom(t.hz, t.z))

\* GetHash caches the leaves' hashes.  When the value of the server's own log
\* is the slice that holds the root, the new root becomes that value.
Hashed(t) ==
  [t EXCEPT !.hn = HashedFrom(t.hn, Statements(t.n)),
            !.hz = HashedFrom(t.hz, t.z),
            !.z  = IF t.aliased THEN Commitment(t) ELSE t.z]

EmptyTree ==
  [n |-> 0, hn |-> Stale, z |-> None, hz |-> Stale, aliased |-> FALSE]

\* RegisterLogStatement in the server's own log.
OwnStatement(t, v) ==
  IF t.z = v THEN t ELSE [t EXCEPT !.z = v, !.hz = Stale, !.aliased = FALSE]

\* The same with the slice Commitment() returned, the root v.
OwnRoot(t, v) ==
  IF t.aliased THEN t ELSE [OwnStatement(t, v) EXCEPT !.aliased = TRUE]

\* The committed trees: their contents and their root.
NoTree == [n |-> 0, z |-> None, root |-> None]
Copy(t) == [n |-> t.n, z |-> t.z, root |-> Commitment(t)]
Serialized(c) == [c EXCEPT !.root = None]
Deserialized(c) ==
  IF c.z = None THEN NoTree
  ELSE [c EXCEPT !.root = Root(Statements(c.n), c.z)]
-----------------------------------------------------------------------------
(***************************************************************************)
(* Transactions: a commitment has its root in output 0 and what is left of *)
(* its inputs in output 1; a deposit pays the wallet in output 0.  Either  *)
(* has at most one output of the wallet's (value 0: none), which its       *)
(* number stands for.                                                      *)
(***************************************************************************)
Tx(comm, ins, value) == [comm |-> comm, ins |-> ins, value |-> value]
IsCommitment(i) == txs[i].comm # None
Spends(i) == ToSet(txs[i].ins)

Mined == UNION {blocks[nodeChain[i]] : i \in 1..Len(nodeChain)}
Mempool == (1..Len(txs)) \ Mined

Value(outs) == FoldSeq(LAMBDA i, sum : txs[i].value + sum, 0, outs)

Threads == {"run", "watcher", "wallet"}
Everywhere(s) == [t \in Threads |-> s]
Up == pc["run"] \notin {"down", "panic"}
isReady == pc["run"] = "serve"
Height == Len(activeChain) - 1
Goto(t, s) == pc' = [pc EXCEPT ![t] = s]

Commitments(comm, tx, height, block) ==
  [comm |-> comm, tx |-> tx, triggered |-> height, block |-> block]

(***************************************************************************)
(* The data directory: empty, or with a chain of commitments as            *)
(* loadCommitments wants to find it, from the maiden one on, each in a     *)
(* block of its own and all but the maiden one with one more statement.    *)
(* Transaction 1 is the deposit that paid for them.  (A server that finds  *)
(* the directory empty does not make the maiden commitment any more, see   *)
(* MaidenStatement; the chain is of one that did.)                         *)
(***************************************************************************)
Earlier(i) ==
  [n |-> IF i = 0 THEN 0 ELSE i - 1, z |-> IF i = 0 THEN None ELSE MaidenValue,
   root |-> None]
EarlierRoot(i) == Root(Statements(i - 1), MaidenValue)

DataDirectory(h) ==
  /\ txs = IF h = 0 THEN <<>>
           ELSE [i \in 1..(h + 1) |->
                   IF i = 1 THEN Tx(None, <<>>, Funds)
                   ELSE Tx(EarlierRoot(i - 1), <<i - 1>>, Funds - (i - 1) * Fee)]
  /\ blocks = [b \in 1..(h + 1) |->
                 IF b = 1 THEN {} ELSE IF b = 2 THEN {1, 2} ELSE {b}]
  /\ nodeChain = [b \in 1..(h + 1) |-> b]
  /\ chainstate = nodeChain
  /\ utxos = IF h = 0 THEN <<>> ELSE <<h + 1>>
  /\ lastCommitmentTxId = IF h = 0 THEN 0 ELSE h + 1
  /\ commitmentDb = {Commitments(EarlierRoot(i), i + 1, i - 1, i + 1) : i \in 1..h}
  /\ zeroIndexed = (h > 0)
  /\ serverstate = [last |-> Earlier(h), confirmed |-> Earlier(h)]
  /\ earlier = h

Init ==
  /\ \E h \in Histories : DataDirectory(h)
  /\ pc = Everywhere("down")
  /\ activeChain = <<1>> /\ todo = <<>> /\ synced = FALSE
  /\ queue = <<>>
  /\ tree = EmptyTree
  /\ lastCommitment = None
  /\ LastCommitMpt = NoTree /\ LastConfirmedCommitMpt = NoTree
  /\ commitments = <<>> /\ LastCommitHeight = 0
  /\ scanned = 0 /\ sending = [comm |-> None, tx |-> 0]
  /\ reorgs = 0 /\ skips = 0 /\ starts = 0 /\ crashes = 0
  /\ unsaved = {} /\ torn = FALSE
-----------------------------------------------------------------------------
(***************************************************************************)
(* The Bitcoin node.  It accepts a transaction whose inputs no other one   *)
(* spends, mines what it likes with the ancestors first, and may replace   *)
(* the last block by two; what is left out returns to the mempool.         *)
(***************************************************************************)
Accepted(ins) == \A i \in 1..Len(txs) : Spends(i) \cap ToSet(ins) = {}

Closed(S, below) == \A i \in S : Spends(i) \subseteq S \cup below

DepositsMade == Cardinality({i \in 1..Len(txs) : ~IsCommitment(i)})

FaultFree == crashes = 0 /\ skips = 0

Deposit(v) ==
  /\ DepositsMade + (IF FaultFree THEN 0 ELSE 1) < MaxDeposits
  /\ txs' = Append(txs, Tx(None, <<>>, v))
  /\ UNCHANGED <<blocks, nodeChain, reorgs, pc, wallet, lastCommitmentTxId, queue,
                 tree, memory, disk, past>>

Mine(S) ==
  /\ Len(blocks) <= earlier + MaxBlocks
  /\ Closed(S, Mined)
  /\ blocks' = Append(blocks, S)
  /\ nodeChain' = Append(nodeChain, Len(blocks) + 1)
  /\ UNCHANGED <<txs, reorgs, pc, wallet, lastCommitmentTxId, queue, tree, memory,
                 disk, past>>

Reorg(S) ==
  LET tip == Last(nodeChain)
      kept == Mined \ blocks[tip]
  IN  /\ reorgs < MaxReorgs /\ FaultFree
      /\ Len(blocks) < earlier + MaxBlocks
      /\ Len(nodeChain) > 1
      /\ S \subseteq (1..Len(txs)) \ kept
      /\ Closed(S, kept)
      /\ blocks' = blocks \o <<{}, S>>
      /\ nodeChain' = Front(nodeChain) \o <<Len(blocks) + 1, Len(blocks) + 2>>
      /\ reorgs' = reorgs + 1
      /\ UNCHANGED <<txs, pc, wallet, lastCommitmentTxId, queue, tree, memory, disk,
                     past>>
-----------------------------------------------------------------------------
(***************************************************************************)
(* The wallet.  BlockLoop polls the node, attaches the best chain to the   *)
(* one it follows and goes through the new blocks.                         *)
(***************************************************************************)
WalletUnchanged == UNCHANGED <<node, lastCommitmentTxId, tree, memory, disk, past>>

\* The last block of the node's chain that the wallet follows too.
Attached ==
  CHOOSE i \in 1..Len(nodeChain) :
    /\ Contains(activeChain, nodeChain[i])
    /\ \A j \in (i + 1)..Len(nodeChain) : ~Contains(activeChain, nodeChain[j])

PollSynced ==
  /\ pc["wallet"] = "poll" /\ activeChain # <<>>
  /\ Last(nodeChain) = Last(activeChain)
  /\ synced' = TRUE
  /\ UNCHANGED <<pc, activeChain, todo, skips, utxos, chainstate, queue>>
  /\ WalletUnchanged

PollNewBlocks ==
  LET pending == SubSeq(nodeChain, Attached + 1, Len(nodeChain))
      at == CHOOSE i \in 1..Len(activeChain) : activeChain[i] = nodeChain[Attached]
  IN  /\ pc["wallet"] = "poll" /\ activeChain # <<>>
      /\ Last(nodeChain) # Last(activeChain)
      /\ synced' = FALSE
      /\ activeChain' = SubSeq(activeChain, 1, at) \o pending
      /\ todo' = pending
      /\ Goto("wallet", "block")
      /\ UNCHANGED <<skips, utxos, chainstate, queue>>
      /\ WalletUnchanged

\* The chain has no last block: an index out of range ends the process.
PollPanics ==
  /\ pc["wallet"] = "poll" /\ activeChain = <<>>
  /\ pc' = Everywhere("panic")
  /\ UNCHANGED <<wallet, queue>>
  /\ WalletUnchanged

\* GetBlock fails: the loop goes on with the next block.
SkipBlock ==
  /\ pc["wallet"] = "block" /\ todo # <<>>
  /\ skips < MaxSkips /\ reorgs = 0 /\ crashes = 0 /\ DepositsMade < MaxDeposits
  /\ todo' = Tail(todo)
  /\ skips' = skips + 1
  /\ UNCHANGED <<pc, activeChain, synced, utxos, chainstate, queue>>
  /\ WalletUnchanged

\* processBlock, first half: the listeners get the block.
NotifyListeners ==
  /\ pc["wallet"] = "block" /\ todo # <<>>
  /\ Len(queue) < QueueSize
  /\ queue' = Append(queue, Head(todo))
  /\ Goto("wallet", "process")
  /\ UNCHANGED wallet
  /\ WalletUnchanged

\* processBlock, second half: processTransaction for every transaction, in
\* the order of the block, which has a transaction after those it spends.
Registered(outs, S) ==
  LET new == {i \in S : txs[i].value > 0 /\ ~Contains(outs, i)}
      spent == UNION {Spends(i) : i \in S}
  IN  SelectSeq(outs \o SetToSortSeq(new, <), LAMBDA i : i \notin spent)

ProcessTransactions ==
  /\ pc["wallet"] = "process"
  /\ utxos' = Registered(utxos, blocks[Head(todo)])
  /\ todo' = Tail(todo)
  /\ Goto("wallet", "block")
  /\ UNCHANGED <<activeChain, synced, skips, chainstate, queue>>
  /\ WalletUnchanged

PersistChainState ==
  /\ pc["wallet"] = "block" /\ todo = <<>>
  /\ synced' = TRUE
  /\ chainstate' = activeChain
  /\ Goto("wallet", "poll")
  /\ UNCHANGED <<activeChain, todo, skips, utxos, queue>>
  /\ WalletUnchanged
-----------------------------------------------------------------------------
(***************************************************************************)
(* Server.Commit, by the thread t ("run" for the first commitment, then    *)
(* "watcher").  The statements of the clients and the delta proofs are in  *)
(* LogServer; here the first step is all that happens under the mptLock.   *)
(***************************************************************************)
Committers == {"run", "watcher"}
Returned(t) == IF t = "run" THEN "ready" ELSE "idle"

CommitNoChanges(t) ==
  /\ pc[t] = "commit"
  /\ Commitment(tree) = lastCommitment
  /\ tree' = Hashed(tree)
  /\ Goto(t, Returned(t))
  /\ UNCHANGED <<node, wallet, lastCommitmentTxId, queue, memory, disk, past>>

CommitTree(t) ==
  /\ pc[t] = "commit"
  /\ Commitment(tree) # lastCommitment
  /\ tree' = Hashed(tree)
  /\ lastCommitment' = Commitment(tree)
  /\ LastCommitMpt' = Copy(Hashed(tree))
  /\ sending' = [comm |-> Commitment(tree), tx |-> 0]
  /\ Goto(t, "send")
  /\ UNCHANGED <<node, wallet, lastCommitmentTxId, queue, LastConfirmedCommitMpt,
                 commitments, LastCommitHeight, scanned, disk, past>>

(***************************************************************************)
(* wallet.Commit: AddInputsAndChange takes every output it knows, the last *)
(* commitment's first, and gives change above MINOUTPUT.                   *)
(***************************************************************************)
\* The outputs in the order they came in.
InputsInOrder == utxos

Inputs ==
  IF Contains(utxos, lastCommitmentTxId)
  THEN <<lastCommitmentTxId>> \o SelectSeq(utxos, LAMBDA i : i # lastCommitmentTxId)
  ELSE utxos

Change == LET left == Value(utxos) - Fee IN IF left > MINOUTPUT THEN left ELSE 0

Sendable == Value(utxos) >= Fee /\ Accepted(Inputs)

SendRawTransaction(t) ==
  /\ pc[t] = "send"
  /\ Sendable
  /\ txs' = Append(txs, Tx(sending.comm, Inputs, Change))
  /\ sending' = [sending EXCEPT !.tx = Len(txs) + 1]
  /\ Goto(t, "sent")
  /\ UNCHANGED <<blocks, nodeChain, reorgs, wallet, lastCommitmentTxId, queue, tree,
                 lastCommitment, LastCommitMpt, LastConfirmedCommitMpt, commitments,
                 LastCommitHeight, scanned, disk, past>>

\* An error ends Commit: Run panics, blockWatcher logs it.
CommitError(t) ==
  pc' = IF t = "run" THEN Everywhere("panic") ELSE [pc EXCEPT ![t] = "idle"]

SendFails(t) ==
  /\ pc[t] = "send"
  /\ ~Sendable
  /\ CommitError(t)
  /\ UNCHANGED <<node, wallet, lastCommitmentTxId, queue, tree, memory, disk, past>>

\* The call fails on its way: the node has the transaction (only the reply is
\* lost) or it has not.
SendInterrupted(t) ==
  /\ pc[t] = "send"
  /\ Sendable
  /\ skips < MaxSkips /\ reorgs = 0 /\ crashes = 0 /\ DepositsMade < MaxDeposits
  /\ skips' = skips + 1
  /\ \/ UNCHANGED <<txs, unsaved>>
     \/ /\ txs' = Append(txs, Tx(sending.comm, Inputs, Change))
        /\ unsaved' = unsaved \cup {Len(txs) + 1}
  /\ CommitError(t)
  /\ UNCHANGED <<blocks, nodeChain, reorgs, activeChain, todo, synced, utxos,
                 chainstate, lastCommitmentTxId, queue, tree, memory, disk, earlier,
                 starts, crashes, torn>>

SaveTxId(t) ==
  /\ pc[t] = "sent"
  /\ lastCommitmentTxId' = sending.tx
  /\ Goto(t, "save")
  /\ UNCHANGED <<node, wallet, queue, tree, memory, disk, past>>

\* saveCommitment: the entry with the same root is replaced.
Saved(cs, c) ==
  IF \E i \in 1..Len(cs) : cs[i].comm = c.comm
  THEN [i \in 1..Len(cs) |-> IF cs[i].comm = c.comm THEN c ELSE cs[i]]
  ELSE Append(cs, c)

Written(db, c) == {d \in db : d.comm # c.comm} \cup {c}

Later(a, b) == IF a > b THEN a ELSE b

\* The new commitment only gets to the database.
SaveCommitmentOnDisk(t) ==
  LET c == Commitments(sending.comm, sending.tx, Height, 0)
  IN  /\ pc[t] = "save"
      /\ commitmentDb' = Written(commitmentDb, c)
      /\ LastCommitHeight' = Later(LastCommitHeight, c.triggered)
      /\ Goto(t, "state")
      /\ UNCHANGED <<node, wallet, lastCommitmentTxId, queue, tree, lastCommitment,
                     LastCommitMpt, LastConfirmedCommitMpt, commitments, scanned,
                     sending, zeroIndexed, serverstate, past>>

SaveCommitment(t) ==
  LET c == Commitments(sending.comm, sending.tx, Height, 0)
  IN  /\ pc[t] = "save"
      /\ commitments' = Saved(commitments, c)
      /\ commitmentDb' = Written(commitmentDb, c)
      /\ LastCommitHeight' = Later(LastCommitHeight, c.triggered)
      /\ Goto(t, "state")
      /\ UNCHANGED <<node, wallet, lastCommitmentTxId, queue, tree, lastCommitment,
                     LastCommitMpt, LastConfirmedCommitMpt, scanned, sending,
                     zeroIndexed, serverstate, past>>

\* The confirmed tree is left out of the file.
StateWithoutConfirmed(last, confirmed) ==
  [last |-> Serialized(last), confirmed |-> NoTree]

State(last, confirmed) ==
  [last |-> Serialized(last), confirmed |-> Serialized(confirmed)]

CommitState(t) ==
  /\ pc[t] = "state"
  /\ serverstate' = State(LastCommitMpt, LastConfirmedCommitMpt)
  /\ Goto(t, "force")
  /\ UNCHANGED <<node, wallet, lastCommitmentTxId, queue, tree, memory, commitmentDb,
                 zeroIndexed, past>>

ForceNext(t) ==
  /\ pc[t] = "force"
  /\ tree' = OwnRoot(tree, sending.comm)
  /\ Goto(t, Returned(t))
  /\ UNCHANGED <<node, wallet, lastCommitmentTxId, queue, memory, disk, past>>
-----------------------------------------------------------------------------
(***************************************************************************)
(* blockWatcher: processMerkleProofs goes over all commitments, since they *)
(* can reorg; then the server commits when CommitEveryNBlocks have passed  *)
(* and nothing is pending.                                                 *)
(***************************************************************************)
ReceiveBlock ==
  /\ pc["watcher"] = "idle" /\ queue # <<>>
  /\ scanned' = 0
  /\ Goto("watcher", "scan")
  /\ UNCHANGED <<node, wallet, lastCommitmentTxId, queue, tree, lastCommitment,
                 LastCommitMpt, LastConfirmedCommitMpt, commitments,
                 LastCommitHeight, sending, disk, past>>

\* Only the pending commitments are looked for.
HitPending(i) ==
  /\ i \in (scanned + 1)..Len(commitments)
  /\ commitments[i].block = 0
  /\ commitments[i].tx \in blocks[Head(queue)]

\* The first commitment after those scanned that the block contains.
Hit(i) ==
  /\ i \in (scanned + 1)..Len(commitments)
  /\ commitments[i].tx \in blocks[Head(queue)]
  /\ \A j \in (scanned + 1)..(i - 1) : commitments[j].tx \notin blocks[Head(queue)]

\* Any commitment that is found confirms the last tree.
IncludeConfirms(i) ==
  /\ pc["watcher"] = "scan"
  /\ Hit(i)
  /\ commitments' = [commitments EXCEPT ![i].block = Head(queue)]
  /\ LastConfirmedCommitMpt' = LastCommitMpt
  /\ serverstate' = State(LastCommitMpt, LastCommitMpt)
  /\ scanned' = i
  /\ Goto("watcher", "include")
  /\ UNCHANGED <<node, wallet, lastCommitmentTxId, queue, tree, lastCommitment,
                 LastCommitMpt, LastCommitHeight, sending, commitmentDb, zeroIndexed,
                 past>>

IncludeCommitment(i) ==
  LET last == commitments[i].comm = lastCommitment
  IN  /\ pc["watcher"] = "scan"
      /\ Hit(i)
      /\ commitments' = [commitments EXCEPT ![i].block = Head(queue)]
      /\ LastConfirmedCommitMpt' = IF last THEN LastCommitMpt
                                   ELSE LastConfirmedCommitMpt
      /\ serverstate' = IF last THEN State(LastCommitMpt, LastCommitMpt)
                        ELSE serverstate
      /\ scanned' = i
      /\ Goto("watcher", "include")
      /\ UNCHANGED <<node, wallet, lastCommitmentTxId, queue, tree, lastCommitment,
                     LastCommitMpt, LastCommitHeight, sending, commitmentDb,
                     zeroIndexed, past>>

SaveIncluded ==
  LET c == commitments[scanned]
  IN  /\ pc["watcher"] = "include"
      /\ commitments' = Saved(commitments, c)
      /\ commitmentDb' = Written(commitmentDb, c)
      /\ LastCommitHeight' = Later(LastCommitHeight, c.triggered)
      /\ Goto("watcher", "scan")
      /\ UNCHANGED <<node, wallet, lastCommitmentTxId, queue, tree, lastCommitment,
                     LastCommitMpt, LastConfirmedCommitMpt, scanned, sending,
                     zeroIndexed, serverstate, past>>

getPendingCommitments == {i \in 1..Len(commitments) : commitments[i].block = 0}

\* A commitment is made while another one waits for its block.
CheckHeightOnly ==
  /\ pc["watcher"] = "scan"
  /\ ~\E i \in 1..Len(commitments) : Hit(i)
  /\ queue' = Tail(queue)
  /\ IF Height >= LastCommitHeight + CommitEveryNBlocks /\ isReady
     THEN Goto("watcher", "commit")
     ELSE Goto("watcher", "idle")
  /\ UNCHANGED <<node, wallet, lastCommitmentTxId, tree, memory, disk, past>>

CheckThreshold ==
  /\ pc["watcher"] = "scan"
  /\ ~\E i \in 1..Len(commitments) : Hit(i)
  /\ queue' = Tail(queue)
  /\ IF /\ Height >= LastCommitHeight + CommitEveryNBlocks
        /\ getPendingCommitments = {}
        /\ isReady
     THEN Goto("watcher", "commit")
     ELSE Goto("watcher", "idle")
  /\ UNCHANGED <<node, wallet, lastCommitmentTxId, tree, memory, disk, past>>
-----------------------------------------------------------------------------
(***************************************************************************)
(* Server.Run.  NewWallet reads the wallet's outputs (in the order of      *)
(* their keys, which are hashes: any order) and chain; loadState,          *)
(* loadCommitments and loadLogs read the rest.  The commitments in the     *)
(* database must form one chain that starts with the maiden hash, or the   *)
(* server panics.  The -rescan flag is 0, as it is unless given.           *)
(***************************************************************************)
Orders(S) == {s \in [1..Cardinality(S) -> S] : IsInjective(s)}

NewWallet(outs) ==
  /\ outs \in Orders(ToSet(utxos))
  /\ utxos' = outs
  /\ activeChain' = chainstate
  /\ todo' = <<>> /\ queue' = <<>> /\ synced' = FALSE
  /\ UNCHANGED <<skips, lastCommitmentTxId, chainstate>>

\* loadState copies the tree before any hash of it is computed.
Loaded(c) ==
  IF c.z = None THEN EmptyTree
  ELSE [n |-> c.n, hn |-> IF c.n = 0 THEN Statements(0) ELSE Zero, z |-> c.z,
        hz |-> Zero, aliased |-> FALSE]

loadState ==
  /\ tree' = Loaded(serverstate.last)
  /\ LastCommitMpt' = Deserialized(serverstate.last)
  /\ LastConfirmedCommitMpt' = Deserialized(serverstate.confirmed)
  /\ lastCommitment' = Deserialized(serverstate.last).root

\* The commitment that comes next in the chain s; an output is spent once.
Follows(c, s) ==
  IF s = <<>> THEN c.comm = MaidenHash ELSE Head(txs[c.tx].ins) = Last(s).tx

InRightOrder(db) ==
  LET Longer(s) == IF \E c \in db : Follows(c, s)
                   THEN Append(s, CHOOSE c \in db : Follows(c, s)) ELSE s
  IN  FoldSet(LAMBDA c, s : Longer(s), <<>>, db)

Reconstructed(db) == Len(InRightOrder(db)) = Cardinality(db)

loadCommitments ==
  LET s == InRightOrder(commitmentDb)
  IN  /\ Reconstructed(commitmentDb)
      /\ commitments' = s
      /\ LastCommitHeight' = IF s = <<>> THEN 0 ELSE Last(s).triggered

Start(outs) ==
  /\ pc["run"] = "down"
  /\ NewWallet(outs)
  /\ loadState
  /\ loadCommitments
  /\ pc' = [run |-> "trigger", watcher |-> "idle", wallet |-> "poll"]
  /\ scanned' = 0 /\ sending' = [comm |-> None, tx |-> 0]
  /\ starts' = starts + 1
  /\ UNCHANGED <<node, disk, earlier, crashes, unsaved, torn>>

StartPanics ==
  /\ pc["run"] = "down"
  /\ ~Reconstructed(commitmentDb)
  /\ pc' = Everywhere("panic")
  /\ UNCHANGED <<node, wallet, lastCommitmentTxId, queue, tree, memory, disk, past>>

\* RegisterLogStatement([32]byte{}, GetNextLogIndex(), trigger).
Trigger ==
  /\ pc["run"] = "trigger"
  /\ tree' = OwnStatement(tree, TriggerValue(starts))
  /\ zeroIndexed' = TRUE
  /\ Goto("run", IF commitments = <<>> THEN "unsynced" ELSE "ready")
  /\ UNCHANGED <<node, wallet, lastCommitmentTxId, queue, memory, commitmentDb,
                 serverstate, past>>

WaitSynced ==
  /\ pc["run"] = "unsynced"
  /\ synced
  /\ Goto("run", "unfunded")
  /\ UNCHANGED <<node, wallet, lastCommitmentTxId, queue, tree, memory, disk, past>>

WaitFunded ==
  /\ pc["run"] = "unfunded"
  /\ Value(utxos) > 5
  /\ Goto("run", "maiden")
  /\ UNCHANGED <<node, wallet, lastCommitmentTxId, queue, tree, memory, disk, past>>

\* RegisterLogStatement([32]byte{}, 0, logHash): index 0 is only right for a
\* log without statements, and the error is not looked at.
MaidenStatement ==
  /\ pc["run"] = "maiden"
  /\ tree' = IF zeroIndexed THEN tree ELSE OwnStatement(tree, MaidenValue)
  /\ zeroIndexed' = TRUE
  /\ Goto("run", "commit")
  /\ UNCHANGED <<node, wallet, lastCommitmentTxId, queue, memory, commitmentDb,
                 serverstate, past>>

Ready ==
  /\ pc["run"] = "ready"
  /\ Goto("run", "serve")
  /\ UNCHANGED <<node, wallet, lastCommitmentTxId, queue, tree, memory, disk, past>>

\* A client's statement: RegisterLogStatement once the server accepts
\* connections.
ClientStatement ==
  /\ isReady
  /\ tree.n < Earlier(earlier).n + MaxStatements
  /\ tree' = [tree EXCEPT !.n = @ + 1, !.hn = Stale]
  /\ UNCHANGED <<node, pc, wallet, lastCommitmentTxId, queue, memory, disk, past>>

\* What a crash in persistChainState leaves of chainstate.hex: WriteFile empties
\* the file and then writes it, and readChainState takes the whole hashes in it.
CutShort ==
  IF pc["wallet"] = "block" /\ todo = <<>>
  THEN {SubSeq(activeChain, 1, n) : n \in 0..(Len(activeChain) - 1)}
  ELSE {}

\* What a crash in commitState leaves of serverstate.hex, which is written the
\* same way: loadState cannot parse what is cut short, and Run goes on without.
WritesState ==
  \/ \E t \in Committers : pc[t] = "state"
  \/ /\ pc["watcher"] = "scan"
     /\ \E i \in 1..Len(commitments) : Hit(i) /\ commitments[i].comm = lastCommitment

StateCutShort ==
  IF WritesState THEN {[last |-> NoTree, confirmed |-> NoTree]} ELSE {}

Sent ==
  IF \E t \in Committers : pc[t] \in {"sent", "save"} THEN {sending.tx} ELSE {}

\* The process dies: only the files are left.
Crash(left, state) ==
  /\ Up
  /\ crashes < MaxCrashes /\ reorgs = 0 /\ DepositsMade < MaxDeposits
  /\ skips = 0 \/ unsaved # {}
  /\ pc' = Everywhere("down")
  /\ crashes' = crashes + 1
  /\ activeChain' = <<1>> /\ todo' = <<>> /\ synced' = FALSE /\ queue' = <<>>
  /\ tree' = EmptyTree
  /\ lastCommitment' = None
  /\ LastCommitMpt' = NoTree /\ LastConfirmedCommitMpt' = NoTree
  /\ commitments' = <<>> /\ LastCommitHeight' = 0
  /\ scanned' = 0 /\ sending' = [comm |-> None, tx |-> 0]
  /\ chainstate' = left
  /\ serverstate' = state
  /\ torn' = (torn \/ state # serverstate)
  /\ unsaved' = unsaved \cup Sent
  /\ UNCHANGED <<node, skips, utxos, lastCommitmentTxId, commitmentDb, zeroIndexed,
                 earlier, starts>>
-----------------------------------------------------------------------------
RunStep ==
  \/ \E outs \in Orders(ToSet(utxos)) : Start(outs)
  \/ StartPanics
  \/ Trigger
  \/ WaitSynced
  \/ WaitFunded
  \/ MaidenStatement
  \/ Ready

CommitStep(t) ==
  \/ CommitNoChanges(t)
  \/ CommitTree(t)
  \/ SendRawTransaction(t)
  \/ SendFails(t)
  \/ SaveTxId(t)
  \/ SaveCommitment(t)
  \/ CommitState(t)
  \/ ForceNext(t)

WatcherStep ==
  \/ ReceiveBlock
  \/ \E i \in 1..Len(commitments) : IncludeCommitment(i)
  \/ SaveIncluded
  \/ CheckThreshold

WalletStep ==
  \/ PollSynced
  \/ PollNewBlocks
  \/ PollPanics
  \/ NotifyListeners
  \/ ProcessTransactions
  \/ PersistChainState

NodeStep ==
  \/ \E v \in Deposits : Deposit(v)
  \/ \E S \in SUBSET Mempool : Mine(S)
  \/ \E S \in SUBSET (1..Len(txs)) : Reorg(S)

Next ==
  \/ RunStep
  \/ \E t \in Committers : CommitStep(t)
  \/ WatcherStep
  \/ WalletStep
  \/ SkipBlock
  \/ \E t \in Committers : SendInterrupted(t)
  \/ NodeStep
  \/ ClientStatement
  \/ \E left \in {chainstate} \cup CutShort, state \in {serverstate} \cup StateCutShort :
       Crash(left, state)

Spec == Init /\ [][Next]_vars

(***************************************************************************)
(* Each thread runs on: they are goroutines, the wallet polls every five   *)
(* seconds and the channels are served.  Nothing is assumed of the node,   *)
(* the clients, failing calls and crashes.                                 *)
(***************************************************************************)
Fairness ==
  /\ WF_vars(RunStep)
  /\ \A t \in Committers : WF_vars(CommitStep(t))
  /\ WF_vars(WatcherStep)
  /\ WF_vars(WalletStep)

FairSpec == Spec /\ Fairness
-----------------------------------------------------------------------------
(***************************************************************************)
(* blockWatcher waits for a commitment to be mined before it commits       *)
(* again: at most one of them is pending.                                  *)
(***************************************************************************)
OnePending == Cardinality(getPendingCommitments) <= 1

(***************************************************************************)
(* "The previous commitment should be the first txin to ensure we form a   *)
(* chain" (AddInputsAndChange): every recorded commitment spends the       *)
(* change of the one before it with its first input, across deposits,      *)
(* reorganisations, failing calls, crashes and restarts.  Two cases leave  *)
(* nothing to spend and are excepted: a commitment whose remainder was not *)
(* above MINOUTPUT has no change, and the change may have gone into a      *)
(* transaction that was sent and not saved.                                *)
(***************************************************************************)
CommitmentsLinked ==
  \A i \in 2..Len(commitments) :
    LET previous == commitments[i - 1].tx
    IN  \/ Head(txs[commitments[i].tx].ins) = previous
        \/ txs[previous].value = 0
        \/ \E j \in unsaved : previous \in Spends(j)

(***************************************************************************)
(* The history the server serves is complete but for interrupted calls of  *)
(* Commit: a commitment the node has accepted is in it, across crashes and *)
(* restarts, unless Commit is about to put it there, or was cut off after  *)
(* the node had taken the transaction, by a lost reply or a crash.         *)
(***************************************************************************)
HistoryComplete ==
  Up => \A i \in 1..Len(txs) :
          IsCommitment(i) =>
            \/ \E k \in 1..Len(commitments) : commitments[k].tx = i
            \/ i \in Sent \cup unsaved

(***************************************************************************)
(* The tree that proofs are served from is the tree of a commitment that   *)
(* is in a block (processMerkleProofs), also when reorganisations make the *)
(* server find old commitments again, while the process runs.              *)
(***************************************************************************)
ConfirmedWasMined ==
  crashes = 0 /\ LastConfirmedCommitMpt # NoTree =>
    \E k \in 1..Len(commitments) :
      /\ commitments[k].comm = LastConfirmedCommitMpt.root
      /\ commitments[k].block # 0

(***************************************************************************)
(* What is on disk is never taken back, across crashes and restarts: a     *)
(* commitment in the database keeps its transaction and stays in a block   *)
(* once it was in one, and a later commitState writes no fewer confirmed   *)
(* statements, all of them part of the last tree.  A crash in the middle   *)
(* of commitState is excepted: WriteFile has emptied serverstate.hex, and  *)
(* the tree and what was confirmed are lost.                               *)
(***************************************************************************)
DurableProgress ==
  [][ /\ \A d \in commitmentDb : \E e \in commitmentDb' :
           e.comm = d.comm /\ e.tx = d.tx /\ (d.block # 0 => e.block # 0)
      /\ \/ torn'
         \/ /\ serverstate'.confirmed.n >= serverstate.confirmed.n
            /\ serverstate'.confirmed # NoTree \/ serverstate.confirmed = NoTree
            /\ serverstate'.last.n >= serverstate'.confirmed.n
    ]_<<serverstate, commitmentDb>>

(***************************************************************************)
(* A commitment in a block of the node's chain ends up recorded with a     *)
(* block of that chain ("Scan all commitments. Commitments can reorg.").   *)
(***************************************************************************)
Outdated(k) ==
  /\ Up
  /\ k <= Len(commitments)
  /\ commitments[k].tx \in Mined
  /\ ~Contains(nodeChain, commitments[k].block)

MinedIsConfirmed == \A k \in 1..(Max(Histories) + MaxBlocks) : Outdated(k) ~> ~Outdated(k)

(***************************************************************************)
(* A restart finds the commitments in the database to be one chain from    *)
(* the maiden commitment on: loadCommitments panics otherwise.  Does not   *)
(* hold: the maiden commitment of a fresh server has another value.        *)
(***************************************************************************)
NeverPanics == pc["run"] # "panic"

(***************************************************************************)
(* "Did not find last commitment's output in the UTXOs. This is fine when  *)
(* we are a fresh server. Otherwise, there's something wrong"              *)
(* (AddInputsAndChange): the wallet has the output when it is to be spent. *)
(* Does not hold: the watcher commits while the block's outputs are not    *)
(* entered yet.                                                            *)
(***************************************************************************)
LastOutputFound ==
  \A t \in Committers :
    pc[t] = "send" /\ lastCommitmentTxId # 0 => Contains(utxos, lastCommitmentTxId)

(***************************************************************************)
(* "Retain the full MPT at the time of commitment to be able to serve      *)
(* proofs" (Commit): the statements of every recorded commitment are in    *)
(* the server's tree.  Does not hold across a crash before commitState.    *)
(***************************************************************************)
StatementsIn(comm) == IF comm[2] = Zero THEN 0 ELSE comm[2][2]

CommittedIsRetained ==
  Up => \A k \in 1..Len(commitments) : tree.n >= StatementsIn(commitments[k].comm)
=============================================================================

# b_verify: models, checks and proofs

b_verify is a public log server that cannot show different histories to
different clients. Clients register logs and append signed statements. The
server keeps the last statement of every log in a Merkle prefix trie (MPT) and
from time to time commits the root of the trie in a Bitcoin transaction that
spends the previous commitment. Clients check the chain of commitments against
block headers and their statements against proofs from the trie.

This directory models that program in TLA+, checks the models with TLC and
proves the server core's invariants, and that it implements an abstract ledger,
with TLAPS. `PROJECT.json` is the index: it ties every definition to the lines
it models, every property to a mutation of the code's model that breaks it, and
every hazard to the properties that watch it.

## 1. Inventory

| Part | Source | State | Operations | Modules |
|---|---|---|---|---|
| server core | `src/server/server.go`, `logprocessor.go` | key and index of every log, the trie, last commitment, last committed trie, last delta, open connections, four locks | create, append, subscribe, unsubscribe, close, `Commit`, `SendProofs`, start-up | `LogServer`; what it promises: `StatementLedger`, `LogServerLedger` |
| commitment life cycle | `server.go` (`blockWatcher`, `processMerkleProofs`, `Commit`, `load*`, `save*`), `src/wallet/wallet.go` | wallet's chain, outputs and last transaction, block queue, commitments, files | poll, process block, pay and send, record, confirm, crash, restart | `CommitChain` |
| Merkle prefix trie | `src/mpt/*.go` | nodes with values, cached hashes and change marks | insert, delete, get, hash, copy, serialize, partial and delta tries, apply updates | `Mpt`, `ProofUpdates` |
| transaction proofs | `src/utils/merkleproof.go`, `src/bitcoin/blockchain/merkle.go` | none | build tree, build proof, check proof | `MerkleProof` |
| client: requests and verification | `src/client/client.go`, `chainverify.go`, `commitverify.go` | channels for answers, local log, verified commitments, proofs | start log, append, receive loop, reconnect, `verifyLoop`, `updateProofs` | `ClientLog` |
| client: foreign logs and exports | `client.go`, `commitverify.go`, `rpc.go` | the same database with preimages | export, verify once, add a foreign log, list logs | `LogExport` |
| client: block headers | `src/client/uspv/*.go`, `src/bitcoin/coinparam` | header file, index of offsets, connection | connect, ask, check, reorganise, write, look up | `HeaderRules`, `HeaderSync` |
| client-server messages | `src/wire/*.go`, node encodings of `src/mpt` | none | frames, statements, requests, commitments, proofs | `LogMessages` |
| Bitcoin messages | `src/bitcoin/wire/*.go` | pool of script buffers | write and read every message, transactions, blocks, frames | `WireFormat`, `BtcMessages`, `BtcTransactions`, `BtcFrames` |
| Bitcoin script | `src/bitcoin/txscript/*.go` | engine, two stacks, signature cache | parse, build, execute, sign, merge | `ScriptCode`, `ScriptStandard`, `ScriptSighash`, `ScriptOps`, `ScriptEngine`, `ScriptSign`, `ScriptSpend` |
| node RPC client | `src/bitcoin/rpcclient/infrastructure.go`, `notify.go` | list and map of requests, connection, channels | send, receive, reconnect and resend, disconnect, shut down | `RpcClient` |
| elliptic curve | `src/crypto/btcec/*.go`, `src/crypto/sig64` | none | field, points, multiples, ECDSA, encodings | `CurveField`, `CurvePoint`, `CurveScalar`, `CurveSignature` |

How they interact. A connection's goroutine (`ServerLogProcessor.Process`)
reads messages and calls `RegisterLogID` and `RegisterLogStatement`, which touch
three structures under three locks, one after the other. The wallet's goroutine
polls the Bitcoin node through the RPC client and hands every new block to the
block watcher through a channel of 100. The watcher records where commitments
were mined and calls `Commit` when enough blocks have passed and nothing is
pending. `Commit` holds the tree's lock while it computes the root, copies the
tree, makes the delta and waits for one goroutine per connection that pushes the
delta; then it lets go, pays for a transaction (built and signed with the script
package), saves it, saves the tree, and states the root in the server's own log
so that the next round has something to commit. A restart rebuilds everything
from four files that are written at different times. A client keeps its own
header file up to date from a Bitcoin peer, asks the server for the history of
commitments, checks each against its block header and asks for proofs of its
logs; it can export a statement with its proof for another client to check.

The behaviours that make this hard, each listed as a hazard with its line in
`PROJECT.json`:

* check-then-act across two critical sections (index, log identifier);
* statements between the steps of `Commit`, connections that close meanwhile;
* one lock held while goroutines wait for network peers;
* a slice that is shared instead of copied between the root and a leaf;
* caches: node hashes, change marks, header offsets, verified signatures, the
  stored block of a commitment;
* crashes between two of the writes to the node, the wallet and three files, and
  in the middle of writing the chain state, the server state or a header; a reply
  of the node that is lost after it took effect;
* blocks that are announced before their outputs are entered, reorganised,
  skipped after a failed download, or queued when the process dies;
* answers without request numbers, time-outs, dropped answers, one goroutine per
  headers message, requests that are resent while their connection still ends;
* a transaction that is amended between the signatures of its co-signers;
* limits: the change output, blocks that are not a power of two, counts and sizes
  at the boundaries of their encodings, pooled buffers on error paths, words with
  spare bits, points at infinity.

## 2. How the project grew

First came `LogServer` with its proofs, `Mpt`, `ProofUpdates`, `CommitChain`,
`MerkleProof` and `ClientLog`. Then the abstract ledger and the refinement, torn
chain states, the header file, the RPC client, exports, and the libraries the
system is built on: script, wire formats and the curve.

What would add most next, in this order:

1. `verifyCommitment` in full and `ClearCommitments`, over a history that grows
   and reorganises as in `CommitChain`, which `ClientLog` takes to be linked.
2. The read-only request paths of the server with their unlocked reads.
3. Proofs for `CommitChain` (one pending commitment, complete history) and for
   `RpcClient` (a request is resolved once).

## 3. Modules and the code

**LogServer.** A thread per connection and one, `Srv`, for `Run` and then the
block watcher. A thread's position is `pc`; the steps between two lock
operations of the code are one action: `CheckLogID`, `SetLogID`,
`VerifyAppendLog`, `CheckIndex`, `SetIndex`, `InsertStatement`, `Ack`, `Close`
on a connection; `Trigger`, `MaidenStatement`, `CommitBegin`, `CommitCopy`,
`LockProcessors`, `SendProofs`, `CommitEnd`, `WalletCommits`, `WalletFails`,
`CommitReturns` on `Srv`. The locks that are held for one map access are
atomic steps, `mptLock` and `processorsLock` are variables. The trie is a
dictionary with a set of marked leaves; a new leaf may displace one other leaf,
which marks it too. `view` is what the peer of a connection knows from the pushed
updates; `acked`, `awaited` and `forced` record history for the properties.
`Overlapping` says whether two connections may have statements for one log in
flight, the case in which the two-lock check of the code fails.

**StatementLedger** is what the server promises, with no threads, locks, marks or
deltas: a book in which every log gets one statement after the other, a
publication of the whole book as it is at one instant, and peers that are shown
leaves of what is published. **LogServerLedger** maps the server to it: the book
is the tree, the published book the last commitment, and what is shown is
`view`.

**Mpt** is the trie: nodes are records with a value or children, a cached hash
and a change mark, hashes are symbolic terms. `insertHelper`, `split`,
`deleteHelper`, `GetHash`, `copyMultiplePaths`, `copyChangesOnlyHelper`,
`getUpdatesHelper`, `UpdateNode`, serialization (which forgets hashes and
marks) and their callers are recursive operators. **ProofUpdates** is a server
that uses it (insert, delete, commit, confirm, fail, save, restart) and a client
that asks for a proof once and applies every delta. Statements and `Commit`
exclude each other by `mptLock` (module LogServer), so they are single steps.

**CommitChain** has three threads of the server (`run`, `watcher`, `wallet`),
the disk and, external, the Bitcoin node: it accepts a transaction whose inputs
are unspent, mines what it likes and may replace its last block. Every write to
a file is a step of its own, `Crash` may come between any two, and in the middle
of the chain state and the server state file, which are truncated before they are
written. A call to the node may fail, with or without the node having taken the
transaction (`SendInterrupted`). A tree is the
number of client statements, the value of the server's own log and what their
cached hashes stand for; a transaction has its inputs in order and one output.
Amounts are in thousands of satoshi.

**ClientLog** has the goroutines of the RPC server (`call`), `verifyLoop` (`loop`),
`ReceiveLoop` (`offer`: the answer it holds out on an unbuffered channel) and, on
the other side, a server that registers a statement in the steps of `LogServer`
(look for the key, enter it, look at the index, enter it, insert), commits and
confirms. A closed connection the server still reads is handled beside the present
one (`Process`, `ProcessStale`); `overlapped` records the logs for which two of them
were between a check and what it allows.
A call checks the database (`StartLog`, `AppendLog`), writes (`Send`, `SendFails`),
waits (`DeliverToCall`, `TimesOut`) and stores (`Store`). A wait whose call returned
on a failed write is an orphan and still takes an answer. An answer knows the call
it belongs to only for the history variable `crossed`. What was written to a closed
connection may still be read by the server (`stale`). A panic of `verifyLoop` is
`Exit`: the process ends, the database stays. The goroutine that writes for
`StartLog` is taken to write before the call returns.

**LogMessages** has the byte forms of what client and server exchange: a stream
is a sequence of sized atoms, so that a reader that takes the wrong number of
bytes gets the wrong field. **LogExport** is a client's database as a record and
`ExportLog`, `VerifyOnce`, `AddForeignLog`, `updateProofs` and `LogInfo` as
functions on it; `LogChecks` runs them over histories of two clients, in which the
block header of a commitment may be gone from the header file (`headers` of a client).
The time stamp of that header is left out.

**HeaderRules** has `CheckHeaderChain` with the difficulty rules and the decision
between branches. **HeaderSync** is the machine around it: the header file, the
connection to one of a list of nodes, one handler goroutine per headers message
(`Receive` starts it, at most `MaxHandlers` at once), each of which ingests
under the lock and asks again, the node that answers from its best branch, and
look-ups through the index of offsets. Lost connections, crashes (also within a
write) and switches of the node's branch are bounded faults.

**RpcClient** has the callers' goroutines, per connection a reader and a writer,
the reconnecting goroutine that registers notifications again and resends, the
HTTP POST handler, and the node, which answers requests in order until the
connection breaks. The list and map of requests are one sequence under one lock,
as in the code.

**Script.** `ScriptCode` has opcodes, parsing, numbers and the builder;
`ScriptStandard` the standard forms and addresses; `ScriptSighash` the legacy and
the witness digest as terms that contain exactly what is signed; `ScriptOps` one
operator per opcode on an engine record; `ScriptEngine` the engine with its flags,
encodings and signature opcodes; `ScriptSign` signing and merging; `ScriptSpend`
composes them: an output is spent by co-signers who sign and merge one after the
other (`CoSign`, `WitnessSign`, `ContractSign`), the transaction may be amended in
between (`Amend`), and engines that share a cache verify it (`VerifyInput`).

**Bitcoin messages.** `WireFormat` reads and writes layouts (a sequence of fields
with their sizes and limits); `BtcMessages` has one layout per message and
protocol version; `BtcTransactions` transactions and blocks, where a decoder
counts the buffers it borrows, refers to and returns; `BtcFrames` the message
header, its checks and how much is discarded on each error.

**Curve.** `CurveField` has the words of `fieldVal` with their carries, with the
number and width of words as constants. `CurvePoint` has the formulas as the
programs of the code, instruction by instruction, over registers that may
coincide, where each value carries its magnitude. `CurveScalar` has the split of a
factor by the endomorphism, the non-adjacent form and the byte tables;
`CurveSignature` ECDSA, recovery and the encodings.

**MerkleProof** models the array layout of `BuildMerkleTreeStore` with its nil
holes, `NewMerkleProof` and `Check`.

**Inputs**, **MCAlgorithms**: a state of the run `algorithms` is one input of one of
the pure functions above; `WireChecks`, `LogChecks`, `CurveChecks` and
`ScriptChecks` compare the functions with reference definitions on it.

How they fit: `LogServer` shows that `Commit` works on one state of the tree,
which lets `ProofUpdates` take statements and commits as atomic; `ProofUpdates`
shows that root, proofs and deltas of the trie stand for the dictionary, which
lets `LogServer` take the dictionary for the root; `CommitChain` starts where
`LogServer` leaves `Commit` (`WalletCommits`, `WalletFails`) and takes the
clients' statements as a count; `ClientLog` has the registration steps of `LogServer` and
takes from `CommitChain` that commitments are linked, the two exceptions of
`CommitmentsLinked` aside, and one is pending at a time. The encodings are checked
on their own, which lets these modules exchange records; `CurveSignature` and
`ScriptSpend` are what stands behind "a signature verifies" and "the node accepts
the transaction".

## 4. Runs

Passing runs:

| Run | Instance | What it shows |
|---|---|---|
| `server_lite` | no chain, 2 connections, 1 log, 2 payloads, indices 0 and 1; 904,515 states | with one connection per log at a time: acknowledged statements are kept (`AckedInTree`); commitments match the tree (`CommitmentMatchesTree`), a delta turns the last committed tree into the new one (`DeltaCoversCommit`), updates go to open connections (`UpdatesGoToRegistered`) and only move forward (`PushedUpdatesAdvance`) |
| `server_full` | chain, failing wallet, 1 connection, 1 log, 2 payloads, own log up to index 3; 104,330 states | the inductive invariant `IInv` of section 7; the server implements the ledger (`ImplementsLedger`); under fairness an accepted statement is in a commitment that was sent to the chain, unless the wallet failed with that commitment (`AcceptedIsCommitted`), and locks are released (`LocksAreReleased`); no deadlock |
| `trie` | 3 keys of 3 bits sharing prefixes; 2 values, deletions, 3 commits, or a full server with 2 commits, fresh or restarted once; 13,444 states | `Get` is the dictionary's, for the full server too; otherwise the root is that of a trie built from scratch (`TrieIsDictionary`), every proof verifies and answers its keys (`ProofsVerify`), updates keep a client's values (`UpdatesKeepValues`). The full server's own log shares the root's buffer, which breaks the latter three, see below |
| `chain` | fresh server, or one with 3 commitments and 3 fees left; 3 blocks, 2 deposits, 1 statement, and 1 reorganisation, or 1 failing call to the node, or 1 crash anywhere, or a lost reply and then a crash; 1,006,222 states | one recorded commitment is pending at a time (`OnePending`); across the crash, commitments spend one another while there is change to spend (`CommitmentsLinked`), all are in the history but those whose `Commit` was interrupted (`HistoryComplete`), and what was confirmed on disk goes back only when `serverstate.hex` is cut short (`DurableProgress`); until the crash, proofs come from a commitment that was mined (`ConfirmedWasMined`) |
| `chain_live` | server with 1 commitment, 3 blocks, 2 deposits, 1 reorganisation; 39,503 states | a mined commitment ends up recorded with a block of the node's chain (`MinedIsConfirmed`) |
| `client_log` | 2 RPC handlers, 1 log, new or started, with and without FastMode, 2 calls, 1 cut or restart, 2 commitments; 790,061 states | an entry stored on its own acknowledgement is what the server took at that index and all it took there, unless two server handlers overlapped on the log (`LocalIsPrefix`); what the client counts as committed is proven under a commitment it verified (`CommittedIsProven`); without FastMode the server has at most one uncommitted statement of a log, also when acknowledgements cross and handlers overlap (`OneUncommitted`) |
| `headers` | branches of 7 and 5 headers over an epoch boundary, 2 handlers, up to 2 lost connections, a crash and a reorganisation, then a look-up; 385,986 states | every record of the file is the header of its height on one branch, or a hole as described below; there is no hole while no connection was lost and the node follows one branch (`FileIsBranchUpToHoles`); without crash and reorganisation the client ends up synchronised (`SyncCompletes`) |
| `rpc` | 2 callers over POST or websocket, or 1 with reconnection; 2 connections; 250,637 states | no request is resolved twice (`ResolvedOnce`), but for the shutdown of a POST client described below; what a websocket caller waits for is in the list (`NoneForgotten`); its calls return while the first connection holds, or without reconnection (`CallsReturn`) |
| `script` | 8 kinds of outputs, 9 drafts, 4 hash types, 2 signatures, 1 amendment; 15,826 states | what the engine accepts is authorised by enough keys for the transaction as it is now (`AcceptedIsAuthorised`); what enough signers completed is accepted (`CompleteIsAccepted`); the cache changes no verdict (`CacheIsTransparent`); each stage of the rules only restricts (`FlagsOnlyRestrict`) |
| `algorithms` | 26 groups of inputs; 17,244 states | messages and frames (`MessagesRoundTrip`), transactions and the buffer pool (`TransactionsRoundTrip`), client-server messages and tries (`LogMessagesRoundTrip`), exported statements (`ExportsVerify`), Merkle proofs (`ProofIsExact`), field (`FieldIsExact`), points and multiples (`PointsFollowGroupLaw`), signatures and keys (`SignaturesVerify`), script encodings (`ScriptsCarryData`) and opcodes (`OpcodesDoAsDocumented`) |

Runs that end in a counterexample, where the code does not do what its comments
or tests say (quoted in `PROJECT.json`):

| Run | Property | What happens |
|---|---|---|
| `server_overlap` | `OneStatementPerIndex` | two connections with one log pass the index check before either sets the index; both statements are acknowledged |
| `header_lookup` | `LookupReturnsAsked` | a look-up that scans the file stores the offset after each header; a later look-up of one of these hashes returns the next header |

Observations of the same kind that have no run of their own. The first group are
invariants or properties of the modules and are refuted by TLC with the constants
given (those not named are as in the module's runs, with `CHECK_DEADLOCK FALSE`):

* `LogServer!FirstCommitmentIsMaiden`, as in `server_full`: the first commitment of
  a fresh server is of the trigger statement (`server.go:284`, `:322`).
* `LogServer!CreateIndexIsZero`, as in `server_lite` with `Overlapping = TRUE`: both
  connections create the log, the second finds its index taken (`server.go:158`).
* `LogServer!AcceptedIsPublished`, as in `server_full`: the wallet fails after the
  root has become the last commitment; nothing tries again until another statement
  changes the tree, and there may be none (`server.go:681`).
* `LogServer!AwaitedIsDelivered`: a `Commit` between the insertion of a first
  statement and the subscription to its log pushes nothing, and no later delta has
  the statement (`logprocessor.go:206`).
* `LogServer!ForcedChangePending`, as in `server_full`: the statement meant to force
  the next commitment is the root's own buffer and changes nothing
  (`server.go:695`). For the same reason the root of a full server's trie is not the
  one its contents have without a history.
* `ProofUpdates!OwnedProofsVerify`: `loadState` copies the tree before any hash of
  it is computed, so the copy claims to have cached hashes that are zero
  (`server.go:743`; `partialmpt.go:95` says that such a part "will end up being
  hashed to the same result").
* `ProofUpdates!UpdatedProofVerifies`: a delta has no node for the empty leaf that a
  split makes, and the updated proof has another root than the commitment
  (`deltampt.go:108`, where `:56` says that the client's view will reflect the
  update).
* `ClientLog!LocalIsPrefix` without the exception `crossed`: a call times out, the
  next one takes its late acknowledgement (`client.go:926`). Without the exception
  `overlapped`: while a create statement is between its key and its index, the server
  takes a statement with index 0 that is left on a cut connection; the creation is
  acknowledged and not in the tree (`logprocessor.go:204`, which says that index 0
  is always correct).
* `ClientLog!ValuesAreKnown`: an acknowledgement was lost with the connection, or is
  not stored yet when the proof is checked; the client panics although the server
  committed what it was sent (`commitverify.go:88`).
* `ClientLog!RequesterListens`: the history arrives between writing the request and
  waiting for it, is dropped, and `verifyLoop` waits for ever (`client.go:1011`).
* `ClientLog!RootIsKnown`: a commitment is confirmed between the history and the
  proof, and the client panics (`commitverify.go:41`).
* `CommitChain!NeverPanics`, `Histories = {0}`: the trigger statement takes index 0
  of the server's own log, the maiden statement is refused, and the restart does not
  find the maiden hash (`server.go:440`; `utils.go:195` says that every chain of
  commitments starts with it). With `Histories = {1}`: a transaction
  the node took and the server did not save leaves a gap in the commitments, and the
  next restart does not find them to be one chain (`server.go:687`). A crash that
  leaves `chainstate.hex` empty makes every later start panic (`wallet.go:141`,
  `:344`).
* `CommitChain!CommitmentsLinked` without its exceptions: a remainder of at most
  `MINOUTPUT` leaves nothing to chain to (`wallet.go:242`), and when the reply of the
  node is lost the change goes with a transaction that is never recorded
  (`wallet.go:427`).
* `CommitChain!HistoryComplete` without `unsaved`: the same lost reply, or a crash
  before `saveCommitment`, leaves a commitment on the chain that no history has
  (`server.go:688`).
* `CommitChain!DurableProgress` without `torn`: `WriteFile` empties `serverstate.hex`
  before it writes, and a crash in between loses the tree and what was confirmed
  (`server.go:712`); `loadState` ignores that the rest does not parse.
* `CommitChain!LastOutputFound`: the watcher commits while the wallet has not
  entered the block's outputs (`wallet.go:258`).
* `CommitChain!CommittedIsRetained`, one crash: the commitment is saved before the
  tree (`server.go:691`).
* `CommitChain!MinedIsConfirmed`, as in `chain_live` with one crash: blocks still
  queued for the watcher count as seen after a restart (`wallet.go:192`). With
  `Histories = {0}` no crash is needed: `Run` makes the first commitment, and its
  block can pass the watcher before `saveCommitment` has recorded it.

The second group was met while translating; the models have the behaviour and
the properties are stated so that it does not count:

* Headers. After a reorganisation, or a duplicate answer after a reconnection,
  `IngestHeaders` does not append: it truncates one header too many and writes after
  the gap, which leaves a record of zeroes where the branches part (`eight333.go:87`);
  `FileIsBranchUpToHoles` says where such holes can be. A late
  duplicate can shorten the file while `Synced` is set. A branch that parts before
  the last epoch boundary is refused for ever and asked for again and again.
  `CheckHeaderChain` compares the work of the two branches index by index, so that a
  branch of equal difficulty is taken whatever its length, unlike the comment at
  `header.go:385` says; the links of a batch are compared from its third header on.
* RPC client. A POST request that races with `Shutdown` is answered with
  `ErrClientShutdown` and may be answered again by the handler. A rescan that is
  pending at a reconnection is dropped and its caller waits for ever. The writer of a
  closed connection can take requests meant for the next one. A reply to a
  notification request registers it also when the reply is an error; an error while
  registering again disconnects and starts over.
* Client. An export made with FastMode does not verify: its proof is of the last
  statement, not of the exported one. The preimage of a statement is stored after
  the statement in a transaction of its own. Adding one's own log as a foreign one
  turns it into a foreign one; the commitment of a superseded foreign statement is
  never removed.
* Messages. `ReadVarBytes` of `src/wire` ignores its limit. The decoders of the
  client-server messages ignore short reads, so missing bytes are zeroes. A
  transaction without inputs is not read back with the witness encoding. A frame
  longer than `MaxMessagePayload` is refused without skipping it. An alert that
  cannot be encoded is sent with its old payload.
* Script. `checkSignatureEncoding` can read one byte past the signature
  (`engine.go:672`). Merging a script-hash input does not remove the last push
  that its comment says it removes (`sign.go:231`). A pay-to-key-hash input signed
  again after an amendment keeps the longer of the two scripts. `AddData` of a single
  zero byte pushes the empty element.
* Curve. `SetByteSlice` panics on more bytes than the field has, unlike its comment.
  `parseSig` adds to a length in a byte and ignores trailing bytes. The comment on
  the magnitude of one intermediate value of `addGeneric` is one too high.

## 5. Bounds

Every bound is a constant and a guard. Two connections and two payloads are the
least with which statements compete for an index; a third connection adds no new
pair of steps, since every property speaks of two statements, or of one
connection and `Commit`. `MaxCommits` limits the server's own log, after which
the wallet fails for good, as without money. Three bits and three keys give
splits and merges at two depths, with and without an empty sibling. Three blocks
after those of the data directory let a commitment be mined, the next one be made
and the block of the first be replaced in one behaviour; a server with three fees
left comes to the limit of the change output within them. Faults come one at a
time, but for a lost reply followed by a crash; the queue holds 2 blocks instead of
100 so that it fills. Two calls are the least with which acknowledgements cross;
started logs let both be appends.

Two handlers are the least with which two headers messages are handled at once,
messages of two headers make a chain of seven take several rounds, and epochs of
five headers put a change of difficulty into it; the last header comes late and has
the least difficulty, which the rules of the client's network, a test network,
allow. Two callers and channels of one
place fill every channel; where connections are made again there is one caller, who
calls, rescans or registers for notifications, so that the old connection's
goroutines, the new one's and the resending are all there at once. Two signatures
and one amendment put the amendment before, between and after them; eight drafts
differ from the first in one part each: an output, the number of outputs, the other
input, a sequence number, the lock time. Scripts have the limits of the code; numbers
have two bytes, the lock time threshold is 100, sequence numbers go to 63, and the
signature cache has two entries, so that it evicts.

In `algorithms` sizes and limits are scaled down so that both sides of each are
reached: a one-byte count goes to 2, a message to 1000 bytes, a pooled buffer to 4, and
the shortest signature and integer `SigCompress` takes are 9 and 2 bytes, so that
signatures of the small curve are refused for either. Numbers are the exception: on
a stack they have two bytes instead of four.
Field elements have three words of 7 bits and one of 5, in machine words of 13,
which leaves spare bits as in the code. The modulus is just below a power of two
and is not a prime, which addition, multiplication and reduction do not need; the
exponent of `Inverse` is checked against the real prime. The words taken are those
at the edges of their bits and of the modulus. The curve y^2 = x^3 + 7 over 43
elements has 31 points. All are doubled, and added to seven of them, with different
z; a byte has 3 bits there. Seventeen transactions cover every shape of a block up
to 16 and the step over a power of two. Exports run through every sequence of four
operations, by two clients, after the first statement.

Symmetry (connections, callers, payloads) is used in `server_lite` and
`client_log`, which have no liveness property.

`Histories` of `CommitChain` are the data directories a server may start with.
`0` is an empty one. `1` is one with a maiden commitment (`3`: and two more), in the form
`loadCommitments` requires; the present `Run` refuses the maiden statement on an
empty directory (`NeverPanics` above), so this one stands for servers set up
before the trigger statement. Deadlock is not checked in `CommitChain`, where the
node's blocks are bounded and the server then rightly waits, in `ClientLog`, where
a panic ends the client and a dropped history leaves `verifyLoop` waiting, in
`HeaderSync` and `RpcClient`, where an idle client waits for messages, nor in
`ScriptSpend` and `MCAlgorithms`, which end when a spend is verified or an input is
picked.

## 6. Fairness

`LogServer`: every goroutine runs on (weak fairness), and a thread that waits to
insert gets the lock in the end (strong fairness: Go's mutex hands the lock to
waiters that starve). Peers read what they are sent, which the client's receive loop
does; a peer that does not blocks `Commit`. Blocks keep coming, so `Commit` is
called again and again. Nothing is assumed of what clients send. `CommitChain`:
every thread of the server runs on; the wallet polls every five seconds. Nothing is
assumed of the node, of clients and of failures. `HeaderSync` and `RpcClient`: weak
fairness of the system as a whole, that is, as long as some goroutine of the client,
or the node with a request in hand and the connection up, can take a step, one is
taken. Which one is not assumed. Faults, look-ups and new calls are not fair.
`ClientLog` has no fairness and no liveness property.

## 7. Proofs

Proved for all sets of connections, logs and payloads and all bounds, from
`ConstantsAssumption` alone (the server's thread and log are not a client's, its
payloads are not clients'):

* `TypeCorrect`: `Spec => []TypeOK`, and `InvHolds`: `Spec => []IInv`;
* `CommitmentCorrect`, `UpdatesRegistered`: the invariants `CommitmentMatchesTree`
  and `UpdatesGoToRegistered`;
* `DeltaCorrect`: the action property `DeltaCoversCommit`;

with any number of connections that have statements for one log in flight, as long as
no two of them are deciding on it at the same time, an append between the comparison
and the store of the index in `RegisterLogStatement`, a creation from the look-up of
the log in `RegisterLogID` until its index is stored (`OneDecides`, as a temporal
hypothesis: `Spec /\ []OneDecides => ...`)

* `OnePerIndex`, `CreateNeverFails`: the invariants `OneStatementPerIndex` and
  `CreateIndexIsZero`;

and with the hypothesis `~Overlapping`, that is, one connection per log at a time,

* `AckedKept`: the invariant `AckedInTree`;
* `GrowByOne`, `UpdatesAdvance`: the action properties `LogsGrowByOne`,
  `PushedUpdatesAdvance`;
* `LedgerImplemented`: `Spec => ImplementsLedger`, the server implements
  `StatementLedger`.

The code ensures neither hypothesis: `server_overlap` refutes
`OneStatementPerIndex` without `OneDecides`. What the first two theorems say is that
these windows are the only place where it goes wrong: late insertions,
acknowledgements that pass each other and other connections' creations do no harm.
Their invariant is `OverlapInv` (`LogServerInv`), on top of the types: a log with
an index or a statement in progress has a key (`KeyedInv`), a connection past the
check has the index it found (`DecidedInv`), and a statement that is stored and not
yet acknowledged is the only one with its index (`HeldInv`). The proof assumes
`OneDecides` before and after a step and nothing about what connections may have in
flight.

None of the other properties is inductive either. The invariant `IInv` (module
`LogServerInv`, also checked by `server_full`) is the conjunction of

* `LockInv`: `mptLock` is held exactly in the stages of `Commit` that work on the
  tree, `processorsLock` exactly while it sends, and only then are there
  `SendProofs` goroutines, for registered connections;
* `SnapshotInv`: at each stage of `Commit`, how root, copy, delta and tree relate;
  at all times a leaf that is not marked is the committed one. This is what makes
  the delta complete;
* `ExclusiveInv`: at most one thread works on a log (the server's own log always,
  clients' logs when connections do not overlap);
* `IndexInv`: how far a statement's registration has come, and how index and leaf
  of its log relate at that stage: between `SetIndex` and `InsertStatement` the
  leaf is one behind;
* `AliasInv`: once the server's own leaf is the root's buffer, only forced
  statements are made there; `IndexInv` exempts that leaf from keeping up;
* `AckedInv`, `CommittedInv`, `ViewInv`: what is acknowledged, committed or shown to
  a peer is the leaf or comes from an earlier statement of its log.

Each part has a lemma that one step preserves it, with one case per action or
group of actions that leave the same variables alone (`ConnectionFrame`,
`RegisterFrame`). The action properties follow from the same parts. For the
refinement, `InsertStatement` is the ledger's `Append` (from `IndexInv`: the leaf is
exactly one behind), `CommitBegin` its `Publish`, and `SendProofs` its `Show` (from
`SnapshotInv`: what the delta has for the subscribed logs is in the published
tree); every other action leaves the ledger alone. The proofs are in five
modules, each extending the one before: `LogServerCommitProofs` (types, locks,
snapshot), `LogServerIndexProofs` (exclusive use and indices), `LogServerLogProofs`
(aliasing, acknowledged, committed and shown statements), `LogServerProofs` (the
invariant and the theorems) and `LogServerLedgerProofs` (the refinement).

## 8. Only model-checked

Liveness (`AcceptedIsCommitted`, `LocksAreReleased`, `MinedIsConfirmed`,
`SyncCompletes`, `CallsReturn`), since the prover does not reason about fairness.
Everything about the trie, scripts, encodings, the Merkle tree of a block and the
curve: their operators are recursive and what they compute needs induction over
data. `CommitChain`, `ClientLog`, `HeaderSync` and `RpcClient` have no proofs yet.

## 9. Not modelled

* Of the server: requests that only read are not steps of `LogServer`, so their
  unlocked reads of `lastDelta`, `LastCommitMpt` and the log identifiers are not
  either (`ProofUpdates` has requests for proofs, `ClientLog` for the history); the
  request for commitment details; a peer that stops reading; the `-rescan` flag,
  which is 0; torn writes of the databases, whose library is
  external and taken to write an entry as a whole.
* Of the client: subscriptions and the hook for proof updates, which is called in a
  goroutine of its own per update; the checks of `verifyCommitment` other than the
  link to the last commitment; reorganised histories and `ClearCommitments`. Of its
  header chain: `AskForBlocks` and `InvHandler`, which nothing calls, and the height
  bookkeeping around them. The HTTP handlers other than `VerifyOnce` and `Logs`,
  which forward to the client.
* Hash functions: hashes are terms, different for different contents. Signatures are
  terms in `ScriptSpend`, and numbers on a small curve in `CurveSignature`.
* The typed wrappers of the RPC client (`rawtransactions.go`, `wallet.go`,
  `chain.go` and others): each marshals its parameters and calls `sendCmd`. The
  command types of `btcjson` (structures and reflection), the websocket and SOCKS
  transports, the text forms of addresses (`base58`, `bech32`), chain parameters
  beyond those of the header rules, amounts, certificates: data or pure I/O.
* Script disassembly, message constructors, `String` methods, logging, benchmarks,
  the mobile binding: output, measurements and entry points.
* `ciphering.go` of the curve library: encryption that nothing uses.
* `BVerifyPenalty.sol`: its checks are stubbed or inverted for gas measurements and
  nothing calls it.

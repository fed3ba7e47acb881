----------------------------- MODULE ClientLog -----------------------------
(***************************************************************************)
(* A full client (Client.Run) and its server.  RPC handlers (Callers) start *)
(* logs and append to them, verifyLoop follows the commitments, ReceiveLoop *)
(* hands answers to whoever waits on the channel for that kind of answer.   *)
(* Answers carry no request number.  The connection may be cut, the server  *)
(* closes it after an error, the client may be restarted, and a wait may    *)
(* time out before or after its answer arrives.                             *)
(*                                                                          *)
(* The server handles the messages of a connection in order, a statement in *)
(* the steps of LogServer: it looks for the key, enters it, looks at the    *)
(* index, enters it, and puts the statement into the tree.  Connections it  *)
(* has not seen close are handled beside the present one.  It commits to    *)
(* all logs at once.                                                        *)
(***************************************************************************)
EXTENDS Integers, Sequences, SequencesExt, FiniteSets

CONSTANTS
  Callers,      \* goroutines of the RPC server
  Logs,         \* the client's logs, each fixed by its initial statement
  Payloads,     \* hashes of what is appended
  Modes,        \* values of Client.FastMode
  Started,      \* the client may have started its logs: values of this choice
  Initial,      \* stands for a log's initial statement
  NoHash,       \* the empty value of a database entry
  MaxIndex, MaxCalls, MaxFaults, MaxCommits

ASSUME ClientAssumption ==
  /\ Initial \notin Payloads
  /\ Modes \subseteq BOOLEAN /\ Started \subseteq BOOLEAN
  /\ {MaxIndex, MaxCalls, MaxFaults, MaxCommits} \subseteq Nat

VARIABLES
  fastMode,     \* Client.FastMode
  loghash,      \* database: loghash-<log>-<idx>
  lastidx,      \* database: lastidx-<log>, -1 when there is none
  logcommitment,\* database: logcommitment-<log>-<idx>, 0 when there is none
  known,        \* database: commitment-<hash>
  last,         \* commitment-last, and Client.lastServerCommitment
  up,           \* the client's process runs
  call,         \* what each caller is doing
  orphans,      \* waits for an answer whose call has returned
  loop,         \* where verifyLoop is, and what it holds
  offer,        \* the answers ReceiveLoop holds out on ack or errChan
  link,         \* "open", or "shut" by either side
  toServer, toClient,   \* messages on the present connection
  stale,        \* queues of closed connections the server may still read
  logIDToPubKey,\* server: the logs with a key
  logIDIndex,   \* server: the last index of each log, -1 when there is none
  fullmpt,      \* server: the statement of each log in the tree
  trees,        \* server: per commitment, the tree
  confirmed,    \* server: commitments included in a block
  accepted,     \* history: the statements that entered the tree
  overlapped,   \* history: logs two handlers checked before either wrote
  crossed,      \* history: entries stored on another call's acknowledgement
  calls, faults \* cut connections and restarts

db == <<loghash, lastidx, logcommitment, known, last>>
wire == <<link, toServer, toClient, stale>>
registers == <<logIDToPubKey, logIDIndex, fullmpt, accepted, overlapped>>
server == <<registers, trees, confirmed>>
bounds == <<calls, faults>>
vars == <<fastMode, db, up, call, orphans, loop, offer, wire, server, crossed, bounds>>

Indices == 0..MaxIndex
Idle == [at |-> "idle"]
Poll == [at |-> "poll"]

\* What the server will store for a statement: the hash of all of it.
Witness(i, prev, x) == [idx |-> i, prev |-> prev, payload |-> x]
First == Witness(0, NoHash, Initial)

\* A server with one commitment in a block, and a new client or one that has
\* verified it and has its logs under it.
Init ==
  /\ fastMode \in Modes
  /\ \E n \in {IF s THEN 1 ELSE 0 : s \in Started} :
       /\ loghash = [l \in Logs |-> [i \in Indices |-> IF i < n THEN First ELSE NoHash]]
       /\ lastidx = [l \in Logs |-> n - 1]
       /\ logcommitment = [l \in Logs |-> [i \in Indices |-> IF i < n THEN 1 ELSE 0]]
       /\ known = 1..n /\ last = n
       /\ logIDToPubKey = (IF n = 0 THEN {} ELSE Logs)
       /\ logIDIndex = [l \in Logs |-> n - 1]
       /\ fullmpt = [l \in Logs |-> IF n = 0 THEN NoHash ELSE First]
       /\ accepted = [l \in Logs |-> IF n = 0 THEN {} ELSE {First}]
       /\ trees = <<fullmpt>> /\ confirmed = 1
  /\ up = TRUE /\ call = [c \in Callers |-> Idle] /\ orphans = 0
  /\ loop = Poll /\ offer = <<>>
  /\ link = "open" /\ toServer = <<>> /\ toClient = <<>> /\ stale = <<>>
  /\ overlapped = {} /\ crossed = {} /\ calls = 0 /\ faults = 0

-----------------------------------------------------------------------------
(* The process *)

Statement(m) == m.op \in {"create", "append"}

\* What is on its way when a connection closes.  A request for a history or a proof
\* has no effect there.
LeftBehind ==
  LET statements == SelectSeq(toServer, Statement)
  IN  IF statements = <<>> THEN stale ELSE Append(stale, statements)

\* The process ends: a panic, or the machine stops.  Only the database stays.
Exit ==
  /\ up' = FALSE
  /\ call' = [c \in Callers |-> Idle] /\ orphans' = 0
  /\ loop' = Poll /\ offer' = <<>>
  /\ link' = "shut" /\ stale' = LeftBehind
  /\ toServer' = <<>> /\ toClient' = <<>>
  /\ UNCHANGED <<fastMode, db, server, crossed, bounds>>

Crash == up /\ faults < MaxFaults /\ Exit

\* Run opens the database, loadStuff reads the last commitment from it.
Restart ==
  /\ ~up /\ faults < MaxFaults
  /\ up' = TRUE /\ link' = "open" /\ faults' = faults + 1
  /\ UNCHANGED <<fastMode, db, call, orphans, loop, offer, toServer, toClient,
                 stale, server, crossed, calls>>

\* WriteMessage on a connection that is shut fails, or is not told yet.
Written(m) ==
  toServer' = IF link = "open" THEN Append(toServer, m) ELSE toServer
WriteFails == link = "shut"

-----------------------------------------------------------------------------
(* StartLog and AppendLog, called by the RPC server *)

Begin(c, op, l, w) ==
  /\ up /\ call[c] = Idle /\ calls < MaxCalls
  /\ call' = [call EXCEPT ![c] = [at |-> "ready", op |-> op, log |-> l, w |-> w,
                                  id |-> calls + 1, result |-> "none", own |-> TRUE]]
  /\ calls' = calls + 1
  /\ UNCHANGED <<fastMode, db, up, orphans, loop, offer, wire, server, crossed, faults>>

StartLog(c, l) == Begin(c, "create", l, First)

IsCommitted(l, i) == i >= 0 /\ logcommitment[l][i] # 0
LastHash(l) == IF lastidx[l] < 0 THEN NoHash ELSE loghash[l][lastidx[l]]

\* Mutants: without the check for a commitment, without the hash chain.
AppendLogUnchecked(c, l, x) ==
  /\ lastidx[l] < MaxIndex
  /\ Begin(c, "append", l,
           Witness(lastidx[l] + 1, IF fastMode THEN LastHash(l) ELSE NoHash, x))

\* The caller names the index; any but the next one is refused.
AppendLog(c, l, x) ==
  /\ lastidx[l] < MaxIndex
  /\ fastMode \/ IsCommitted(l, lastidx[l])
  /\ Begin(c, "append", l,
           Witness(lastidx[l] + 1, IF fastMode THEN LastHash(l) ELSE NoHash, x))

\* The call returns an error once its message is written.
Failed(c) ==
  IF call[c].at = "sent" THEN Idle ELSE [call[c] EXCEPT !.result = "err"]

Send(c) ==
  /\ call[c].at = "ready"
  /\ Written([op |-> call[c].op, log |-> call[c].log, w |-> call[c].w, id |-> call[c].id,
              at |-> "read"])
  /\ call' = [call EXCEPT ![c] =
                IF call[c].result = "err" THEN Idle ELSE [call[c] EXCEPT !.at = "sent"]]
  /\ UNCHANGED <<fastMode, db, up, orphans, loop, offer, link, toClient, stale,
                 server, crossed, bounds>>

\* The call returns at once; the goroutine that waits for its answer does not.
SendFails(c) ==
  /\ call[c].at = "ready" /\ WriteFails
  /\ call' = [call EXCEPT ![c] = Idle]
  /\ orphans' = IF call[c].result = "none" THEN orphans + 1 ELSE orphans
  /\ UNCHANGED <<fastMode, db, up, loop, offer, wire, server, crossed, bounds>>

Waits(c) == call[c] # Idle /\ call[c].result = "none"

\* Mutant: a time-out counts as success.
TimesOutOk(c) ==
  /\ Waits(c)
  /\ call' = [call EXCEPT ![c].result = "ok"]
  /\ UNCHANGED <<fastMode, db, up, orphans, loop, offer, wire, server, crossed, bounds>>

TimesOut(c) ==
  /\ Waits(c)
  /\ call' = [call EXCEPT ![c] = Failed(c)]
  /\ UNCHANGED <<fastMode, db, up, orphans, loop, offer, wire, server, crossed, bounds>>

OrphanTimesOut ==
  /\ orphans > 0 /\ orphans' = orphans - 1
  /\ UNCHANGED <<fastMode, db, up, call, loop, offer, wire, server, crossed, bounds>>

\* The acknowledged statement enters the database and the call returns.
Store(c) ==
  /\ call[c].at = "sent" /\ call[c].result = "ok"
  /\ LET l == call[c].log
         w == call[c].w
     IN  /\ loghash' = [loghash EXCEPT ![l][w.idx] = w]
         /\ lastidx' = [lastidx EXCEPT ![l] = w.idx]
         /\ crossed' = IF call[c].own THEN crossed \ {<<l, w.idx>>}
                       ELSE crossed \cup {<<l, w.idx>>}
  /\ call' = [call EXCEPT ![c] = Idle]
  /\ UNCHANGED <<fastMode, logcommitment, known, last, up, orphans, loop, offer,
                 wire, server, bounds>>

-----------------------------------------------------------------------------
(* ReceiveLoop, which reads on when nobody holds out for an offered answer *)

Reading == up /\ offer = <<>> /\ toClient # <<>>

\* Acknowledgements and errors are held out for five seconds.
ReceiveAnswer ==
  /\ Reading /\ Head(toClient).t \in {"ack", "error"}
  /\ offer' = <<Head(toClient)>> /\ toClient' = Tail(toClient)
  /\ UNCHANGED <<fastMode, db, up, call, orphans, loop, link, toServer, stale,
                 server, crossed, bounds>>

\* Histories and proofs go to verifyLoop if it already listens, or are dropped.
ReceiveHistory ==
  /\ Reading /\ Head(toClient).t = "history"
  /\ toClient' = Tail(toClient)
  /\ loop' = IF loop.at # "listening" THEN loop
             ELSE IF Head(toClient).hist = <<>> THEN Poll
             ELSE [at |-> "verify", hist |-> Head(toClient).hist]
  /\ UNCHANGED <<fastMode, db, up, call, orphans, offer, link, toServer, stale,
                 server, crossed, bounds>>

ReceiveProof ==
  /\ Reading /\ Head(toClient).t = "proof"
  /\ toClient' = Tail(toClient)
  /\ loop' = IF loop.at # "proofListening" THEN loop
             ELSE [at |-> "check", ids |-> loop.ids, root |-> Head(toClient).root]
  /\ UNCHANGED <<fastMode, db, up, call, orphans, offer, link, toServer, stale,
                 server, crossed, bounds>>

Offers(t) == offer # <<>> /\ offer[1].t = t
Abandoned == orphans = 0 /\ \A c \in Callers : ~Waits(c)

\* After an error the connection is closed; after an acknowledgement it is kept.
Withdraw ==
  /\ offer' = <<>>
  /\ link' = IF Offers("error") THEN "shut" ELSE link
  /\ stale' = IF Offers("error") THEN LeftBehind ELSE stale
  /\ toServer' = IF Offers("error") THEN <<>> ELSE toServer
  /\ toClient' = IF Offers("error") THEN <<>> ELSE toClient

DeliverToCall(c) ==
  /\ offer # <<>> /\ Waits(c)
  /\ call' = [call EXCEPT ![c] =
                IF Offers("error") THEN Failed(c)
                ELSE [call[c] EXCEPT !.result = "ok", !.own = (offer[1].id = call[c].id)]]
  /\ Withdraw
  /\ UNCHANGED <<fastMode, db, up, orphans, loop, server, crossed, bounds>>

DeliverToOrphan ==
  /\ offer # <<>> /\ orphans > 0 /\ orphans' = orphans - 1
  /\ Withdraw
  /\ UNCHANGED <<fastMode, db, up, call, loop, server, crossed, bounds>>

\* RequestProof waits on errChan too; verifyLoop panics with the error.
DeliverToLoop == Offers("error") /\ loop.at = "proofListening" /\ Exit

NobodyWaits ==
  /\ offer # <<>> /\ Abandoned
  /\ Offers("error") => loop.at # "proofListening"
  /\ Withdraw
  /\ UNCHANGED <<fastMode, db, up, call, orphans, loop, server, crossed, bounds>>

\* The end of the stream: Close and Reconnect.
Reconnect ==
  /\ up /\ link = "shut" /\ offer = <<>> /\ toClient = <<>>
  /\ link' = "open"
  /\ UNCHANGED <<fastMode, db, up, call, orphans, loop, offer, toServer, toClient,
                 stale, server, crossed, bounds>>

\* The network: the client gets some of the messages on the way to it.
Cut ==
  /\ up /\ link = "open" /\ faults < MaxFaults
  /\ link' = "shut" /\ faults' = faults + 1
  /\ \E n \in 0..Len(toClient) : toClient' = SubSeq(toClient, 1, n)
  /\ stale' = LeftBehind /\ toServer' = <<>>
  /\ UNCHANGED <<fastMode, db, up, call, orphans, loop, offer, server, crossed, calls>>

-----------------------------------------------------------------------------
(* The server *)

WrongIndex(m) == m.w.idx # logIDIndex[m.log] + 1

\* RegisterLogID, VerifyAppendLog and RegisterLogStatement refuse a statement.
\* ProcessCreateLog does not look at the error of the last.
Refuses(m) ==
  \/ m.op = "create" /\ m.at = "read" /\ m.log \in logIDToPubKey
  \/ m.op = "append" /\ m.at = "read" /\ (m.log \notin logIDToPubKey \/ WrongIndex(m))

Done(m) ==
  \/ ~Statement(m) \/ Refuses(m) \/ m.at = "insert"
  \/ m.op = "create" /\ m.at = "check" /\ WrongIndex(m)

\* What the handler of m does next, when it is not done.
Following(m) ==
  CASE m.at = "read" -> IF m.op = "create" THEN "key" ELSE "set"
    [] m.at = "key" -> "check"
    [] m.at = "check" -> "set"
    [] m.at = "set" -> "insert"

\* One step of the handler of the first message of a connection; after an error
\* the connection is closed.
Handled(queue) ==
  IF Refuses(Head(queue)) THEN <<>>
  ELSE IF Done(Head(queue)) THEN Tail(queue)
  ELSE [queue EXCEPT ![1].at = Following(Head(queue))]

\* Between its first look at a log and what it enters for it: a create statement
\* looks for the key and for the index.
Between(m, at) == IF m.op = "create" THEN at \in {"key", "check", "set"} ELSE at = "set"

\* The next step takes the handler of m there while one of another connection is.
Overlaps(m, others) ==
  /\ Statement(m) /\ ~Done(m) /\ Between(m, Following(m))
  /\ \E o \in others : Statement(o) /\ o.log = m.log /\ Between(o, o.at)

Registers(m, others) ==
  /\ logIDToPubKey' = IF Statement(m) /\ m.at = "key"
                      THEN logIDToPubKey \cup {m.log} ELSE logIDToPubKey
  /\ logIDIndex' = IF Statement(m) /\ m.at = "set"
                   THEN [logIDIndex EXCEPT ![m.log] = m.w.idx] ELSE logIDIndex
  /\ IF Statement(m) /\ m.at = "insert"
     THEN /\ fullmpt' = [fullmpt EXCEPT ![m.log] = m.w]
          /\ accepted' = [accepted EXCEPT ![m.log] = @ \cup {m.w}]
     ELSE UNCHANGED <<fullmpt, accepted>>
  /\ overlapped' = IF Overlaps(m, others) THEN overlapped \cup {m.log} ELSE overlapped

\* GetCommitmentHistory: the confirmed commitments after the client's last.
Answer(m) ==
  CASE m.op = "history" -> [t |-> "history", hist |-> [k \in 1..(confirmed - m.since) |-> m.since + k]]
    [] m.op = "proof" -> [t |-> "proof", root |-> confirmed]
    [] Statement(m) -> [t |-> IF Refuses(m) THEN "error" ELSE "ack", id |-> m.id]

\* Process, for the present connection.
Process ==
  /\ toServer # <<>>
  /\ LET m == Head(toServer)
     IN  /\ Registers(m, {Head(stale[i]) : i \in DOMAIN stale})
         /\ toClient' = IF Done(m) THEN Append(toClient, Answer(m)) ELSE toClient
         /\ toServer' = Handled(toServer)
         /\ link' = IF Refuses(m) THEN "shut" ELSE link
  /\ UNCHANGED <<fastMode, db, up, call, orphans, loop, offer, stale, trees,
                 confirmed, crossed, bounds>>

\* The same for one that has closed: nobody gets the answers.
ProcessStale(i) ==
  LET present == IF toServer = <<>> THEN {} ELSE {Head(toServer)}
      rest == Handled(stale[i])
  IN  /\ Registers(Head(stale[i]), present \cup {Head(stale[j]) : j \in DOMAIN stale \ {i}})
      /\ stale' = IF rest = <<>> THEN RemoveAt(stale, i) ELSE [stale EXCEPT ![i] = rest]
      /\ UNCHANGED <<fastMode, db, up, call, orphans, loop, offer, link, toServer,
                     toClient, trees, confirmed, crossed, bounds>>

\* What the server has not read of it is lost.
LoseStale(i) ==
  /\ Head(stale[i]).at = "read"
  /\ stale' = RemoveAt(stale, i)
  /\ UNCHANGED <<fastMode, db, up, call, orphans, loop, offer, link, toServer,
                 toClient, server, crossed, bounds>>

Commit ==
  /\ Len(trees) = confirmed /\ confirmed < MaxCommits
  /\ trees' = Append(trees, fullmpt)
  /\ UNCHANGED <<fastMode, db, up, call, orphans, loop, offer, wire, registers,
                 confirmed, crossed, bounds>>

Confirm ==
  /\ confirmed < Len(trees) /\ confirmed' = Len(trees)
  /\ UNCHANGED <<fastMode, db, up, call, orphans, loop, offer, wire, registers, trees,
                 crossed, bounds>>

-----------------------------------------------------------------------------
(* verifyLoop: a panic in it ends the process *)

\* GetCommitmentHistory: write, then wait for the answer without a time-out.
RequestHistory ==
  /\ up /\ loop.at = "poll"
  /\ Written([op |-> "history", since |-> last, at |-> "read"])
  /\ loop' = [at |-> "asked"]
  /\ UNCHANGED <<fastMode, db, up, call, orphans, offer, link, toClient, stale,
                 server, crossed, bounds>>

RequestHistoryFails == up /\ loop.at = "poll" /\ WriteFails /\ Exit

Listen ==
  /\ loop.at = "asked" /\ loop' = [at |-> "listening"]
  /\ UNCHANGED <<fastMode, db, up, call, orphans, offer, wire, server, crossed, bounds>>

\* verifyCommitment and saveCommitment for the next one of the history.  Its
\* transaction must spend the change of the last commitment.
SaveCommitment ==
  /\ loop.at = "verify"
  /\ LET k == Head(loop.hist)
         rest == Tail(loop.hist)
     IN  IF k # last + 1 THEN Exit
         ELSE /\ known' = known \cup {k} /\ last' = k
              /\ loop' = IF rest = <<>> THEN [at |-> "prove"]
                         ELSE [at |-> "verify", hist |-> rest]
              /\ UNCHANGED <<fastMode, loghash, lastidx, logcommitment, up, call,
                             orphans, offer, wire, server, crossed, bounds>>

\* The block is not among the headers, perhaps reorganised: ask again later.
BlockNotFound ==
  /\ loop.at = "verify" /\ loop' = Poll
  /\ UNCHANGED <<fastMode, db, up, call, orphans, offer, wire, server, crossed, bounds>>

\* updateProofs: the logs it will check are those in the database now.
GetAllLogIDs == {l \in Logs : lastidx[l] >= 0}

RequestProof ==
  /\ loop.at = "prove"
  /\ IF GetAllLogIDs = {} THEN loop' = Poll /\ UNCHANGED toServer
     ELSE /\ Written([op |-> "proof", at |-> "read"])
          /\ loop' = [at |-> "proofAsked", ids |-> GetAllLogIDs]
  /\ UNCHANGED <<fastMode, db, up, call, orphans, offer, link, toClient, stale,
                 server, crossed, bounds>>

RequestProofFails == loop.at = "prove" /\ GetAllLogIDs # {} /\ WriteFails /\ Exit

ListenProof ==
  /\ loop.at = "proofAsked"
  /\ loop' = [at |-> "proofListening", ids |-> loop.ids]
  /\ UNCHANGED <<fastMode, db, up, call, orphans, offer, wire, server, crossed, bounds>>

ProofTimesOut == loop.at = "proofListening" /\ Exit

\* The value of a log in the proof and the indices of the database that have it.
Proven(l) == trees[loop.root][l]
Matches(l) == {i \in Indices : Proven(l) # NoHash /\ loghash[l][i] = Proven(l)}
LogHasCommitment(l) == \E i \in Indices : logcommitment[l][i] # 0
\* A log that is not in the proof is passed over until it has a commitment.
Pending(l) == Proven(l) = NoHash /\ ~LogHasCommitment(l)

\* Mutant: the last index is taken for the one that is proven.
CheckProofLast ==
  /\ loop.at = "check"
  /\ loop.root \in known
  /\ \A l \in loop.ids : Pending(l) \/ Matches(l) # {}
  /\ loop' = [at |-> "store", root |-> loop.root,
              idxes |-> [l \in {m \in loop.ids : Matches(m) # {}} |-> lastidx[l]]]
  /\ UNCHANGED <<fastMode, db, up, call, orphans, offer, wire, server, crossed, bounds>>

CheckProof ==
  /\ loop.at = "check"
  /\ loop.root \in known
  /\ \A l \in loop.ids : Pending(l) \/ Matches(l) # {}
  /\ loop' = [at |-> "store", root |-> loop.root,
              idxes |-> [l \in {m \in loop.ids : Matches(m) # {}} |->
                           CHOOSE i \in Matches(l) : \A j \in Matches(l) : j <= i]]
  /\ UNCHANGED <<fastMode, db, up, call, orphans, offer, wire, server, crossed, bounds>>

\* The root is not a commitment the client has verified.
UnknownRoot == loop.at = "check" /\ loop.root \notin known /\ Exit

\* "The value in the proof does not match any of the values we know."
UnknownValue ==
  /\ loop.at = "check" /\ loop.root \in known
  /\ \E l \in loop.ids : ~Pending(l) /\ Matches(l) = {}
  /\ Exit

StoreProof ==
  /\ loop.at = "store"
  /\ logcommitment' = [l \in Logs |->
       IF l \in DOMAIN loop.idxes
       THEN [logcommitment[l] EXCEPT ![loop.idxes[l]] = loop.root] ELSE logcommitment[l]]
  /\ loop' = Poll
  /\ UNCHANGED <<fastMode, loghash, lastidx, known, last, up, call, orphans, offer,
                 wire, server, crossed, bounds>>

-----------------------------------------------------------------------------
Caller(c) ==
  \/ \E l \in Logs : StartLog(c, l) \/ \E x \in Payloads : AppendLog(c, l, x)
  \/ Send(c) \/ SendFails(c) \/ TimesOut(c) \/ Store(c)

ReceiveLoop ==
  \/ ReceiveAnswer \/ ReceiveHistory \/ ReceiveProof
  \/ \E c \in Callers : DeliverToCall(c)
  \/ DeliverToOrphan \/ DeliverToLoop \/ NobodyWaits \/ Reconnect

verifyLoop ==
  \/ RequestHistory \/ RequestHistoryFails \/ Listen \/ SaveCommitment \/ BlockNotFound
  \/ RequestProof \/ RequestProofFails \/ ListenProof \/ ProofTimesOut
  \/ CheckProof \/ UnknownRoot \/ UnknownValue \/ StoreProof

Server ==
  \/ Process \/ Commit \/ Confirm
  \/ \E i \in DOMAIN stale : ProcessStale(i) \/ LoseStale(i)

Next ==
  \/ \E c \in Callers : Caller(c)
  \/ OrphanTimesOut \/ ReceiveLoop \/ verifyLoop \/ Server
  \/ Cut \/ Crash \/ Restart

Spec == Init /\ [][Next]_vars

-----------------------------------------------------------------------------
(* Properties *)

\* What the client has stored for a log (StartLog, AppendLog) is what the server has
\* taken at that index, and all it has taken there, whatever was lost, timed out,
\* sent twice at once or cut short by a restart.  Two cases are excepted: an entry
\* stored on another call's acknowledgement, and a log for which the handlers of
\* two connections overlapped.
LocalIsPrefix ==
  \A l \in Logs \ overlapped : \A i \in 0..lastidx[l] : <<l, i>> \notin crossed =>
    {w \in accepted[l] : w.idx = i} = {loghash[l][i]}

\* A statement the client counts as committed (updateProofs) is the one of its log
\* under a commitment the client has verified; when another call's acknowledgement
\* has replaced the entry since, the index still is.
CommittedIsProven ==
  \A l \in Logs, i \in Indices : logcommitment[l][i] # 0 =>
    /\ logcommitment[l][i] \in known
    /\ trees[logcommitment[l][i]][l].idx = i
    /\ <<l, i>> \notin crossed => trees[logcommitment[l][i]][l] = loghash[l][i]

\* Without FastMode the server takes a statement only when the one before it was
\* in a confirmed commitment (the check in AppendLog), also when answers cross
\* and handlers overlap.
OneUncommitted ==
  ~fastMode => \A l \in Logs :
    logIDIndex[l] > 0 => \E k \in 1..confirmed :
      trees[k][l] # NoHash /\ trees[k][l].idx >= logIDIndex[l] - 1

\* With a server that keeps what it acknowledged, the values of a proof are among
\* those the client has stored (the comment in updateProofs).  Does not hold: an
\* acknowledgement may be lost, or not be stored yet.
ValuesAreKnown ==
  loop.at = "check" => \A l \in loop.ids : Pending(l) \/ Matches(l) # {}

\* Whoever asked for the history listens when it arrives (the comment in
\* ReceiveLoop).  Does not hold; verifyLoop then waits for ever.
RequesterListens ==
  Reading /\ Head(toClient).t = "history" => loop.at = "listening"

\* The root of a proof is a commitment from the history asked for before it
\* (updateProofs).  Does not hold: another one may be confirmed in between.
RootIsKnown == loop.at = "check" => loop.root \in known
=============================================================================

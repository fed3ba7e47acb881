----------------------------- MODULE HeaderSync -----------------------------
(***************************************************************************)
(* The SPV connection of the client: it dials a node, asks it for headers, *)
(* stores what it answers in the header file and asks again until an       *)
(* answer is empty; every headers message has a goroutine of its own       *)
(* (HeaderHandler), a lost connection starts the whole over beside the     *)
(* goroutines still running, and the client looks headers up by hash       *)
(* meanwhile (GetHeaderByBlockHash).                                       *)
(*                                                                         *)
(* The node is external: it follows the best of some branches and answers  *)
(* getheaders from it.  headerMutex makes one action of each critical      *)
(* section.  AskForBlocks and InvHandler are never called; syncHeight,     *)
(* which only AskForBlocks reads, is left out.                             *)
(***************************************************************************)
EXTENDS HeaderRules

CONSTANTS
  Branches,      \* the chains the node may follow, each from the genesis header on
  Lookups,       \* the answers of the DNS seeds: sequences of node states
  MaxHeaders,    \* headers in one message; 2000 in the protocol
  MaxHandlers,   \* bound on the goroutines at a time
  MaxDrops,      \* bound on the connections that break
  MaxCrashes,    \* bound on the crashes of the client
  MaxSwitches,   \* bound on the changes of the node's best chain
  MaxEvents,     \* bound on these three together
  MaxQueries     \* bound on the calls of GetHeaderByBlockHash, with none of them

ASSUME HeaderAssumption ==
  /\ \A b \in Branches : b # <<>> /\ Head(b) = Genesis
  /\ \A b \in {MaxHeaders, MaxHandlers} : b \in Nat \ {0}
  /\ \A b \in {MaxDrops, MaxCrashes, MaxSwitches, MaxQueries, MaxEvents} : b \in Nat

VARIABLES
  best,          \* the node's best chain
  switches,
  told,          \* height of the node at its last answer on this connection
  con,           \* "off", "up", "closed" or "lost" (Connect returned an error)
  listOfNodes,
  wireOut,       \* getheaders on the wire: sequence of locators
  wireIn,        \* headers on the wire: sequence of messages
  handlers,      \* goroutines: what each is at
  Synced,
  file,          \* header.bin, by records
  torn,          \* whether a part of a record follows them
  headerIndex,   \* from hashes to offsets, empty where the code has nil
  query,         \* the call of GetHeaderByBlockHash
  drops, crashes, queries

node == <<best, switches>>
link == <<con, listOfNodes, told>>
wire == <<wireOut, wireIn>>
store == <<file, torn>>
index == <<headerIndex, query, queries>>
faults == <<drops, crashes>>
vars == <<node, link, wire, handlers, Synced, store, index, faults>>

\* One more event of a kind of which n have happened.
Events == drops + crashes + switches
Within(n, max) == n < max /\ Events < MaxEvents /\ queries = 0

Idle == [pc |-> "idle", hash |-> "none", num |-> 0, got |-> "none"]

Init ==
  /\ best \in UNION {{SubSeq(b, 1, n) : n \in 1..Len(b)} : b \in Branches}
  /\ switches = 0 /\ told = 0
  /\ con = "off" /\ listOfNodes = <<>>
  /\ wireOut = <<>> /\ wireIn = <<>> /\ handlers = <<>>
  /\ Synced = FALSE
  /\ file = <<>> /\ torn = FALSE
  /\ headerIndex = <<>> /\ query = Idle
  /\ drops = 0 /\ crashes = 0 /\ queries = 0

----------------------------------------------------------------------------
(* Connecting.                                                             *)

\* A node is "good", "dead" (the dial fails) or "bad" (the handshake fails: an
\* old version, another agent, no version message).
DialNode(list) == {i \in 1..Len(list) : list[i] # "dead"}

RECURSIVE ConnectTo(_)
ConnectTo(list) ==
  LET dialled == list[Min(DialNode(list))]
  IN  CASE list = <<>> -> [ok |-> FALSE, rest |-> <<>>]
        [] list # <<>> /\ DialNode(list) = {} -> ConnectTo(Tail(list))
        [] list # <<>> /\ dialled = "good" -> [ok |-> TRUE, rest |-> Tail(list)]
        [] Len(list) = 1 -> [ok |-> FALSE, rest |-> list]
        [] OTHER -> ConnectTo(Tail(list))

\* A goroutine, by the code it runs next.
At(pc, in) == [pc |-> pc, in |-> in, tip |-> 0, back |-> 0, locator |-> <<>>]

Spawn(g) == Len(handlers) < MaxHandlers /\ handlers' = Append(handlers, g)
Ends(i) == handlers' = RemoveAt(handlers, i)
Becomes(i, g) == handlers' = [handlers EXCEPT ![i] = g]

\* What is left of the list of nodes is used up before the seeds are asked.
Connect(list) ==
  LET c == ConnectTo(list)
  IN  /\ listOfNodes' = c.rest
      /\ con' = IF c.ok THEN "up" ELSE "lost"
      /\ told' = 0
      /\ wireOut' = <<>> /\ wireIn' = <<>>
      /\ IF c.ok THEN Spawn(At("ask", <<>>)) ELSE UNCHANGED handlers

Dial(state) ==
  /\ con = state
  /\ \E list \in (IF listOfNodes = <<>> THEN Lookups ELSE {listOfNodes}) : Connect(list)

\* openHeaderFile writes the genesis header only where there is no file.
Start ==
  /\ Dial("off")
  /\ file' = IF file = <<>> /\ ~torn THEN <<Genesis>> ELSE file
  /\ UNCHANGED <<node, Synced, torn, index, faults>>

\* incomingMessageHandler: the read fails, ...
ReadFails ==
  /\ con = "up" /\ Within(drops, MaxDrops)
  /\ con' = "closed"
  /\ drops' = drops + 1
  /\ wireOut' = <<>> /\ wireIn' = <<>>
  /\ UNCHANGED <<node, listOfNodes, told, handlers, Synced, store, index, crashes>>

\* ... and it connects again.
Reconnect ==
  /\ Dial("closed")
  /\ UNCHANGED <<node, Synced, store, index, faults>>

\* incomingMessageHandler: a headers message.
Receive ==
  /\ con = "up" /\ wireIn # <<>>
  /\ Spawn(At("ingest", Head(wireIn)))
  /\ wireIn' = Tail(wireIn)
  /\ UNCHANGED <<node, link, wireOut, Synced, store, index, faults>>

----------------------------------------------------------------------------
(* HeaderHandler: IngestHeaders, then AskForHeaders.                       *)

\* Writing at an offset; what is skipped reads as zeros.
WriteAt(f, offset, in) ==
  [i \in 1..Max({Len(f), offset + Len(in)}) |->
     IF i \in offset + 1..offset + Len(in) THEN in[i - offset]
     ELSE IF i <= Len(f) THEN f[i] ELSE Zero]

Truncated(f, verdict) == IF verdict.reorg = 0 THEN f ELSE SubSeq(f, 1, verdict.reorg)

\* IngestHeaders, had every message been written at the end of the file.
IngestAtEnd(i) ==
  LET in == handlers[i].in
  IN  /\ handlers[i].pc = "ingest"
      /\ IF in = <<>> THEN Synced' = TRUE /\ Ends(i) /\ UNCHANGED file
         ELSE /\ \E verdict \in {CheckHeaderChain(file, torn, in)} :
                   file' = IF verdict.v # "ok" THEN file ELSE file \o in
              /\ Becomes(i, At("ask", <<>>))
              /\ UNCHANGED Synced
      /\ UNCHANGED <<node, link, wire, torn, index, faults>>

\* IngestHeaders, had a refused message ended the goroutine.
IngestGivesUp(i) ==
  LET in == handlers[i].in
  IN  /\ handlers[i].pc = "ingest"
      /\ IF in = <<>> THEN Synced' = TRUE /\ Ends(i) /\ UNCHANGED file
         ELSE \E verdict \in {CheckHeaderChain(file, torn, in)} :
                /\ file' = IF verdict.v # "ok" THEN file
                           ELSE WriteAt(Truncated(file, verdict), verdict.offset, in)
                /\ IF verdict.v = "ok" THEN Becomes(i, At("ask", <<>>)) ELSE Ends(i)
                /\ UNCHANGED Synced
      /\ UNCHANGED <<node, link, wire, torn, index, faults>>

IngestHeaders(i) ==
  LET in == handlers[i].in
  IN  /\ handlers[i].pc = "ingest"
      /\ IF in = <<>> THEN Synced' = TRUE /\ Ends(i) /\ UNCHANGED file
         ELSE /\ \E verdict \in {CheckHeaderChain(file, torn, in)} :
                   file' = IF verdict.v # "ok" THEN file
                           ELSE WriteAt(Truncated(file, verdict), verdict.offset, in)
              /\ Becomes(i, At("ask", <<>>))
              /\ UNCHANGED Synced
      /\ UNCHANGED <<node, link, wire, torn, index, faults>>

\* AskForHeaders up to GetHeaderTipHeight, which repairs a torn file.
AskForHeaders(i) ==
  /\ handlers[i].pc = "ask"
  /\ Synced' = FALSE
  /\ torn' = FALSE
  /\ Becomes(i, [At("locate", <<>>) EXCEPT !.tip = Len(file) - 1])
  /\ UNCHANGED <<node, link, wire, file, index, faults>>

\* Back one by one for ten headers, then in leaps.
NextBack(back) == IF back > 10 THEN 4 * back ELSE back + 1

\* One GetHeaderAtHeight of AskForHeaders; it fails where the file has since
\* become shorter, and no request is made.
GetHeaderAtHeight(i) ==
  LET g == handlers[i]
      h == g.tip - g.back
      more == g.tip > NextBack(g.back)
  IN  /\ g.pc = "locate"
      /\ IF h \notin 0..Len(file) - 1 THEN Ends(i)
         ELSE Becomes(i, [g EXCEPT !.locator = Append(@, file[h + 1].id),
                                   !.back = NextBack(@),
                                   !.pc = IF more THEN "locate" ELSE "send"])
      /\ UNCHANGED <<node, link, wire, Synced, store, index, faults>>

\* outgoingMessageHandler takes the request; on a closed connection it is lost.
Send(i) ==
  /\ handlers[i].pc = "send"
  /\ wireOut' = IF con = "up" THEN Append(wireOut, handlers[i].locator) ELSE wireOut
  /\ Ends(i)
  /\ UNCHANGED <<node, link, wireIn, Synced, store, index, faults>>

----------------------------------------------------------------------------
(* The node.                                                               *)

\* The headers after the first of the locator that is on the best chain.
Answer(locator) ==
  LET known == {i \in 1..Len(locator) : \E j \in 1..Len(best) : best[j].id = locator[i]}
      from == IF known = {} THEN 1
              ELSE CHOOSE j \in 1..Len(best) : best[j].id = locator[Min(known)]
  IN  SubSeq(best, from + 1, Min({Len(best), from + MaxHeaders}))

NodeAnswers ==
  /\ con = "up" /\ wireOut # <<>>
  /\ wireIn' = Append(wireIn, Answer(Head(wireOut)))
  /\ wireOut' = Tail(wireOut)
  /\ told' = Len(best) - 1
  /\ UNCHANGED <<node, con, listOfNodes, handlers, Synced, store, index, faults>>

\* The best chain grows, or another branch becomes longer.
NodeSwitches ==
  /\ Within(switches, MaxSwitches)
  /\ \E b \in Branches : \E n \in Len(best) + 1..Len(b) : best' = SubSeq(b, 1, n)
  /\ switches' = switches + 1
  /\ UNCHANGED <<link, wire, handlers, Synced, store, index, faults>>

----------------------------------------------------------------------------
(* GetHeaderByBlockHash: three critical sections.                          *)

LookupTip(hash) ==
  /\ con # "off" /\ query.pc = "idle" /\ queries < MaxQueries /\ Events = 0
  /\ torn' = FALSE
  /\ query' = [pc |-> "index", hash |-> hash, num |-> Len(file) - 1, got |-> "none"]
  /\ queries' = queries + 1
  /\ UNCHANGED <<node, link, wire, handlers, Synced, file, headerIndex, faults>>

\* The last position of a hash wins.
IndexHeaders ==
  /\ query.pc = "index"
  /\ headerIndex' = IF DOMAIN headerIndex # {} THEN headerIndex
                    ELSE [h \in {file[i].id : i \in 1..Len(file)} |->
                            Max({i \in 1..Len(file) : file[i].id = h}) - 1]
  /\ query' = [query EXCEPT !.pc = "search"]
  /\ UNCHANGED <<node, link, wire, handlers, Synced, store, queries, faults>>

\* The headers the backward search reads, and the offsets it notes for them:
\* those after them, where the file is once they are read.
Searched ==
  LET n == Len(file)
      window == {i \in 1..n : n - i + 1 < query.num}
      hits == {i \in window : file[i].id = query.hash}
  IN  {i \in window : \A j \in hits : j <= i}

GetHeaderByBlockHash ==
  LET seen == {file[i].id : i \in Searched}
      hit == {i \in Searched : file[i].id = query.hash}
      known == DOMAIN headerIndex
  IN  /\ query.pc = "search"
      /\ IF query.hash \in known
         THEN /\ query' = [query EXCEPT !.pc = "done",
                             !.got = IF headerIndex[query.hash] < Len(file)
                                     THEN file[headerIndex[query.hash] + 1].id ELSE "none"]
              /\ UNCHANGED headerIndex
         ELSE /\ query' = [query EXCEPT !.pc = "done",
                             !.got = IF hit # {} THEN query.hash ELSE "none"]
              /\ headerIndex' = [h \in known \cup seen |->
                                   IF h \in known THEN headerIndex[h]
                                   ELSE Max({i \in Searched : file[i].id = h})]
      /\ UNCHANGED <<node, link, wire, handlers, Synced, store, queries, faults>>

\* The caller has the answer.
Returns ==
  /\ query.pc = "done"
  /\ query' = Idle
  /\ UNCHANGED <<node, link, wire, handlers, Synced, store, headerIndex, queries, faults>>

----------------------------------------------------------------------------
(* A crash, perhaps while headers are being written.                       *)

Loses ==
  /\ con # "off" /\ Within(crashes, MaxCrashes)
  /\ crashes' = crashes + 1
  /\ con' = "off" /\ listOfNodes' = <<>> /\ told' = 0
  /\ wireOut' = <<>> /\ wireIn' = <<>> /\ handlers' = <<>>
  /\ Synced' = FALSE
  /\ headerIndex' = <<>> /\ query' = Idle
  /\ UNCHANGED <<node, queries, drops>>

Crash == Loses /\ UNCHANGED store

\* After n whole headers of the message, with or without a part of the next.
CrashInIngest(i) ==
  LET in == handlers[i].in
      verdict == CheckHeaderChain(file, torn, in)
      f == Truncated(file, verdict)
  IN  /\ handlers[i].pc = "ingest" /\ in # <<>> /\ verdict.v = "ok"
      /\ \E n \in 0..Len(in) - 1, t \in BOOLEAN :
           /\ file' = IF n = 0 /\ ~t THEN f ELSE WriteAt(f, verdict.offset, SubSeq(in, 1, n))
           /\ torn' = t
      /\ Loses

Handler(i) ==
  IngestHeaders(i) \/ AskForHeaders(i) \/ GetHeaderAtHeight(i) \/ Send(i)

Hashes == UNION {{b[i].id : i \in 1..Len(b)} : b \in Branches}

System ==
  \/ Start \/ Reconnect \/ Receive \/ NodeAnswers
  \/ \E i \in 1..Len(handlers) : Handler(i)

Next ==
  \/ System
  \/ ReadFails \/ NodeSwitches
  \/ \E hash \in Hashes : LookupTip(hash)
  \/ IndexHeaders \/ GetHeaderByBlockHash \/ Returns
  \/ Crash
  \/ \E i \in 1..Len(handlers) : CrashInIngest(i)

\* The client and the node do not all stop; no goroutine is owed a turn before
\* another, and faults need not happen.
Fairness == WF_vars(System)

Spec == Init /\ [][Next]_vars /\ Fairness

----------------------------------------------------------------------------

Holes == {i \in 1..Len(file) : file[i] = Zero}

\* The file is one branch by height, up to holes: each record is the header of
\* its height on one and the same branch, so that also the headers on the two
\* sides of a hole belong together, or it is zeroed.  A zeroed record is what
\* IngestHeaders leaves when it truncates to the header the message attaches to,
\* that header included, and writes at the offset after it: it does not append,
\* as its comment says, after a reorganisation or an answer that comes again.
\* While no connection breaks and the node follows one branch there is no hole
\* and the file is a plain chain; the genesis header is never lost, and only a
\* crash leaves a hole as the last record, which the next message is checked
\* against (CheckHeaderChain, IngestHeaders, FindHeader).
FileIsBranchUpToHoles ==
  /\ \E b \in Branches :
       Len(file) <= Len(b) /\ \A i \in 1..Len(file) : file[i] \in {b[i], Zero}
  /\ drops + switches = 0 => Holes = {}
  /\ 1 \notin Holes
  /\ crashes = 0 => Len(file) \notin Holes

\* A header looked up by its hash has that hash (GetHeaderByBlockHash).
LookupReturnsAsked == query.got \in {"none", query.hash}

\* The file has a header the node has given up.
Outdated == \E i \in 1..Len(file) : file[i] # Zero /\ file[i] \notin ToSet(best)

\* While no crash and no reorganisation happens, the client is in the end
\* synchronised for good, with at least the headers the node had at its last
\* answer, or has given up connecting: no goroutine that dies in AskForHeaders
\* and no late answer of an earlier connection stops the asking (HeaderHandler,
\* Connect).
SyncCompletes ==
  (<>[](con = "lost" \/ (Synced /\ Len(file) > told))) \/ <>(crashes > 0 \/ Outdated)
============================================================================

----------------------------- MODULE RpcClient -----------------------------
(***************************************************************************)
(* The goroutines of the Bitcoin RPC client: callers that send a command   *)
(* and wait for its future, the handlers of a websocket connection, the    *)
(* reconnect handler with the goroutine that registers notifications and   *)
(* sends pending requests again, the handler of HTTP POST mode, Disconnect *)
(* and Shutdown.                                                           *)
(*                                                                         *)
(* A connection is its number; its disconnect channel is closed when it is *)
(* not the current one, or disconnected.  The server and the network are   *)
(* external.  What a message says is its command; results are outcomes.    *)
(***************************************************************************)
EXTENDS Integers, Sequences, SequencesExt, FiniteSets

CONSTANTS
  Modes,            \* of "post" (HTTPPostMode), "ws" (DisableAutoReconnect), "auto"
  Commands,         \* what the callers may send, one command each, by mode
  MaxCallers,
  sendBufferSize,
  sendPostBufferSize,
  MaxConns,         \* bound on the connections
  MaxIDs            \* bound on the requests, re-registrations included

ASSUME RpcAssumption ==
  /\ Modes \subseteq {"post", "ws", "auto"}
  /\ \A m \in Modes : Commands[m] \subseteq SeqOf({"call", "rescan", "notify"}, MaxCallers)
  /\ MaxCallers \in Nat /\ {sendBufferSize, sendPostBufferSize, MaxConns, MaxIDs} \subseteq Nat \ {0}

Callers == 1..MaxCallers
Resenders == MaxCallers + 1..MaxCallers + MaxConns   \* one per connection
Senders == Callers \cup Resenders
IDs == 1..MaxIDs
Conns == 1..MaxConns

VARIABLES
  mode,
  wanted,           \* the command of each caller
  established,      \* connEstablished is closed
  shutdown,         \* shutdown is closed
  conn,             \* the connection wsConn and disconnect belong to, 0 for none
  disconnected,
  failing,          \* Disconnect has yet to fail the pending requests
  lastID,
  cmd,              \* the command of every request
  future,           \* responseChan of every request
  delivered,        \* how many responses were put into it
  requestList,
  ntfnState,        \* the notifications registered
  sender,           \* where each caller and resender is
  sendChan,
  sendPostChan,
  inHandler,        \* wsInHandler of each connection
  outHandler,       \* wsOutHandler of each connection
  reconnecting,     \* wsReconnectHandler: "wait", "dial" or "done"
  postHandler,      \* sendPostHandler: where it is and with which request
  link,             \* the network: "up" or "broken"
  toServer, fromServer,
  registered        \* whether this connection is registered at the server

requests == <<lastID, cmd, future, delivered, requestList, ntfnState>>
state == <<mode, wanted, established, shutdown, conn, disconnected, failing>>
handlers == <<inHandler, outHandler, reconnecting, postHandler>>
channels == <<sendChan, sendPostChan>>
server == <<link, toServer, fromServer, registered>>
vars == <<requests, state, handlers, channels, server, sender>>

Off == [pc |-> "off", id |-> 0, on |-> 0, ok |-> FALSE]
Sender == [pc |-> "idle", id |-> 0, on |-> 0, todo |-> <<>>]

Init ==
  /\ mode \in Modes /\ wanted \in Commands[mode]
  /\ established = (mode = "post") /\ shutdown = FALSE
  /\ conn = 0 /\ disconnected = FALSE /\ failing = FALSE
  /\ lastID = 0 /\ requestList = <<>> /\ ntfnState = FALSE
  /\ cmd = [i \in IDs |-> "none"]
  /\ future = [i \in IDs |-> <<>>] /\ delivered = [i \in IDs |-> 0]
  /\ sender = [s \in Senders |-> Sender]
  /\ sendChan = <<>> /\ sendPostChan = <<>>
  /\ inHandler = [c \in Conns |-> Off] /\ outHandler = [c \in Conns |-> Off]
  /\ reconnecting = "done"
  /\ postHandler = IF mode = "post" THEN [Off EXCEPT !.pc = "select"] ELSE Off
  /\ link = "up" /\ toServer = <<>> /\ fromServer = <<>> /\ registered = FALSE

----------------------------------------------------------------------------
(* Channels and futures.                                                   *)

\* A receive from the disconnect channel of that connection succeeds.
Closed(c) == c < conn \/ disconnected

\* responseChan has room for one response.
Deliver(id, outcome) ==
  /\ future[id] = <<>>
  /\ future' = [future EXCEPT ![id] = <<outcome>>]
  /\ delivered' = [delivered EXCEPT ![id] = @ + 1]

At(s, pc) == sender' = [sender EXCEPT ![s].pc = pc]

NextID(s, command) ==
  /\ lastID < MaxIDs
  /\ lastID' = lastID + 1
  /\ cmd' = [cmd EXCEPT ![lastID + 1] = command]

\* sendCmd and sendRequest up to the choice of a transport.
sendCmd(s, command) ==
  /\ NextID(s, command)
  /\ IF established
     THEN /\ sender' = [sender EXCEPT ![s].id = lastID + 1,
                                      ![s].pc = IF mode = "post" THEN "check" ELSE "add"]
          /\ UNCHANGED <<future, delivered>>
     ELSE /\ Deliver(lastID + 1, "not connected")
          /\ sender' = [sender EXCEPT ![s].id = lastID + 1, ![s].pc = "wait"]

Call(s) ==
  /\ s \in 1..Len(wanted) /\ sender[s].pc = "idle"
  /\ sendCmd(s, wanted[s])
  /\ UNCHANGED <<state, handlers, channels, server, requestList, ntfnState>>

\* addRequest, had it not looked at shutdown.
addRequestUnchecked(s) ==
  /\ sender[s].pc = "add"
  /\ requestList' = Append(requestList, sender[s].id)
  /\ sender' = [sender EXCEPT ![s].pc = "push", ![s].on = conn]
  /\ UNCHANGED <<state, handlers, channels, server, lastID, cmd, ntfnState, future, delivered>>

addRequest(s) ==
  /\ sender[s].pc = "add"
  /\ IF shutdown
     THEN /\ Deliver(sender[s].id, "shutdown")
          /\ At(s, "wait")
          /\ UNCHANGED requestList
     ELSE /\ requestList' = Append(requestList, sender[s].id)
          /\ sender' = [sender EXCEPT ![s].pc = "push", ![s].on = conn]
          /\ UNCHANGED <<future, delivered>>
  /\ UNCHANGED <<state, handlers, channels, server, lastID, cmd, ntfnState>>

\* The select of sendMessage; the disconnect channel is the one of its start.
Sends(s, id) ==
  \/ Len(sendChan) < sendBufferSize /\ sendChan' = Append(sendChan, id)
  \/ Closed(sender[s].on) /\ UNCHANGED sendChan

sendMessage(s) ==
  /\ sender[s].pc = "push"
  /\ Sends(s, sender[s].id)
  /\ At(s, "wait")
  /\ UNCHANGED <<state, handlers, server, requests, sendPostChan>>

\* receiveFuture: a caller is done, a resender goes on or gives up.
receiveFuture(s) ==
  LET id == sender[s].id
  IN  /\ sender[s].pc = "wait" /\ future[id] # <<>>
      /\ future' = [future EXCEPT ![id] = <<>>]
      /\ At(s, CASE s \in Callers -> "done"
                 [] s \in Resenders /\ Head(future[id]) = "result" -> "copy"
                 [] OTHER -> "disconnect")
      /\ UNCHANGED <<state, handlers, channels, server, lastID, cmd, delivered, requestList,
                     ntfnState>>

----------------------------------------------------------------------------
(* Disconnect and Shutdown.                                                *)

doDisconnect ==
  /\ disconnected' = TRUE
  /\ failing' = (failing \/ (mode = "ws" /\ ~disconnected))

DisconnectsStep == doDisconnect /\ UNCHANGED <<mode, wanted, established, shutdown, conn>>

\* Every request of the list gets the outcome.
FailAll(outcome) ==
  LET all == ToSet(requestList)
  IN  /\ \A i \in all : future[i] = <<>>
      /\ future' = [i \in IDs |-> IF i \in all THEN <<outcome>> ELSE future[i]]
      /\ delivered' = [i \in IDs |-> IF i \in all THEN delivered[i] + 1 ELSE delivered[i]]

\* The rest of Disconnect without automatic reconnection, under requestLock.
Disconnect ==
  /\ failing
  /\ FailAll("disconnect")
  /\ requestList' = <<>>
  /\ failing' = FALSE /\ shutdown' = TRUE
  /\ UNCHANGED <<mode, wanted, established, conn, disconnected, handlers, channels, server, lastID,
                 cmd, ntfnState, sender>>

\* The user calls it.
Shutdown ==
  /\ ~shutdown
  /\ shutdown' = TRUE
  /\ FailAll("shutdown")
  /\ requestList' = <<>>
  /\ disconnected' = (disconnected \/ mode # "post")
  /\ UNCHANGED <<mode, wanted, established, conn, failing, handlers, channels, server, lastID, cmd,
                 ntfnState, sender>>

----------------------------------------------------------------------------
(* The connection.                                                         *)

\* start: the handlers of a new connection.
start(c) ==
  /\ conn' = c
  /\ inHandler' = [inHandler EXCEPT ![c] = [Off EXCEPT !.pc = "read", !.on = c]]
  /\ outHandler' = [outHandler EXCEPT ![c] = [Off EXCEPT !.pc = "select", !.on = c]]
  /\ link' = "up" /\ toServer' = <<>> /\ fromServer' = <<>> /\ registered' = FALSE

\* New, or Connect after it; the dial may fail any number of times before.
Connect ==
  /\ mode # "post" /\ conn = 0
  /\ start(1)
  /\ established' = TRUE
  /\ UNCHANGED disconnected
  /\ reconnecting' = IF mode = "auto" THEN "wait" ELSE "done"
  /\ UNCHANGED <<mode, wanted, shutdown, failing, postHandler, channels, requests, sender>>

wsReconnectHandler ==
  \/ /\ reconnecting = "wait" /\ disconnected
     /\ reconnecting' = "dial"
     /\ UNCHANGED <<state, inHandler, outHandler, server, sender>>
  \/ /\ reconnecting \in {"wait", "dial"} /\ shutdown
     /\ reconnecting' = "done"
     /\ UNCHANGED <<state, inHandler, outHandler, server, sender>>
  \/ /\ reconnecting = "dial" /\ ~shutdown /\ conn < MaxConns
     /\ start(conn + 1)
     /\ disconnected' = FALSE
     /\ sender' = [sender EXCEPT ![MaxCallers + conn + 1].pc = "reregister"]
     /\ reconnecting' = "wait"
     /\ UNCHANGED <<mode, wanted, established, shutdown, failing>>

Reconnects ==
  wsReconnectHandler /\ UNCHANGED <<postHandler, channels, requests>>

\* reregisterNtfns of resendRequests.
reregisterNtfns(s) ==
  /\ sender[s].pc = "reregister"
  /\ IF ntfnState THEN sendCmd(s, "notify")
     ELSE At(s, "copy") /\ UNCHANGED <<lastID, cmd, future, delivered>>
  /\ UNCHANGED <<state, handlers, channels, server, requestList, ntfnState>>

\* resendCopy, had it taken the requests out of the list.
resendMoves(s) ==
  /\ sender[s].pc = "copy"
  /\ requestList' = <<>>
  /\ sender' = [sender EXCEPT ![s].pc = "resend", ![s].todo = requestList]
  /\ UNCHANGED <<state, handlers, channels, server, lastID, cmd, future, delivered, ntfnState>>

\* The copy of the requests to send again; a rescan is dropped.
resendCopy(s) ==
  /\ sender[s].pc = "copy"
  /\ requestList' = SelectSeq(requestList, LAMBDA i : cmd[i] # "rescan")
  /\ sender' = [sender EXCEPT ![s].pc = "resend", ![s].todo = requestList']
  /\ UNCHANGED <<state, handlers, channels, server, lastID, cmd, future, delivered, ntfnState>>

\* Whether the client is disconnected is looked at before each of them.
resendRequests(s) ==
  /\ sender[s].pc = "resend"
  /\ IF sender[s].todo = <<>> \/ disconnected THEN At(s, "done")
     ELSE sender' = [sender EXCEPT ![s].pc = "repush", ![s].on = conn]
  /\ UNCHANGED <<state, handlers, channels, server, requests>>

resendMessage(s) ==
  /\ sender[s].pc = "repush"
  /\ Sends(s, Head(sender[s].todo))
  /\ sender' = [sender EXCEPT ![s].pc = "resend", ![s].todo = Tail(@)]
  /\ UNCHANGED <<state, handlers, server, requests, sendPostChan>>

\* The notifications could not be registered.
resendGivesUp(s) ==
  /\ sender[s].pc = "disconnect"
  /\ DisconnectsStep
  /\ At(s, "done")
  /\ UNCHANGED <<handlers, channels, server, requests>>

----------------------------------------------------------------------------
(* wsOutHandler.                                                           *)

Out(c, pc) == outHandler' = [outHandler EXCEPT ![c].pc = pc]

OutTakes(c) ==
  /\ outHandler[c].pc = "select" /\ sendChan # <<>>
  /\ outHandler' = [outHandler EXCEPT ![c].pc = "write", ![c].id = Head(sendChan)]
  /\ sendChan' = Tail(sendChan)
  /\ UNCHANGED <<state, inHandler, reconnecting, postHandler, sendPostChan, server, requests,
                 sender>>

\* A write to a broken connection fails, or is lost.
OutWrites(c) ==
  /\ outHandler[c].pc = "write"
  /\ \/ /\ ~disconnected
        /\ toServer' = IF link = "up" THEN Append(toServer, outHandler[c].id) ELSE toServer
        /\ outHandler' = [outHandler EXCEPT ![c].pc = "select", ![c].on = conn]
        /\ UNCHANGED state
     \/ /\ disconnected \/ link = "broken"
        /\ DisconnectsStep
        /\ Out(c, "cleanup")
        /\ UNCHANGED toServer
  /\ UNCHANGED <<inHandler, reconnecting, postHandler, channels, link, fromServer, registered,
                 requests, sender>>

OutSeesDisconnect(c) ==
  /\ outHandler[c].pc = "select" /\ Closed(outHandler[c].on)
  /\ Out(c, "cleanup")
  /\ UNCHANGED <<state, inHandler, reconnecting, postHandler, channels, server, requests, sender>>

OutDrains(c) ==
  /\ outHandler[c].pc = "cleanup"
  /\ IF sendChan # <<>> THEN sendChan' = Tail(sendChan) /\ UNCHANGED outHandler
     ELSE Out(c, "off") /\ UNCHANGED sendChan
  /\ UNCHANGED <<state, inHandler, reconnecting, postHandler, sendPostChan, server, requests,
                 sender>>

wsOutHandler(c) == OutTakes(c) \/ OutWrites(c) \/ OutSeesDisconnect(c) \/ OutDrains(c)

----------------------------------------------------------------------------
(* wsInHandler and handleMessage.                                          *)

InReads(c) ==
  /\ inHandler[c].pc = "read" /\ inHandler[c].on = conn
  /\ ~shutdown /\ ~disconnected /\ fromServer # <<>>
  /\ inHandler' = [inHandler EXCEPT ![c] =
                     [pc |-> "remove", id |-> Head(fromServer).id, on |-> conn,
                      ok |-> Head(fromServer).ok]]
  /\ fromServer' = Tail(fromServer)
  /\ UNCHANGED <<state, outHandler, reconnecting, postHandler, channels, link, toServer,
                 registered, requests, sender>>

\* InFails, had the handler only ended.
InEnds(c) ==
  /\ inHandler[c].pc = "read"
  /\ shutdown \/ Closed(inHandler[c].on) \/ link = "broken"
  /\ inHandler' = [inHandler EXCEPT ![c] = Off]
  /\ UNCHANGED <<state, outHandler, reconnecting, postHandler, channels, server, requests, sender>>

\* The read fails, or the client shuts down: the connection is closed.
InFails(c) ==
  /\ inHandler[c].pc = "read"
  /\ shutdown \/ Closed(inHandler[c].on) \/ link = "broken"
  /\ DisconnectsStep
  /\ inHandler' = [inHandler EXCEPT ![c] = Off]
  /\ UNCHANGED <<outHandler, reconnecting, postHandler, channels, server, requests, sender>>

\* removeRequest, had the reply been delivered whoever waits for it.
removeRequestAlways(c) ==
  LET id == inHandler[c].id
  IN  /\ inHandler[c].pc = "remove"
      /\ requestList' = Remove(requestList, id)
      /\ inHandler' = [inHandler EXCEPT ![c].pc = "track", ![c].on = conn]
      /\ UNCHANGED <<state, outHandler, reconnecting, postHandler, channels, server, sender,
                     lastID, cmd, future, delivered, ntfnState>>

\* A reply nobody waits for is dropped.
removeRequest(c) ==
  LET id == inHandler[c].id
  IN  /\ inHandler[c].pc = "remove"
      /\ requestList' = Remove(requestList, id)
      /\ inHandler' = [inHandler EXCEPT ![c].pc =
                         IF id \in ToSet(requestList) THEN "track" ELSE "read", ![c].on = conn]
      /\ UNCHANGED <<state, outHandler, reconnecting, postHandler, channels, server, sender,
                     lastID, cmd, future, delivered, ntfnState>>

\* trackRegisteredNtfns, whatever the reply says, and the delivery.
handleMessage(c) ==
  LET h == inHandler[c]
  IN  /\ h.pc = "track"
      /\ ntfnState' = (ntfnState \/ cmd[h.id] = "notify")
      /\ Deliver(h.id, IF h.ok THEN "result" ELSE "error")
      /\ inHandler' = [inHandler EXCEPT ![c].pc = "read", ![c].on = conn]
      /\ UNCHANGED <<state, outHandler, reconnecting, postHandler, channels, server, sender,
                     lastID, cmd, requestList>>

wsInHandler(c) == InReads(c) \/ InFails(c) \/ removeRequest(c) \/ handleMessage(c)

----------------------------------------------------------------------------
(* HTTP POST mode.                                                         *)

\* sendPostRequest delivers an error once shut down, and goes on all the same.
sendPostRequest(s) ==
  \/ /\ sender[s].pc = "check"
     /\ IF shutdown THEN Deliver(sender[s].id, "shutdown") ELSE UNCHANGED <<future, delivered>>
     /\ At(s, "post")
     /\ UNCHANGED sendPostChan
  \/ /\ sender[s].pc = "post" /\ Len(sendPostChan) < sendPostBufferSize
     /\ sendPostChan' = Append(sendPostChan, sender[s].id)
     /\ At(s, "wait")
     /\ UNCHANGED <<future, delivered>>

Posts(s) ==
  sendPostRequest(s)
  /\ UNCHANGED <<state, handlers, sendChan, server, lastID, cmd, requestList, ntfnState>>

\* The request fails or has a result: handleSendPostMessage.
handleSendPostMessage ==
  /\ postHandler.pc = "do"
  /\ \E outcome \in {"result", "error"} : Deliver(postHandler.id, outcome)
  /\ postHandler' = [Off EXCEPT !.pc = "select"]
  /\ UNCHANGED sendPostChan

PostTakes(from, to) ==
  /\ postHandler.pc = from /\ sendPostChan # <<>>
  /\ postHandler' = [Off EXCEPT !.pc = to, !.id = Head(sendPostChan)]
  /\ sendPostChan' = Tail(sendPostChan)
  /\ UNCHANGED <<future, delivered>>

sendPostHandler ==
  \/ PostTakes("select", "do")
  \/ handleSendPostMessage
  \/ /\ postHandler.pc = "select" /\ shutdown
     /\ postHandler' = [Off EXCEPT !.pc = "cleanup"]
     /\ UNCHANGED <<sendPostChan, future, delivered>>
  \/ PostTakes("cleanup", "refuse")
  \/ /\ postHandler.pc = "refuse"
     /\ Deliver(postHandler.id, "shutdown")
     /\ postHandler' = [Off EXCEPT !.pc = "cleanup"]
     /\ UNCHANGED sendPostChan
  \/ /\ postHandler.pc = "cleanup" /\ sendPostChan = <<>>
     /\ postHandler' = Off
     /\ UNCHANGED <<sendPostChan, future, delivered>>

HandlesPosts ==
  sendPostHandler
  /\ UNCHANGED <<state, inHandler, outHandler, reconnecting, sendChan, server, lastID, cmd,
                 requestList, ntfnState, sender>>

----------------------------------------------------------------------------
(* The server and the network.                                             *)

ServerReplies ==
  /\ link = "up" /\ ~disconnected /\ toServer # <<>>
  /\ \E ok \in BOOLEAN :
       /\ cmd[Head(toServer)] = "notify" \/ ok
       /\ fromServer' = Append(fromServer, [id |-> Head(toServer), ok |-> ok])
       /\ registered' = (registered \/ (ok /\ cmd[Head(toServer)] = "notify"))
  /\ toServer' = Tail(toServer)
  /\ UNCHANGED <<state, handlers, channels, requests, sender, link>>

\* Only where a new connection could still be made.
LinkBreaks ==
  /\ link = "up" /\ conn \in 1..MaxConns - 1 /\ ~disconnected
  /\ link' = "broken"
  /\ UNCHANGED <<state, handlers, channels, requests, sender, toServer, fromServer, registered>>

Steps(s) ==
  addRequest(s) \/ sendMessage(s) \/ receiveFuture(s) \/ Posts(s)
  \/ reregisterNtfns(s) \/ resendCopy(s) \/ resendRequests(s) \/ resendMessage(s)
  \/ resendGivesUp(s)

System ==
  \/ \E s \in Senders : Steps(s)
  \/ Disconnect \/ Reconnects
  \/ \E c \in Conns : wsOutHandler(c) \/ wsInHandler(c)
  \/ HandlesPosts
  \/ ServerReplies

Next ==
  \/ \E s \in Callers : Call(s)
  \/ Connect \/ Shutdown \/ LinkBreaks
  \/ System

\* Goroutines and the server do not all stop.
Spec == Init /\ [][Next]_vars /\ WF_vars(System)

----------------------------------------------------------------------------

\* A future gets one response at most, whatever requests are sent again,
\* answered twice, failed by Disconnect and by Shutdown at the same time, or
\* answered late; but for a POST request made after Shutdown, to which
\* sendPostRequest answers before it queues it (removeRequest, Disconnect).
ResolvedOnce ==
  \A i \in IDs : delivered[i] <= 1 \/ (mode = "post" /\ shutdown)

\* A request somebody waits for over a websocket is in the list, in the hands
\* of a wsInHandler, or answered, also across Disconnect, Shutdown and
\* reconnections; but for a rescan, which a reconnection drops
\* (addRequest, Disconnect, Shutdown, resendRequests).
NoneForgotten ==
  \A s \in Senders :
    LET id == sender[s].id
    IN  sender[s].pc = "wait" /\ mode # "post" /\ cmd[id] # "rescan" =>
          \/ delivered[id] = 1
          \/ id \in ToSet(requestList)
          \/ \E c \in Conns : inHandler[c].pc = "track" /\ inHandler[c].id = id

\* Every websocket call returns: while the first connection holds, or without
\* automatic reconnection (sendMessage, wsOutHandler, wsInHandler, Disconnect).
CallsReturn ==
  \A s \in Callers :
    (sender[s].pc # "idle" /\ mode # "post")
      ~> (sender[s].pc = "done" \/ (mode = "auto" /\ conn > 1))
============================================================================

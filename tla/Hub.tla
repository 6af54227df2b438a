-------------------------------- MODULE Hub --------------------------------
(***************************************************************************)
(* One Server's WebSocket side: runtime/websocket.go and the parts of      *)
(* runtime/server.go that feed it. The goroutines are                      *)
(*   - Hub.run, the only writer of the client map and the only closer of   *)
(*     the per-client send channels;                                       *)
(*   - per connection, handleWebSocket followed by readPump (one thread of *)
(*     control here, "reader"), writePump ("writer"), and one goroutine    *)
(*     per invoke in progress (counted in "calls");                        *)
(*   - handleEvents/broadcastEvent, the broadcaster ("bc");                *)
(*   - the application, which emits events and stops the server.           *)
(* A WSClient object is never reused: a page that reconnects is another    *)
(* element of Client. A panic in any goroutine ends the process ("crash"). *)
(*                                                                         *)
(* A definition Op_what is Op with the plausible bug "what"; it is not     *)
(* part of the specification. Each property is shown to notice one.        *)
(***************************************************************************)
EXTENDS Naturals, Sequences, FiniteSets

CONSTANTS
  Client,       \* the WSClient objects
  MaxCalls,     \* bound of the model: invokes in progress on one connection
  SendCap,      \* capacity of WSClient.send (256 in the code)
  SubCap,       \* capacity of a bridge subscription (64 in the code)
  MaxEvents     \* bound of the model: events ever emitted

ASSUME ConstantsAssumption ==
  /\ SendCap \in Nat \ {0}
  /\ SubCap \in Nat \ {0}
  /\ MaxCalls \in Nat
  /\ MaxEvents \in Nat

VARIABLES
  hub,          \* where Hub.run is
  cur,          \* {c} while Hub.run handles the client c, {} otherwise
  clients,      \* Hub.clients
  stop,         \* Hub.stop is closed
  listening,    \* http.Server.Shutdown has not finished
  conn,         \* the connection as the server sees it
  reader,       \* where handleWebSocket / readPump is
  writer,       \* where writePump is
  queue,        \* contents of WSClient.send: event numbers and answers
  closed,       \* WSClient.send is closed
  calls,        \* invokes in progress on each connection
  sub,          \* the broadcaster's bridge subscription
  bc,           \* where handleEvents / broadcastEvent is
  bmsg,         \* the event broadcast last, or being broadcast
  targets,      \* what GetAll returned, less the clients already served
  emitted,      \* number of events emitted so far
  lastEvent,    \* last event written to each page
  crash         \* why the process panicked

hubVars  == <<hub, cur, clients>>
srvVars  == <<stop, listening>>
pumpVars == <<conn, reader, writer>>
bcVars   == <<bc, bmsg, targets>>
vars == <<hubVars, srvVars, pumpVars, bcVars, queue, closed, calls, sub,
          emitted, lastEvent, crash>>

\* A frame is the number of the event it carries, or 0 for an answer
\* (invokeResult or pong), which no property looks into.
Answer == 0

\* A panic in any goroutine ends them all.
Running == crash = "none"

Init ==
  /\ hub = "select" /\ cur = {} /\ clients = {}
  /\ stop = FALSE /\ listening = TRUE
  /\ conn = [c \in Client |-> "none"]
  /\ reader = [c \in Client |-> "none"]
  /\ writer = [c \in Client |-> "none"]
  /\ queue = [c \in Client |-> <<>>]
  /\ closed = [c \in Client |-> FALSE]
  /\ calls = [c \in Client |-> 0]
  /\ sub = <<>>
  /\ bc = "starting" /\ bmsg = 0 /\ targets = {}
  /\ emitted = 0 /\ lastEvent = [c \in Client |-> 0]
  /\ crash = "none"

(***************************************************************************)
(* Channel operations on WSClient.send.                                    *)
(***************************************************************************)

TrySend_unbounded(c, m) ==
  /\ queue' = [queue EXCEPT ![c] = Append(@, m)]
  /\ UNCHANGED crash

TrySend_blocks(c, m) ==
  /\ Len(queue[c]) < SendCap
  /\ queue' = [queue EXCEPT ![c] = Append(@, m)]
  /\ UNCHANGED crash

\* select { case c.send <- m: default: } -- drops when full, panics when closed.
TrySend(c, m) ==
  IF closed[c]
  THEN crash' = "send on closed channel" /\ UNCHANGED queue
  ELSE /\ queue' = IF Len(queue[c]) < SendCap
                   THEN [queue EXCEPT ![c] = Append(@, m)] ELSE queue
       /\ UNCHANGED crash

Release_keepsEntry(c) ==
  /\ UNCHANGED clients
  /\ closed' = [closed EXCEPT ![c] = TRUE]
  /\ crash' = IF closed[c] THEN "close of closed channel" ELSE crash

Release_keepsOpen(c) ==
  /\ clients' = clients \ {c}
  /\ UNCHANGED <<closed, crash>>

\* delete(h.clients, c); close(c.send) -- panics when already closed.
Release(c) ==
  /\ clients' = clients \ {c}
  /\ closed' = [closed EXCEPT ![c] = TRUE]
  /\ crash' = IF closed[c] THEN "close of closed channel" ELSE crash

(***************************************************************************)
(* Hub.run: one select loop. Receiving from register or unregister is the  *)
(* rendezvous with the sender; the map is updated afterwards, under mu.    *)
(***************************************************************************)

HubRegister(c) ==
  /\ Running /\ hub = "select" /\ reader[c] = "registering"
  /\ hub' = "insert" /\ cur' = {c}
  /\ reader' = [reader EXCEPT ![c] = "reading"]
  /\ writer' = [writer EXCEPT ![c] = "running"]
  /\ UNCHANGED <<clients, srvVars, conn, bcVars, queue, closed, calls, sub,
                 emitted, lastEvent, crash>>

HubInsert(c) ==
  /\ Running /\ hub = "insert" /\ cur = {c}
  /\ clients' = clients \cup {c}
  /\ hub' = "select" /\ cur' = {}
  /\ UNCHANGED <<srvVars, pumpVars, bcVars, queue, closed, calls, sub,
                 emitted, lastEvent, crash>>

HubUnregister(c) ==
  /\ Running /\ hub = "select" /\ reader[c] = "leaving"
  /\ hub' = "remove" /\ cur' = {c}
  /\ reader' = [reader EXCEPT ![c] = "closing"]
  /\ UNCHANGED <<clients, srvVars, conn, writer, bcVars, queue, closed, calls,
                 sub, emitted, lastEvent, crash>>

HubRemove(c) ==
  /\ Running /\ hub = "remove" /\ cur = {c}
  /\ IF c \in clients THEN Release(c) ELSE UNCHANGED <<clients, closed, crash>>
  /\ hub' = "select" /\ cur' = {}
  /\ UNCHANGED <<srvVars, pumpVars, bcVars, queue, calls, sub, emitted, lastEvent>>

\* case <-h.stop: the lock is held from here until the map is empty.
HubStop ==
  /\ Running /\ hub = "select" /\ stop
  /\ hub' = "drain"
  /\ UNCHANGED <<cur, clients, srvVars, pumpVars, bcVars, queue, closed, calls,
                 sub, emitted, lastEvent, crash>>

HubDrain(c) ==
  /\ Running /\ hub = "drain" /\ c \in clients
  /\ Release(c)
  /\ UNCHANGED <<hub, cur, srvVars, pumpVars, bcVars, queue, calls, sub,
                 emitted, lastEvent>>

HubReturn_early ==
  /\ Running /\ hub = "drain"
  /\ hub' = "stopped"
  /\ UNCHANGED <<cur, clients, srvVars, pumpVars, bcVars, queue, closed, calls,
                 sub, emitted, lastEvent, crash>>

HubReturn ==
  /\ Running /\ hub = "drain" /\ clients = {}
  /\ hub' = "stopped"
  /\ UNCHANGED <<cur, clients, srvVars, pumpVars, bcVars, queue, closed, calls,
                 sub, emitted, lastEvent, crash>>

HubMuFree == hub # "drain"

(***************************************************************************)
(* handleWebSocket and readPump.                                           *)
(***************************************************************************)

\* The upgrade; the goroutine then blocks in h.register <- c.
HandleWebSocket(c) ==
  /\ Running /\ listening /\ reader[c] = "none"
  /\ conn' = [conn EXCEPT ![c] = "open"]
  /\ reader' = [reader EXCEPT ![c] = "registering"]
  /\ UNCHANGED <<hubVars, srvVars, writer, bcVars, queue, closed, calls, sub,
                 emitted, lastEvent, crash>>

CanRead(c) == Running /\ reader[c] = "reading" /\ conn[c] = "open"

ReadInvoke(c) ==
  /\ CanRead(c) /\ calls[c] < MaxCalls
  /\ calls' = [calls EXCEPT ![c] = @ + 1]
  /\ UNCHANGED <<hubVars, srvVars, pumpVars, bcVars, queue, closed, sub,
                 emitted, lastEvent, crash>>

\* The invoke's own goroutine: the handler returns and its result is offered.
InvokeReturns(c) ==
  /\ Running /\ calls[c] > 0
  /\ calls' = [calls EXCEPT ![c] = @ - 1]
  /\ TrySend(c, Answer)
  /\ UNCHANGED <<hubVars, srvVars, pumpVars, bcVars, closed, sub, emitted, lastEvent>>

ReadPing(c) ==
  /\ CanRead(c)
  /\ TrySend(c, Answer)
  /\ UNCHANGED <<hubVars, srvVars, pumpVars, bcVars, closed, calls, sub, emitted, lastEvent>>

\* An "event" frame: Bridge.DispatchEvent waits for the bridge's read lock and
\* runs the page's handlers here, inline. What they do (emit, stop the server,
\* never return, wait for the lock their own caller holds) is the environment's.
ReadEvent(c) ==
  /\ CanRead(c)
  /\ reader' = [reader EXCEPT ![c] = "dispatching"]
  /\ UNCHANGED <<hubVars, srvVars, conn, writer, bcVars, queue, closed, calls,
                 sub, emitted, lastEvent, crash>>

DispatchReturns(c) ==
  /\ Running /\ reader[c] = "dispatching"
  /\ reader' = [reader EXCEPT ![c] = "reading"]
  /\ UNCHANGED <<hubVars, srvVars, conn, writer, bcVars, queue, closed, calls,
                 sub, emitted, lastEvent, crash>>

\* ReadMessage fails: the peer is gone, the read deadline passed, the frame is too big.
ReadFails(c) ==
  /\ Running /\ reader[c] = "reading"
  /\ reader' = [reader EXCEPT ![c] = "leaving"]
  /\ UNCHANGED <<hubVars, srvVars, conn, writer, bcVars, queue, closed, calls,
                 sub, emitted, lastEvent, crash>>

\* The deferred select takes <-c.hub.stop; the other case is HubUnregister.
ReaderSeesStop(c) ==
  /\ Running /\ reader[c] = "leaving" /\ stop
  /\ reader' = [reader EXCEPT ![c] = "closing"]
  /\ UNCHANGED <<hubVars, srvVars, conn, writer, bcVars, queue, closed, calls,
                 sub, emitted, lastEvent, crash>>

ReaderClosesConn(c) ==
  /\ Running /\ reader[c] = "closing"
  /\ reader' = [reader EXCEPT ![c] = "done"]
  /\ conn' = [conn EXCEPT ![c] = "closed"]
  /\ UNCHANGED <<hubVars, srvVars, writer, bcVars, queue, closed, calls, sub,
                 emitted, lastEvent, crash>>

(***************************************************************************)
(* writePump. A receive from a closed channel still drains what it holds.  *)
(***************************************************************************)

WriteMessage(c) ==
  /\ Running /\ writer[c] = "running" /\ queue[c] # <<>> /\ conn[c] = "open"
  /\ queue' = [queue EXCEPT ![c] = Tail(@)]
  /\ lastEvent' = IF Head(queue[c]) # Answer
                  THEN [lastEvent EXCEPT ![c] = Head(queue[c])] ELSE lastEvent
  /\ UNCHANGED <<hubVars, srvVars, pumpVars, bcVars, closed, calls, sub, emitted, crash>>

\* A write (a message or the ticker's ping) fails or misses its 10 s deadline.
WriteFails(c) ==
  /\ Running /\ writer[c] = "running"
  /\ writer' = [writer EXCEPT ![c] = "done"]
  /\ conn' = [conn EXCEPT ![c] = "closed"]
  /\ UNCHANGED <<hubVars, srvVars, reader, bcVars, queue, closed, calls, sub,
                 emitted, lastEvent, crash>>

\* message, ok := <-c.send with !ok: say goodbye and return.
WriterSeesClosed(c) ==
  /\ closed[c] /\ queue[c] = <<>>
  /\ WriteFails(c)

(***************************************************************************)
(* handleEvents and broadcastEvent.                                        *)
(***************************************************************************)

BcSubscribe ==
  /\ Running /\ bc = "starting"
  /\ bc' = "wait"
  /\ UNCHANGED <<hubVars, srvVars, pumpVars, bmsg, targets, queue, closed, calls,
                 sub, emitted, lastEvent, crash>>

BcTake_newest ==
  /\ Running /\ bc = "wait" /\ sub # <<>>
  /\ bc' = "snapshot" /\ bmsg' = sub[Len(sub)] /\ sub' = SubSeq(sub, 1, Len(sub) - 1)
  /\ UNCHANGED <<hubVars, srvVars, pumpVars, targets, queue, closed, calls,
                 emitted, lastEvent, crash>>

BcTake ==
  /\ Running /\ bc = "wait" /\ sub # <<>>
  /\ bc' = "snapshot" /\ bmsg' = Head(sub) /\ sub' = Tail(sub)
  /\ UNCHANGED <<hubVars, srvVars, pumpVars, targets, queue, closed, calls,
                 emitted, lastEvent, crash>>

BcGetAll ==
  /\ Running /\ bc = "snapshot" /\ HubMuFree
  /\ bc' = "sending" /\ targets' = clients
  /\ UNCHANGED <<hubVars, srvVars, pumpVars, bmsg, queue, closed, calls, sub,
                 emitted, lastEvent, crash>>

BcSend(c) ==
  /\ Running /\ bc = "sending" /\ c \in targets
  /\ targets' = targets \ {c}
  /\ TrySend(c, bmsg)
  /\ UNCHANGED <<hubVars, srvVars, pumpVars, bc, bmsg, closed, calls, sub,
                 emitted, lastEvent>>

BcNext ==
  /\ Running /\ bc = "sending" /\ targets = {}
  /\ bc' = "wait"
  /\ UNCHANGED <<hubVars, srvVars, pumpVars, bmsg, targets, queue, closed, calls,
                 sub, emitted, lastEvent, crash>>

\* case <-ctx.Done(), once the application has quit: the deferred Unsubscribe closes the subscription.
BcReturn ==
  /\ Running /\ bc = "wait"
  /\ bc' = "returned" /\ sub' = <<>>
  /\ UNCHANGED <<hubVars, srvVars, pumpVars, bmsg, targets, queue, closed, calls,
                 emitted, lastEvent, crash>>

(***************************************************************************)
(* The application and the outside world.                                  *)
(***************************************************************************)

Subscribed == bc \in {"wait", "snapshot", "sending"}

\* Bridge.Emit as the broadcaster's subscription sees it.
Emit ==
  /\ Running /\ emitted < MaxEvents
  /\ emitted' = emitted + 1
  /\ sub' = IF Subscribed /\ Len(sub) < SubCap THEN Append(sub, emitted') ELSE sub
  /\ UNCHANGED <<hubVars, srvVars, pumpVars, bcVars, queue, closed, calls, lastEvent, crash>>

\* Server.Stop: clients().close() (idempotent), then http.Server.Shutdown,
\* which does not touch hijacked (upgraded) connections.
StopHub ==
  /\ Running /\ stop' = TRUE
  /\ UNCHANGED <<hubVars, listening, pumpVars, bcVars, queue, closed,
                 calls, sub, emitted, lastEvent, crash>>

Shutdown ==
  /\ Running /\ stop
  /\ listening' = FALSE
  /\ UNCHANGED <<hubVars, stop, pumpVars, bcVars, queue, closed,
                 calls, sub, emitted, lastEvent, crash>>

\* The page closes, reloads or is killed.
Disconnect(c) ==
  /\ Running /\ conn[c] = "open"
  /\ conn' = [conn EXCEPT ![c] = "closed"]
  /\ UNCHANGED <<hubVars, srvVars, reader, writer, bcVars, queue, closed, calls,
                 sub, emitted, lastEvent, crash>>

-----------------------------------------------------------------------------

HubRun ==
  \/ HubStop \/ HubReturn
  \/ \E c \in Client : \/ HubRegister(c) \/ HubInsert(c)
                       \/ HubUnregister(c) \/ HubRemove(c) \/ HubDrain(c)

ReadPump(c) ==
  \/ HandleWebSocket(c) \/ ReadPing(c) \/ ReadEvent(c) \/ DispatchReturns(c)
  \/ ReadInvoke(c) \/ InvokeReturns(c)
  \/ ReadFails(c) \/ ReaderSeesStop(c) \/ ReaderClosesConn(c)

WritePump(c) == WriteMessage(c) \/ WriteFails(c) \/ WriterSeesClosed(c)

HandleEvents ==
  \/ BcTake \/ BcGetAll \/ BcNext
  \/ \E c \in Client : BcSend(c)

Environment ==
  \/ Emit \/ StopHub \/ Shutdown
  \/ \E c \in Client : Disconnect(c)

Next ==
  \/ HubRun \/ BcSubscribe \/ HandleEvents \/ BcReturn \/ Environment
  \/ \E c \in Client : ReadPump(c) \/ WritePump(c)

Spec == Init /\ [][Next]_vars

(***************************************************************************)
(* Fairness: the Go scheduler runs every goroutine that can run. Nothing   *)
(* is assumed of the application, of handlers (one may never return, and   *)
(* the reader that runs it with it), of the bridge's lock, which a handler *)
(* may hold for ever and BcSubscribe and BcReturn need, or of a page that  *)
(* stays connected: it may leave its queue full for ever. Writing what a   *)
(* closed channel still holds, and reading or writing a dead connection,   *)
(* do end (writes have a 10 s deadline).                                   *)
(***************************************************************************)
ReadPumpLeaves(c) ==
  \/ conn[c] = "closed" /\ ReadFails(c)
  \/ ReaderSeesStop(c) \/ ReaderClosesConn(c)

WritePumpLeaves(c) ==
  \/ closed[c] /\ WriteMessage(c)
  \/ WriterSeesClosed(c)
  \/ conn[c] = "closed" /\ WriteFails(c)

Fairness ==
  /\ WF_vars(HubRun)
  /\ WF_vars(HandleEvents)
  /\ \A c \in Client : /\ WF_vars(ReadPumpLeaves(c))
                       /\ WF_vars(WritePumpLeaves(c))

FairSpec == Spec /\ Fairness
-----------------------------------------------------------------------------
(***************************************************************************)
(* Properties.                                                             *)
(***************************************************************************)

Registered(c) ==
  reader[c] \in {"reading", "dispatching", "leaving", "closing", "done"}
Left(c) == reader[c] \in {"closing", "done"}

TypeOK ==
  /\ hub \in {"select", "insert", "remove", "drain", "stopped"}
  /\ cur \subseteq Client
  /\ clients \subseteq Client
  /\ stop \in BOOLEAN /\ listening \in BOOLEAN
  /\ conn \in [Client -> {"none", "open", "closed"}]
  /\ reader \in [Client -> {"none", "registering", "reading", "dispatching",
                            "leaving", "closing", "done"}]
  /\ writer \in [Client -> {"none", "running", "done"}]
  /\ queue \in [Client -> Seq(Nat)] /\ \A c \in Client : Len(queue[c]) <= SendCap
  /\ closed \in [Client -> BOOLEAN]
  /\ calls \in [Client -> Nat]
  /\ sub \in Seq(Nat) /\ Len(sub) <= SubCap
  /\ bc \in {"starting", "wait", "snapshot", "sending", "returned"}
  /\ bmsg \in Nat /\ targets \subseteq Client
  /\ emitted \in Nat /\ lastEvent \in [Client -> Nat]
  /\ crash \in {"none", "send on closed channel", "close of closed channel"}

(***************************************************************************)
(* Whatever the order in which pages leave and the hub stops, no send      *)
(* channel is closed twice (websocket.go: both closes go through the map). *)
(***************************************************************************)
NeverDoubleClose == crash # "close of closed channel"

(***************************************************************************)
(* A client the hub has dealt with and no longer knows has had its channel *)
(* closed: otherwise its writePump would wait on it for ever, and nobody   *)
(* else could end it.                                                      *)
(***************************************************************************)
NoLeakedClient ==
  \A c \in Client :
    Registered(c) /\ c \notin clients /\ cur # {c} => closed[c]

(***************************************************************************)
(* The only way a send can meet a closed channel is a page that has left   *)
(* or a hub that was told to stop: with every page connected and the       *)
(* server up, no goroutine can panic.                                      *)
(***************************************************************************)
PanicNeedsDeparture == crash # "none" => stop \/ \E c \in Client : Left(c)

(***************************************************************************)
(* The code's sends to WSClient.send never meet a closed channel.          *)
(* websocket.go runs every invoke on its own goroutine so that a slow      *)
(* handler is harmless to its connection, and Quit promises a graceful     *)
(* shutdown; this is what both need.                                       *)
(***************************************************************************)
NeverSendsOnClosed == crash # "send on closed channel"

(***************************************************************************)
(* A page sees emitted events in order, each at most once: broadcasting to *)
(* WSClient.send and writing from it implement EventFeed.                  *)
(***************************************************************************)
Feed == INSTANCE EventFeed
EventsInOrder == Feed!Spec

(***************************************************************************)
(* A page that stops reading costs the others nothing: once an event is    *)
(* taken for broadcasting, every client is offered it and the broadcaster  *)
(* is back for the next one (broadcastEvent's select with default).        *)
(***************************************************************************)
BroadcastNeverStalls ==
  bc \in {"snapshot", "sending"} ~> (bc = "wait" \/ crash # "none")

\* The hub and the writer are through with a client; so is its reader.
Released(c) == closed[c] /\ writer[c] = "done" /\ conn[c] = "closed"
Gone(c) == Released(c) /\ reader[c] = "done"

\* An event handler of the page never returns to its reader.
Stuck(c) == [](reader[c] = "dispatching")

(***************************************************************************)
(* Stopping the hub closes the channel and the connection of every client  *)
(* it has registered and ends its writer, even while an event handler of   *)
(* the page is running. It ends the reader too unless that handler never   *)
(* returns.                                                                *)
(***************************************************************************)
StopReleasesRegistered ==
  \A c \in Client :
    (stop /\ Registered(c)) ~> \/ Gone(c) \/ crash # "none"
                              \/ (Released(c) /\ Stuck(c))

(***************************************************************************)
(* A registered page that disconnects leaves nothing behind, no map entry, *)
(* no open channel, no goroutine, unless one of its event handlers never   *)
(* returns: only its reader unregisters it, while its writer still ends.   *)
(***************************************************************************)
LeaverIsForgotten ==
  \A c \in Client :
    (Registered(c) /\ conn[c] = "closed")
      ~> \/ (Gone(c) /\ c \notin clients)
         \/ crash # "none" \/ (writer[c] = "done" /\ Stuck(c))
=============================================================================

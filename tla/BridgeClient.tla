---------------------------- MODULE BridgeClient ----------------------------
(***************************************************************************)
(* The page's side of the bridge: class Bridge of bridge/src/bridge.ts.    *)
(* A page is one thread: every action is one task of its event loop, that  *)
(* is a call from the application, a timer, or a socket callback.          *)
(*                                                                         *)
(* The page finds itself in one of three places: in a webview whose host   *)
(* has injected the native channel, with a backend to reach by WebSocket,  *)
(* or alone (no backend configured, or a URL that WebSocket refuses).      *)
(*                                                                         *)
(* A socket reports its end later than close() asks for it, and its        *)
(* callbacks, which connect() installs, act on this.ws and on the bridge's *)
(* fields, whichever socket is current by then. A socket that fails fires  *)
(* error and close in one task. Frames that arrive on a socket that is not *)
(* open are dropped by the browser.                                        *)
(*                                                                         *)
(* A definition Op_what is Op with the plausible bug "what"; it is not     *)
(* part of the specification. Each property is shown to notice one.        *)
(***************************************************************************)
EXTENDS Naturals

CONSTANTS
  Request,        \* the invokes the application makes, each made once
  MaxSockets,     \* bound of the model: sockets ever created
  MaxAttempts,    \* config.maxReconnectAttempts
  AutoReconnect   \* config.autoReconnect

ASSUME ConstantsAssumption ==
  /\ MaxSockets \in Nat
  /\ MaxAttempts \in Nat
  /\ AutoReconnect \in BOOLEAN

Socket == 1 .. MaxSockets
None == 0

VARIABLES
  place,       \* where the page finds itself
  native,      \* this.native; the host always injects __goleoSend with it
  sock,        \* readyState of each socket; "aborting": closed while connecting
  ws,          \* this.ws
  timer,       \* the connection timeout of each socket is armed
  connected,   \* this.connected
  ready,       \* this.ready
  released,    \* readyPromise is resolved
  attempts,    \* this.reconnectAttempts
  retries,     \* reconnect timers that have not fired
  call,        \* state of each invoke
  via,         \* the socket each invoke was sent on
  alarm,       \* the 30 s timer of each invoke has not fired
  owed         \* the backend has not answered the invoke

linkVars == <<place, native, sock, ws, timer, connected, ready, released, attempts, retries>>
callVars == <<call, via, alarm, owed>>
vars == <<linkVars, callVars>>

Init ==
  /\ place \in {"native", "backend", "alone"} /\ native = FALSE
  /\ sock = [s \in Socket |-> "new"] /\ ws = None
  /\ timer = [s \in Socket |-> FALSE]
  /\ connected = FALSE /\ ready = FALSE /\ released = FALSE
  /\ attempts = 0 /\ retries = 0
  /\ call = [r \in Request |-> "none"]
  /\ via = [r \in Request |-> None]
  /\ alarm = [r \in Request |-> FALSE]
  /\ owed = [r \in Request |-> FALSE]

(***************************************************************************)
(* Helpers.                                                                *)
(***************************************************************************)

IsOpen == ws # None /\ sock[ws] = "open"

\* this.ws?.close(): the states of the sockets afterwards.
WsClosed ==
  [s \in Socket |->
     CASE s = ws /\ sock[s] = "connecting" -> "aborting"
       [] s = ws /\ sock[s] = "open"       -> "closing"
       [] OTHER                            -> sock[s]]

\* new WebSocket, when before is what the sockets were: s is the next one.
Dial(s, before) ==
  /\ before[s] = "new" /\ \A t \in Socket : t < s => before[t] # "new"
  /\ sock' = [before EXCEPT ![s] = "connecting"]
  /\ ws' = s
  /\ timer' = [timer EXCEPT ![s] = TRUE]

\* The Go host's channel is there at once and never reports an end.
SetupNative ==
  /\ native' = TRUE /\ connected' = TRUE /\ ready' = TRUE /\ released' = TRUE

EnterLocalMode ==
  /\ connected' = FALSE /\ ready' = TRUE /\ released' = TRUE

\* connect(), when before is what the sockets are and was is this.connected.
Begin(before, was) ==
  \/ /\ native \/ (ws # None /\ before[ws] = "open")
     /\ sock' = before /\ connected' = was
     /\ UNCHANGED <<native, ws, timer, ready, released>>
  \/ /\ ~native /\ place = "native"
     /\ SetupNative
     /\ sock' = before /\ UNCHANGED <<ws, timer>>
  \/ /\ place = "alone"
     /\ EnterLocalMode
     /\ sock' = before /\ UNCHANGED <<native, ws, timer>>
  \/ /\ place = "backend" /\ ~(ws # None /\ before[ws] = "open")
     /\ \E s \in Socket : Dial(s, before)
     /\ connected' = was /\ UNCHANGED <<native, ready, released>>

RejectPending_skipped == UNCHANGED call

RejectPending ==
  call' = [r \in Request |-> IF call[r] = "pending" THEN "rejected" ELSE call[r]]

\* onclose; isReady is this.ready at that point.
OnClose_staysConnected(isReady) ==
  /\ UNCHANGED connected
  /\ RejectPending /\ UNCHANGED <<via, alarm, owed>>
  /\ IF AutoReconnect /\ isReady /\ attempts < MaxAttempts
     THEN attempts' = attempts + 1 /\ retries' = retries + 1
     ELSE UNCHANGED <<attempts, retries>>

OnClose_retriesForever(isReady) ==
  /\ connected' = FALSE
  /\ RejectPending /\ UNCHANGED <<via, alarm, owed>>
  /\ IF AutoReconnect /\ isReady
     THEN attempts' = attempts + 1 /\ retries' = retries + 1
     ELSE UNCHANGED <<attempts, retries>>

OnClose(isReady) ==
  /\ connected' = FALSE
  /\ RejectPending /\ UNCHANGED <<via, alarm, owed>>
  /\ IF AutoReconnect /\ isReady /\ attempts < MaxAttempts
     THEN attempts' = attempts + 1 /\ retries' = retries + 1
     ELSE UNCHANGED <<attempts, retries>>

(***************************************************************************)
(* The application.                                                        *)
(***************************************************************************)

Connect ==
  /\ Begin(sock, connected)
  /\ UNCHANGED <<place, attempts, retries, callVars>>

\* On a native page connect() returns at once and connected stays false.
Reconnect ==
  /\ attempts' = 0
  /\ Begin(WsClosed, FALSE)
  /\ UNCHANGED <<place, retries, callVars>>

Disconnect ==
  /\ sock' = WsClosed /\ ws' = None
  /\ connected' = FALSE /\ ready' = FALSE
  /\ UNCHANGED <<place, native, timer, released, attempts, retries, callVars>>

\* invoke waits for readyPromise first, if only for a microtask.
Invoke(r) ==
  /\ call[r] = "none"
  /\ call' = [call EXCEPT ![r] = "waiting"]
  /\ UNCHANGED <<linkVars, via, alarm, owed>>

\* The request is in the host's hands and on no socket.
InvokeNative(r) ==
  /\ call[r] = "waiting" /\ released /\ native
  /\ call' = [call EXCEPT ![r] = "pending"]
  /\ via' = [via EXCEPT ![r] = None]
  /\ alarm' = [alarm EXCEPT ![r] = TRUE]
  /\ owed' = [owed EXCEPT ![r] = TRUE]
  /\ UNCHANGED linkVars

InvokeWS(r) ==
  /\ call[r] = "waiting" /\ released /\ ~native /\ IsOpen
  /\ call' = [call EXCEPT ![r] = "pending"]
  /\ via' = [via EXCEPT ![r] = ws]
  /\ alarm' = [alarm EXCEPT ![r] = TRUE]
  /\ owed' = [owed EXCEPT ![r] = TRUE]
  /\ UNCHANGED linkVars

InvokeHTTP(r) ==
  /\ call[r] = "waiting" /\ released /\ ~native /\ ~IsOpen /\ connected
  /\ call' = [call EXCEPT ![r] = "http"]
  /\ UNCHANGED <<linkVars, via, alarm, owed>>

\* A local handler answers, or there is none and the invoke is refused.
InvokeLocal(r) ==
  /\ call[r] = "waiting" /\ released /\ ~native /\ ~IsOpen /\ ~connected
  /\ call' = [call EXCEPT ![r] = "local"]
  /\ UNCHANGED <<linkVars, via, alarm, owed>>

HttpReturns(r) ==
  /\ call[r] = "http"
  /\ \E how \in {"resolved", "rejected"} : call' = [call EXCEPT ![r] = how]
  /\ UNCHANGED <<linkVars, via, alarm, owed>>

(***************************************************************************)
(* Timers.                                                                 *)
(***************************************************************************)

ConnectTimeout_quiet(s) ==
  /\ timer[s]
  /\ timer' = [timer EXCEPT ![s] = FALSE]
  /\ sock' = IF connected THEN sock ELSE WsClosed
  /\ UNCHANGED <<place, native, ws, connected, ready, released, attempts, retries, callVars>>

\* if (!this.connected) { this.ws?.close(); this.enterLocalMode() }
ConnectTimeout(s) ==
  /\ timer[s]
  /\ timer' = [timer EXCEPT ![s] = FALSE]
  /\ IF connected
     THEN UNCHANGED <<sock, connected, ready, released>>
     ELSE sock' = WsClosed /\ EnterLocalMode
  /\ UNCHANGED <<place, native, ws, attempts, retries, callVars>>

\* The timer of attemptReconnect calls connect().
RetryFires ==
  /\ retries > 0 /\ retries' = retries - 1
  /\ Begin(sock, connected)
  /\ UNCHANGED <<place, attempts, callVars>>

\* Never cancelled, so it fires for settled invokes too.
InvokeTimeout(r) ==
  /\ alarm[r]
  /\ alarm' = [alarm EXCEPT ![r] = FALSE]
  /\ call' = IF call[r] = "pending" THEN [call EXCEPT ![r] = "rejected"] ELSE call
  /\ UNCHANGED <<linkVars, via, owed>>

(***************************************************************************)
(* Sockets.                                                                *)
(***************************************************************************)

SocketOpens(s) ==
  /\ sock[s] = "connecting"
  /\ sock' = [sock EXCEPT ![s] = "open"]
  /\ timer' = [timer EXCEPT ![s] = FALSE]
  /\ connected' = TRUE /\ ready' = TRUE /\ released' = TRUE
  /\ attempts' = 0
  /\ UNCHANGED <<place, native, ws, retries, callVars>>

\* The backend starts the closing handshake.
PeerCloses(s) ==
  /\ sock[s] = "open"
  /\ sock' = [sock EXCEPT ![s] = "closing"]
  /\ UNCHANGED <<place, native, ws, timer, connected, ready, released, attempts, retries,
                 callVars>>

\* onclose alone: the connection ended cleanly.
SocketCloses(s) ==
  /\ sock[s] = "closing"
  /\ sock' = [sock EXCEPT ![s] = "closed"]
  /\ OnClose(ready)
  /\ UNCHANGED <<place, native, ws, timer, ready, released>>

\* onerror, which falls back to local mode unless connected, then onclose.
SocketFails(s) ==
  /\ sock[s] \in {"connecting", "aborting", "open", "closing"}
  /\ IF connected
     THEN /\ sock' = [sock EXCEPT ![s] = "closed"]
          /\ OnClose(ready)
          /\ UNCHANGED <<timer, ready, released>>
     ELSE /\ sock' = [WsClosed EXCEPT ![s] = "closed"]
          /\ timer' = [timer EXCEPT ![s] = FALSE]
          /\ EnterLocalMode /\ OnClose(TRUE)
  /\ UNCHANGED <<place, native, ws>>

\* An invokeResult frame; nobody waits for the answer to a settled invoke.
Answer(r) ==
  /\ owed[r] /\ (IF via[r] = None THEN native ELSE sock[via[r]] = "open")
  /\ owed' = [owed EXCEPT ![r] = FALSE]
  /\ \E how \in {"resolved", "rejected"} :
       call' = IF call[r] = "pending" THEN [call EXCEPT ![r] = how] ELSE call
  /\ UNCHANGED <<linkVars, via, alarm>>

-----------------------------------------------------------------------------

Proceed(r) == InvokeNative(r) \/ InvokeWS(r) \/ InvokeHTTP(r) \/ InvokeLocal(r)

Next ==
  \/ Connect \/ Reconnect \/ Disconnect \/ RetryFires
  \/ \E s \in Socket : \/ ConnectTimeout(s) \/ SocketOpens(s) \/ PeerCloses(s)
                       \/ SocketCloses(s) \/ SocketFails(s)
  \/ \E r \in Request : \/ Invoke(r) \/ Proceed(r) \/ HttpReturns(r)
                        \/ InvokeTimeout(r) \/ Answer(r)

Spec == Init /\ [][Next]_vars

(***************************************************************************)
(* Fairness: timers fire and a resolved promise's continuation runs.       *)
(* Nothing is assumed of the network, the backend or the application; a    *)
(* socket may hang in any state.                                           *)
(***************************************************************************)
Fairness ==
  /\ \A s \in Socket : WF_vars(ConnectTimeout(s))
  /\ \A r \in Request : WF_vars(Proceed(r)) /\ WF_vars(InvokeTimeout(r))

FairSpec == Spec /\ Fairness
-----------------------------------------------------------------------------
(***************************************************************************)
(* Properties.                                                             *)
(***************************************************************************)

TypeOK ==
  /\ place \in {"native", "backend", "alone"} /\ native \in BOOLEAN
  /\ sock \in [Socket -> {"new", "connecting", "aborting", "open", "closing", "closed"}]
  /\ ws \in Socket \cup {None}
  /\ timer \in [Socket -> BOOLEAN]
  /\ connected \in BOOLEAN /\ ready \in BOOLEAN /\ released \in BOOLEAN
  /\ attempts \in 0 .. MaxAttempts /\ retries \in Nat
  /\ call \in [Request -> {"none", "waiting", "pending", "http", "local",
                           "resolved", "rejected"}]
  /\ via \in [Request -> Socket \cup {None}]
  /\ alarm \in [Request -> BOOLEAN] /\ owed \in [Request -> BOOLEAN]

(***************************************************************************)
(* isConnected() never outlives the link: while it holds, the channel is   *)
(* native or some socket has opened and has not ended (fs.ts and store.ts  *)
(* decide by it whether there is a backend).                               *)
(***************************************************************************)
ConnectedHasSocket ==
  connected => native \/ \E s \in Socket : sock[s] \in {"open", "closing"}

(***************************************************************************)
(* A dropped connection fails its invokes at once: none is left pending on *)
(* a socket that has ended, to sit there until its own 30 s timeout        *)
(* (rejectPending), also when sockets overlap; the native channel, which   *)
(* cannot drop, is the only other way an invoke is under way.              *)
(***************************************************************************)
ClosedFailsFast ==
  \A r \in Request : call[r] = "pending" =>
    IF via[r] = None THEN native ELSE sock[via[r]] \in {"open", "closing"}

Settled(r) == call[r] \in {"local", "resolved", "rejected"}

(***************************************************************************)
(* Once the bridge was told to connect, every invoke made settles, unless  *)
(* it went by HTTP, which has no timeout: whatever sockets do, waiting for *)
(* readiness ends and a sent invoke is answered, rejected or timed out.    *)
(***************************************************************************)
EveryInvokeSettles ==
  \A r \in Request :
    (call[r] \in {"waiting", "pending"} /\ (released \/ \E s \in Socket : sock[s] # "new"))
      ~> (Settled(r) \/ call[r] = "http")

(***************************************************************************)
(* The bridge is connected whenever its socket is open, in particular      *)
(* after reconnect() has succeeded (bridge.test.ts expects isConnected()). *)
(***************************************************************************)
OpenMeansConnected == IsOpen => connected
=============================================================================

------------------------ MODULE BridgeClient_proofs ------------------------
(***************************************************************************)
(* Proofs about BridgeClient, for any number of sockets and any requests.  *)
(* A pending invoke is with the native host or names a socket that is up:  *)
(* sockets come down only in the two callbacks that reject every pending   *)
(* invoke, close() leaves a socket that was open in "closing", and a page  *)
(* that has gone native stays so. Sockets are made in order, so only an    *)
(* older one can disturb an open one. An invoke that waits has a timer or  *)
(* a promise that will end its wait, and once settled stays as it is.      *)
(***************************************************************************)
EXTENDS BridgeClient, TLAPS

SocketState == {"new", "connecting", "aborting", "open", "closing", "closed"}
Up(s) == sock[s] \in {"open", "closing"}

Carried(r) == IF via[r] = None THEN native ELSE via[r] \in Socket /\ Up(via[r])

PendingInv == \A r \in Request : call[r] = "pending" => Carried(r)

\* close() keeps the sockets' type, and one that is up stays up.
LEMMA WsClosedFacts ==
  ASSUME TypeOK
  PROVE  /\ WsClosed \in [Socket -> SocketState]
         /\ \A s \in Socket : Up(s) => WsClosed[s] \in {"open", "closing"}
BY DEF TypeOK, WsClosed, SocketState, Up

\* A new socket is one of Socket; those that are up stay up.
LEMMA DialFacts ==
  ASSUME NEW s \in Socket, NEW before \in [Socket -> SocketState],
         TypeOK, Dial(s, before)
  PROVE  /\ sock' \in [Socket -> SocketState]
         /\ ws' \in Socket
         /\ timer' \in [Socket -> BOOLEAN]
         /\ \A t \in Socket : before[t] \in {"open", "closing"} => sock'[t] = before[t]
BY DEF TypeOK, Dial, SocketState

\* Whichever way connect() goes, types are kept, sockets that are up stay up, a
\* native page stays native, and only going native makes the bridge connected.
LEMMA BeginFacts ==
  ASSUME NEW before \in [Socket -> SocketState], NEW was \in BOOLEAN,
         TypeOK, Begin(before, was)
  PROVE  /\ native' \in BOOLEAN /\ (native => native')
         /\ sock' \in [Socket -> SocketState]
         /\ ws' \in Socket \cup {None}
         /\ timer' \in [Socket -> BOOLEAN]
         /\ connected' \in BOOLEAN /\ ready' \in BOOLEAN /\ released' \in BOOLEAN
         /\ connected' => was \/ native'
         /\ \A t \in Socket : before[t] \in {"open", "closing"} => sock'[t] = before[t]
<1>1. CASE sock' = before /\ connected' = was /\ UNCHANGED <<native, ws, timer, ready, released>>
  BY <1>1 DEF TypeOK
<1>2. CASE SetupNative /\ sock' = before /\ UNCHANGED <<ws, timer>>
  BY <1>2 DEF SetupNative, TypeOK
<1>3. CASE EnterLocalMode /\ sock' = before /\ UNCHANGED <<native, ws, timer>>
  BY <1>3 DEF EnterLocalMode, TypeOK
<1>4. CASE /\ \E s \in Socket : Dial(s, before)
           /\ connected' = was /\ UNCHANGED <<native, ready, released>>
  <2>1. PICK s \in Socket : Dial(s, before)
    BY <1>4
  <2> QED BY <1>4, <2>1, DialFacts DEF TypeOK
<1> QED BY <1>1, <1>2, <1>3, <1>4 DEF Begin

\* onclose keeps types, disconnects, leaves no invoke pending.
LEMMA OnCloseFacts ==
  ASSUME TypeOK, NEW isReady \in BOOLEAN, OnClose(isReady)
  PROVE  /\ connected' = FALSE
         /\ attempts' \in 0 .. MaxAttempts /\ retries' \in Nat
         /\ call' \in [Request -> {"none", "waiting", "pending", "http", "local",
                                   "resolved", "rejected"}]
         /\ \A r \in Request : call'[r] # "pending"
         /\ UNCHANGED <<via, alarm, owed>>
<1>1. connected' = FALSE /\ UNCHANGED <<via, alarm, owed>>
  BY DEF OnClose
<1>2. RejectPending
  BY DEF OnClose
<1>3. attempts' \in 0 .. MaxAttempts /\ retries' \in Nat
  BY ConstantsAssumption DEF OnClose, TypeOK
<1> QED BY <1>1, <1>2, <1>3 DEF RejectPending, TypeOK

\* Every variable keeps to its type; in particular the reconnect attempts made
\* in a row never exceed maxReconnectAttempts.
THEOREM TypeCorrect == Spec => []TypeOK
<1>1. Init => TypeOK
  <2> SUFFICES ASSUME Init PROVE TypeOK
    OBVIOUS
  <2>1. attempts \in 0 .. MaxAttempts
    BY ConstantsAssumption DEF Init
  <2> QED BY <2>1 DEF Init, TypeOK
<1>2. TypeOK /\ [Next]_vars => TypeOK'
  <2> SUFFICES ASSUME TypeOK, [Next]_vars PROVE TypeOK'
    OBVIOUS
  <2> USE DEF linkVars, callVars
  <2>1. CASE Connect
    <3>1. sock \in [Socket -> SocketState] /\ connected \in BOOLEAN
      BY DEF TypeOK, SocketState
    <3>2. Begin(sock, connected)
      BY <2>1 DEF Connect
    <3> QED BY <2>1, <3>1, <3>2, BeginFacts DEF Connect, TypeOK, SocketState
  <2>2. CASE Reconnect
    <3>1. Begin(WsClosed, FALSE)
      BY <2>2 DEF Reconnect
    <3>2. attempts' \in 0 .. MaxAttempts
      BY <2>2, ConstantsAssumption DEF Reconnect
    <3> QED BY <2>2, <3>1, <3>2, BeginFacts, WsClosedFacts DEF Reconnect, TypeOK, SocketState
  <2>3. CASE Disconnect
    BY <2>3, WsClosedFacts DEF Disconnect, TypeOK, SocketState
  <2>4. CASE RetryFires
    <3>1. retries' \in Nat
      BY <2>4 DEF RetryFires, TypeOK
    <3>2. sock \in [Socket -> SocketState] /\ connected \in BOOLEAN
      BY DEF TypeOK, SocketState
    <3>3. Begin(sock, connected)
      BY <2>4 DEF RetryFires
    <3> QED BY <2>4, <3>1, <3>2, <3>3, BeginFacts DEF RetryFires, TypeOK, SocketState
  <2>5. ASSUME NEW s \in Socket, ConnectTimeout(s) PROVE TypeOK'
    BY <2>5, WsClosedFacts DEF ConnectTimeout, EnterLocalMode, TypeOK, SocketState
  <2>6. ASSUME NEW s \in Socket, SocketOpens(s) PROVE TypeOK'
    <3>1. attempts' \in 0 .. MaxAttempts
      BY <2>6, ConstantsAssumption DEF SocketOpens
    <3> QED BY <2>6, <3>1 DEF SocketOpens, TypeOK
  <2>7. ASSUME NEW s \in Socket, PeerCloses(s) PROVE TypeOK'
    BY <2>7 DEF PeerCloses, TypeOK
  <2>8. ASSUME NEW s \in Socket, SocketCloses(s) PROVE TypeOK'
    <3>1. ready \in BOOLEAN /\ OnClose(ready)
      BY <2>8 DEF SocketCloses, TypeOK
    <3>2. connected' = FALSE /\ UNCHANGED <<via, alarm, owed>>
      BY <3>1, OnCloseFacts
    <3> QED BY <2>8, <3>1, <3>2, OnCloseFacts DEF SocketCloses, TypeOK
  <2>9. ASSUME NEW s \in Socket, SocketFails(s) PROVE TypeOK'
    <3>1. PICK isReady \in BOOLEAN : OnClose(isReady)
      BY <2>9 DEF SocketFails, TypeOK
    <3>2. connected' = FALSE /\ UNCHANGED <<via, alarm, owed>>
      BY <3>1, OnCloseFacts
    <3>3. sock' \in [Socket -> SocketState]
      BY <2>9, WsClosedFacts DEF SocketFails, TypeOK, SocketState
    <3>4. timer' \in [Socket -> BOOLEAN] /\ ready' \in BOOLEAN /\ released' \in BOOLEAN
      BY <2>9 DEF SocketFails, EnterLocalMode, TypeOK
    <3>5. UNCHANGED <<place, native, ws>>
      BY <2>9 DEF SocketFails
    <3> QED BY <3>1, <3>2, <3>3, <3>4, <3>5, OnCloseFacts DEF TypeOK, SocketState
  <2>10. ASSUME NEW r \in Request,
                Invoke(r) \/ InvokeHTTP(r) \/ InvokeLocal(r) \/ HttpReturns(r)
                  \/ InvokeTimeout(r) \/ Answer(r)
         PROVE  TypeOK'
    <3>1. CASE Invoke(r) \/ InvokeHTTP(r) \/ InvokeLocal(r)
      BY <3>1 DEF Invoke, InvokeHTTP, InvokeLocal, TypeOK
    <3>2. CASE HttpReturns(r)
      BY <3>2 DEF HttpReturns, TypeOK
    <3>3. CASE InvokeTimeout(r)
      BY <3>3 DEF InvokeTimeout, TypeOK
    <3>4. CASE Answer(r)
      BY <3>4 DEF Answer, TypeOK
    <3> QED BY <2>10, <3>1, <3>2, <3>3, <3>4
  <2>11. ASSUME NEW r \in Request, InvokeNative(r) \/ InvokeWS(r) PROVE TypeOK'
    BY <2>11 DEF InvokeNative, InvokeWS, TypeOK
  <2>12. CASE UNCHANGED vars
    BY <2>12 DEF vars, TypeOK
  <2> QED
    BY <2>1, <2>2, <2>3, <2>4, <2>5, <2>6, <2>7, <2>8, <2>9, <2>10, <2>11, <2>12
    DEF Next, Proceed
<1> QED BY <1>1, <1>2, PTL DEF Spec

\* A step that takes a socket down also disconnects and leaves no invoke pending.
LEMMA UpStays ==
  ASSUME TypeOK, [Next]_vars
  PROVE  \/ connected' = FALSE /\ \A r \in Request : call'[r] # "pending"
         \/ \A s \in Socket : Up(s) => Up(s)'
<1> USE DEF linkVars
<1>1. CASE Connect \/ RetryFires
  <2>1. sock \in [Socket -> SocketState] /\ connected \in BOOLEAN /\ Begin(sock, connected)
    BY <1>1 DEF Connect, RetryFires, TypeOK, SocketState
  <2> QED BY <2>1, BeginFacts DEF Up
<1>2. CASE Reconnect
  <2>1. Begin(WsClosed, FALSE)
    BY <1>2 DEF Reconnect
  <2> QED BY <2>1, BeginFacts, WsClosedFacts DEF Up
<1>3. CASE Disconnect
  BY <1>3, WsClosedFacts DEF Disconnect, Up
<1>5. ASSUME NEW s \in Socket, ConnectTimeout(s)
      PROVE  \A t \in Socket : Up(t) => Up(t)'
  BY <1>5, WsClosedFacts DEF ConnectTimeout, Up
<1>6. ASSUME NEW s \in Socket, SocketOpens(s) \/ PeerCloses(s)
      PROVE  \A t \in Socket : Up(t) => Up(t)'
  BY <1>6 DEF SocketOpens, PeerCloses, Up, TypeOK
<1>7. ASSUME NEW s \in Socket, SocketCloses(s) \/ SocketFails(s)
      PROVE  connected' = FALSE /\ \A r \in Request : call'[r] # "pending"
  <2>1. PICK isReady \in BOOLEAN : OnClose(isReady)
    BY <1>7 DEF SocketCloses, SocketFails, TypeOK
  <2> QED BY <2>1, OnCloseFacts
<1>8. CASE UNCHANGED sock BY <1>8 DEF Up
<1> QED
  BY <1>1, <1>2, <1>3, <1>5, <1>6, <1>7, <1>8
  DEF Next, Proceed, vars, Invoke, InvokeNative, InvokeWS, InvokeHTTP, InvokeLocal, HttpReturns,
      InvokeTimeout, Answer

\* A page that has gone native stays native.
LEMMA NativeStays ==
  ASSUME TypeOK, [Next]_vars, native
  PROVE  native'
<1> USE DEF linkVars
<1>1. CASE Connect \/ Reconnect \/ RetryFires
  <2>1. PICK before \in [Socket -> SocketState], was \in BOOLEAN : Begin(before, was)
    BY <1>1, WsClosedFacts DEF Connect, Reconnect, RetryFires, TypeOK, SocketState
  <2> QED BY <2>1, BeginFacts
<1>2. CASE UNCHANGED native
  BY <1>2
<1> QED
  BY <1>1, <1>2
  DEF Next, Proceed, vars, Disconnect, ConnectTimeout, SocketOpens, PeerCloses, SocketCloses,
      SocketFails, Invoke, InvokeNative, InvokeWS, InvokeHTTP, InvokeLocal, HttpReturns,
      InvokeTimeout, Answer

\* However many sockets overlap, isConnected() holds only while one is up or
\* the channel is native.
THEOREM ConnectedIsBacked == Spec => []ConnectedHasSocket
<1>1. Init => ConnectedHasSocket
  BY DEF Init, ConnectedHasSocket
<1>2. TypeOK /\ TypeOK' /\ ConnectedHasSocket /\ [Next]_vars => ConnectedHasSocket'
  <2> SUFFICES ASSUME TypeOK, TypeOK', ConnectedHasSocket, [Next]_vars, connected'
               PROVE  ConnectedHasSocket'
    BY DEF ConnectedHasSocket
  <2>1. CASE connected
    BY <2>1, UpStays, NativeStays DEF ConnectedHasSocket, Up
  <2>2. CASE ~connected
    <3>1. CASE Connect \/ RetryFires
      <4>1. /\ sock \in [Socket -> SocketState] /\ connected \in BOOLEAN
            /\ Begin(sock, connected)
        BY <3>1 DEF Connect, RetryFires, TypeOK, SocketState
      <4> QED BY <2>2, <4>1, BeginFacts DEF ConnectedHasSocket
    <3>2. CASE Reconnect
      <4>1. Begin(WsClosed, FALSE)
        BY <3>2 DEF Reconnect
      <4> QED BY <4>1, BeginFacts, WsClosedFacts DEF ConnectedHasSocket
    <3>3. CASE \E s \in Socket : SocketOpens(s)
      BY <3>3 DEF SocketOpens, ConnectedHasSocket, TypeOK
    <3>4. ASSUME NEW s \in Socket, SocketCloses(s) \/ SocketFails(s) PROVE FALSE
      <4>1. PICK isReady \in BOOLEAN : OnClose(isReady)
        BY <3>4 DEF SocketCloses, SocketFails, TypeOK
      <4> QED BY <4>1 DEF OnClose
    <3>5. ASSUME NEW s \in Socket, ConnectTimeout(s) PROVE FALSE
      BY <2>2, <3>5 DEF ConnectTimeout, EnterLocalMode
    <3> QED
      BY <2>2, <3>1, <3>2, <3>3, <3>4, <3>5
      DEF Next, Proceed, vars, linkVars, Disconnect, PeerCloses, Invoke, InvokeNative,
          InvokeWS, InvokeHTTP, InvokeLocal, HttpReturns, InvokeTimeout, Answer
  <2> QED BY <2>1, <2>2
<1> QED BY <1>1, <1>2, TypeCorrect, PTL DEF Spec

\* A pending invoke is with the native host or its socket is up, in every behaviour.
THEOREM PendingOnLiveSocket == Spec => []PendingInv
<1>1. Init => PendingInv
  BY DEF Init, PendingInv
<1>2. TypeOK /\ PendingInv /\ [Next]_vars => PendingInv'
  <2> SUFFICES ASSUME TypeOK, PendingInv, [Next]_vars,
                      NEW r \in Request, call'[r] = "pending"
               PROVE  Carried(r)'
    BY DEF PendingInv
  <2>1. (\A s \in Socket : Up(s) => Up(s)') /\ (native => native')
    BY UpStays, NativeStays
  <2>2. CASE \E q \in Request : InvokeWS(q)
    <3>1. PICK q \in Request : InvokeWS(q)
      BY <2>2
    <3>2. CASE q = r
      BY <3>1, <3>2 DEF InvokeWS, linkVars, IsOpen, TypeOK, Up, Carried, Socket, None
    <3>3. CASE q # r
      BY <3>1, <3>3 DEF InvokeWS, linkVars, PendingInv, TypeOK, Up, Carried
    <3> QED BY <3>2, <3>3
  <2>3. CASE UNCHANGED via /\ call[r] = "pending"
    BY <2>1, <2>3 DEF PendingInv, Up, Carried
  <2>4. ASSUME NEW q \in Request,
               Invoke(q) \/ InvokeHTTP(q) \/ InvokeLocal(q) \/ HttpReturns(q)
                 \/ InvokeTimeout(q) \/ Answer(q)
        PROVE  UNCHANGED via /\ call[r] = "pending"
    BY <2>4 DEF Invoke, InvokeHTTP, InvokeLocal, HttpReturns, InvokeTimeout, Answer, TypeOK
  <2>5. ASSUME NEW s \in Socket, SocketCloses(s) \/ SocketFails(s) PROVE FALSE
    <3>1. PICK isReady \in BOOLEAN : OnClose(isReady)
      BY <2>5 DEF SocketCloses, SocketFails, TypeOK
    <3> QED BY <3>1, OnCloseFacts
  <2>6. CASE UNCHANGED <<via, call>> BY <2>3, <2>6
  <2>7. ASSUME NEW q \in Request, InvokeNative(q) PROVE Carried(r)'
    <3>1. CASE q = r
      BY <2>7, <3>1 DEF InvokeNative, linkVars, Carried, TypeOK
    <3>2. CASE q # r
      BY <2>7, <3>2 DEF InvokeNative, linkVars, PendingInv, TypeOK, Up, Carried
    <3> QED BY <3>1, <3>2
  <2> QED
    BY <2>2, <2>3, <2>4, <2>5, <2>6, <2>7
    DEF Next, Proceed, vars, callVars, Connect, Reconnect, Disconnect, RetryFires,
        ConnectTimeout, SocketOpens, PeerCloses
<1> QED BY <1>1, <1>2, TypeCorrect, PTL DEF Spec

\* A dropped connection leaves no invoke waiting for its 30 s timeout.
THEOREM DroppedFailsFast == Spec => []ClosedFailsFast
<1>1. PendingInv => ClosedFailsFast
  BY DEF PendingInv, Carried, ClosedFailsFast, Up
<1> QED BY <1>1, PendingOnLiveSocket, PTL

-----------------------------------------------------------------------------
(***************************************************************************)
(* Which socket can take isConnected() down. Sockets are created in order  *)
(* and this.ws is the last one created, so a callback of any other socket  *)
(* is a callback of an earlier one.                                        *)
(***************************************************************************)
DialedInOrder ==
  /\ \A s, t \in Socket : t < s /\ sock[s] # "new" => sock[t] # "new"
  /\ ws # None => sock[ws] # "new" /\ \A s \in Socket : sock[s] # "new" => s <= ws
  /\ place # "backend" => \A s \in Socket : sock[s] = "new"

\* The bridge reports no connection over an open socket only after an earlier
\* socket, whose end was reported late, has closed: OpenMeansConnected as far
\* as it is true.
OpenMeansConnectedOrOverlap ==
  IsOpen /\ ~connected => \E s \in Socket : s < ws /\ sock[s] = "closed"

\* Whichever way connect() goes, sockets are still created in order.
LEMMA BeginOrder ==
  ASSUME NEW before \in [Socket -> SocketState], NEW was \in BOOLEAN,
         TypeOK, DialedInOrder, Begin(before, was), place' = place,
         \A t \in Socket : before[t] = "new" <=> sock[t] = "new"
  PROVE  DialedInOrder'
<1>1. CASE sock' = before /\ ws' = ws
  BY <1>1 DEF DialedInOrder, TypeOK, Socket, None
<1>2. CASE place = "backend" /\ \E s \in Socket : Dial(s, before)
  <2>1. PICK s \in Socket : Dial(s, before)
    BY <1>2
  <2>2. /\ sock'[s] # "new" /\ ws' = s
        /\ \A t \in Socket : t # s => sock'[t] = before[t]
        /\ \A t \in Socket : t < s => before[t] # "new"
        /\ before[s] = "new"
    BY <2>1 DEF Dial
  <2>3. \A t \in Socket : sock'[t] # "new" => t <= s
    BY <2>2 DEF DialedInOrder, Socket
  <2>4. \A t, u \in Socket : u < t /\ sock'[t] # "new" => sock'[u] # "new"
    <3> SUFFICES ASSUME NEW t \in Socket, NEW u \in Socket, u < t, sock'[t] # "new"
                 PROVE  sock'[u] # "new"
      OBVIOUS
    <3>1. u < s
      BY <2>3 DEF Socket
    <3> QED BY <2>2, <3>1
  <2> QED BY <1>2, <2>2, <2>3, <2>4 DEF DialedInOrder
<1> QED BY <1>1, <1>2 DEF Begin, SetupNative, EnterLocalMode

\* close() creates no socket and leaves the current one not open.
LEMMA WsClosedOrder ==
  ASSUME TypeOK
  PROVE  /\ \A t \in Socket : WsClosed[t] = "new" <=> sock[t] = "new"
         /\ ws # None => WsClosed[ws] # "open"
BY DEF TypeOK, WsClosed, Socket, None

LEMMA OrderStep == TypeOK /\ DialedInOrder /\ [Next]_vars => DialedInOrder'
<1> SUFFICES ASSUME TypeOK, DialedInOrder, [Next]_vars PROVE DialedInOrder'
  OBVIOUS
<1> USE DEF linkVars
<1>1. CASE Connect \/ RetryFires
  <2>1. sock \in [Socket -> SocketState] /\ connected \in BOOLEAN
    BY DEF TypeOK, SocketState
  <2>2. Begin(sock, connected) /\ place' = place
    BY <1>1 DEF Connect, RetryFires
  <2> QED BY <2>1, <2>2, BeginOrder
<1>2. CASE Reconnect
  <2>1. Begin(WsClosed, FALSE) /\ place' = place
    BY <1>2 DEF Reconnect
  <2> QED BY <2>1, BeginOrder, WsClosedFacts, WsClosedOrder
<1>3. ASSUME place' = place, ws' \in {ws, None}, sock' \in [Socket -> SocketState],
             \A t \in Socket : sock'[t] = "new" <=> sock[t] = "new"
      PROVE  DialedInOrder'
  BY <1>3 DEF DialedInOrder, TypeOK, Socket, None
<1>4. CASE Disconnect
  BY <1>3, <1>4, WsClosedFacts, WsClosedOrder DEF Disconnect
<1>5. ASSUME NEW s \in Socket, ConnectTimeout(s) PROVE DialedInOrder'
  BY <1>3, <1>5, WsClosedFacts, WsClosedOrder DEF ConnectTimeout, TypeOK, SocketState
<1>6. ASSUME NEW s \in Socket, SocketOpens(s) \/ PeerCloses(s) \/ SocketCloses(s)
      PROVE  DialedInOrder'
  BY <1>3, <1>6 DEF SocketOpens, PeerCloses, SocketCloses, TypeOK, SocketState
<1>7. ASSUME NEW s \in Socket, SocketFails(s) PROVE DialedInOrder'
  <2>1. sock' \in [Socket -> SocketState]
    <3>1. WsClosed \in [Socket -> SocketState] /\ sock \in [Socket -> SocketState]
      BY WsClosedFacts DEF TypeOK, SocketState
    <3>2. \/ sock' = [sock EXCEPT ![s] = "closed"]
          \/ sock' = [WsClosed EXCEPT ![s] = "closed"]
      BY <1>7 DEF SocketFails
    <3> QED BY <3>1, <3>2 DEF SocketState
  <2>2. \A t \in Socket : sock'[t] = "new" <=> sock[t] = "new"
    BY <1>7, WsClosedFacts, WsClosedOrder DEF SocketFails, TypeOK
  <2> QED BY <1>3, <1>7, <2>1, <2>2 DEF SocketFails
<1>8. CASE UNCHANGED <<place, ws, sock>>
  BY <1>3, <1>8 DEF TypeOK, SocketState
<1> QED
  BY <1>1, <1>2, <1>4, <1>5, <1>6, <1>7, <1>8
  DEF Next, Proceed, vars, Invoke, InvokeNative, InvokeWS, InvokeHTTP, InvokeLocal, HttpReturns,
      InvokeTimeout, Answer

\* Only the end of an earlier socket makes an open bridge look disconnected.
THEOREM OnlyOverlapDisconnects == Spec => []OpenMeansConnectedOrOverlap
<1>1. Init => DialedInOrder /\ OpenMeansConnectedOrOverlap
  BY DEF Init, DialedInOrder, OpenMeansConnectedOrOverlap, IsOpen
<1>2. TypeOK /\ DialedInOrder /\ OpenMeansConnectedOrOverlap /\ [Next]_vars
        => OpenMeansConnectedOrOverlap'
  <2> SUFFICES ASSUME TypeOK, DialedInOrder, OpenMeansConnectedOrOverlap, [Next]_vars,
                      IsOpen', ~connected'
               PROVE  (\E s \in Socket : s < ws /\ sock[s] = "closed")'
    BY DEF OpenMeansConnectedOrOverlap
  <2> USE DEF linkVars
  <2>1. CASE UNCHANGED <<sock, ws, connected>>
    BY <2>1 DEF OpenMeansConnectedOrOverlap, IsOpen
  <2>2. ASSUME ws' = ws, sock' = WsClosed PROVE FALSE
    BY <2>2, WsClosedOrder DEF IsOpen
  <2>3. ASSUME NEW before \in {sock, WsClosed}, NEW was \in BOOLEAN, Begin(before, was),
               before = sock => was = connected
        PROVE  (\E s \in Socket : s < ws /\ sock[s] = "closed")'
    <3>1. CASE ws' = ws /\ sock' = before /\ connected' = was
      BY <2>1, <2>2, <2>3, <3>1
    <3>2. CASE place = "alone" /\ ws' = ws /\ sock' = before
      <4>1. \A s \in Socket : WsClosed[s] # "open" /\ sock[s] # "open"
        BY <3>2, WsClosedOrder, WsClosedFacts DEF DialedInOrder, WsClosed
      <4>2. ws' \in Socket
        BY <3>2 DEF IsOpen, TypeOK
      <4> QED BY <2>3, <3>2, <4>1, <4>2 DEF IsOpen
    <3>3. ASSUME NEW s \in Socket, Dial(s, before) PROVE FALSE
      <4>1. before \in [Socket -> SocketState]
        BY <2>3, WsClosedFacts DEF TypeOK, SocketState
      <4> QED BY <3>3, <4>1 DEF Dial, IsOpen
    <3> QED BY <2>3, <3>1, <3>2, <3>3 DEF Begin, SetupNative, EnterLocalMode
  <2>4. CASE Connect \/ RetryFires
    BY <2>3, <2>4 DEF Connect, RetryFires, TypeOK
  <2>5. CASE Reconnect
    <3>1. Begin(WsClosed, FALSE)
      BY <2>5 DEF Reconnect
    <3>2. CASE WsClosed = sock /\ connected
      <4>1. ~IsOpen
        BY <3>2, WsClosedOrder DEF IsOpen
      <4>2. CASE ws' = ws /\ sock' = WsClosed
        BY <2>2, <4>2
      <4>3. ASSUME NEW s \in Socket, Dial(s, WsClosed) PROVE FALSE
        BY <4>3, WsClosedFacts DEF Dial, IsOpen
      <4> QED BY <3>1, <4>2, <4>3 DEF Begin
    <3> QED BY <2>3, <3>1, <3>2 DEF TypeOK
  <2>6. CASE Disconnect
    BY <2>6 DEF Disconnect, IsOpen
  <2>7. ASSUME NEW s \in Socket, ConnectTimeout(s)
        PROVE  (\E t \in Socket : t < ws /\ sock[t] = "closed")'
    BY <2>1, <2>2, <2>7 DEF ConnectTimeout
  <2>8. ASSUME NEW s \in Socket, SocketOpens(s) PROVE FALSE
    BY <2>8 DEF SocketOpens
  <2>9. ASSUME NEW s \in Socket, PeerCloses(s)
        PROVE  (\E t \in Socket : t < ws /\ sock[t] = "closed")'
    <3>1. IsOpen /\ ~connected /\ ws' = ws
      BY <2>9 DEF PeerCloses, IsOpen, TypeOK
    <3>2. PICK t \in Socket : t < ws /\ sock[t] = "closed"
      BY <3>1 DEF OpenMeansConnectedOrOverlap
    <3>3. sock'[t] = "closed"
      BY <2>9, <3>2 DEF PeerCloses, TypeOK
    <3> QED BY <3>1, <3>2, <3>3
  <2>10. ASSUME NEW s \in Socket, SocketCloses(s) \/ SocketFails(s)
         PROVE  (\E t \in Socket : t < ws /\ sock[t] = "closed")'
    <3>1. sock'[s] = "closed" /\ ws' = ws /\ sock[s] # "new"
      BY <2>10, WsClosedFacts DEF SocketCloses, SocketFails, TypeOK
    <3>2. ws # None /\ s # ws
      BY <3>1 DEF IsOpen
    <3>3. s < ws
      BY <3>1, <3>2 DEF DialedInOrder, TypeOK, Socket, None
    <3> QED BY <3>1, <3>3
  <2> QED
    BY <2>1, <2>4, <2>5, <2>6, <2>7, <2>8, <2>9, <2>10
    DEF Next, Proceed, vars, Invoke, InvokeNative, InvokeWS, InvokeHTTP, InvokeLocal,
        HttpReturns, InvokeTimeout, Answer
<1> QED BY <1>1, <1>2, OrderStep, TypeCorrect, PTL DEF Spec

-----------------------------------------------------------------------------
(***************************************************************************)
(* Every wait has something that ends it.                                  *)
(***************************************************************************)
WakeInv ==
  /\ connected => released
  /\ released \/ (\A s \in Socket : sock[s] = "new") \/ \E s \in Socket : timer[s]

AlarmInv == \A r \in Request : call[r] = "pending" => alarm[r]

\* A pending invoke has its 30 s timer running, and one that waits for readiness
\* in a bridge that has dialled waits for a promise that is resolved or that a
\* running connection timeout will resolve: what EveryInvokeSettles rests on
\* besides fairness.
NeverForgotten ==
  \A r \in Request :
    /\ call[r] = "pending" => alarm[r]
    /\ call[r] = "waiting" /\ (\E s \in Socket : sock[s] # "new")
         => released \/ \E s \in Socket : timer[s]

LEMMA WakeStep == TypeOK /\ WakeInv /\ [Next]_vars => WakeInv'
<1> SUFFICES ASSUME TypeOK, WakeInv, [Next]_vars PROVE WakeInv'
  OBVIOUS
<1> USE DEF linkVars
<1>1. ASSUME released' = TRUE PROVE WakeInv'
  BY <1>1 DEF WakeInv
<1>2. ASSUME UNCHANGED <<timer, released>>, connected' => connected,
             \A s \in Socket : sock[s] = "new" => sock'[s] = "new"
      PROVE  WakeInv'
  BY <1>2 DEF WakeInv
<1>3. ASSUME NEW before, NEW was, Begin(before, was), was => connected,
             \A s \in Socket : sock[s] = "new" => before[s] = "new"
      PROVE  WakeInv'
  <2>1. CASE UNCHANGED <<timer, released>> /\ sock' = before /\ connected' = was
    BY <1>2, <1>3, <2>1
  <2>2. ASSUME NEW s \in Socket, Dial(s, before), connected' = was, UNCHANGED released
        PROVE  WakeInv'
    BY <1>3, <2>2 DEF Dial, WakeInv, TypeOK
  <2> QED BY <1>1, <1>3, <2>1, <2>2 DEF Begin, SetupNative, EnterLocalMode
<1>4. CASE Connect \/ RetryFires
  BY <1>3, <1>4 DEF Connect, RetryFires
<1>5. CASE Reconnect
  BY <1>3, <1>5, WsClosedOrder DEF Reconnect
<1>6. CASE Disconnect
  BY <1>2, <1>6, WsClosedOrder DEF Disconnect
<1>7. ASSUME NEW s \in Socket, ConnectTimeout(s) PROVE WakeInv'
  BY <1>1, <1>7 DEF ConnectTimeout, EnterLocalMode, WakeInv
<1>8. ASSUME NEW s \in Socket, SocketOpens(s) PROVE WakeInv'
  BY <1>1, <1>8 DEF SocketOpens
<1>9. ASSUME NEW s \in Socket, PeerCloses(s) \/ SocketCloses(s) PROVE WakeInv'
  BY <1>2, <1>9 DEF PeerCloses, SocketCloses, OnClose, TypeOK
<1>10. ASSUME NEW s \in Socket, SocketFails(s) PROVE WakeInv'
  <2>1. CASE connected
    BY <1>1, <1>10, <2>1 DEF SocketFails, WakeInv
  <2>2. CASE ~connected
    BY <1>1, <1>10, <2>2 DEF SocketFails, EnterLocalMode
  <2> QED BY <2>1, <2>2
<1>11. CASE UNCHANGED <<sock, timer, connected, released>>
  BY <1>2, <1>11
<1> QED
  BY <1>4, <1>5, <1>6, <1>7, <1>8, <1>9, <1>10, <1>11
  DEF Next, Proceed, vars, Invoke, InvokeNative, InvokeWS, InvokeHTTP, InvokeLocal, HttpReturns,
      InvokeTimeout, Answer

\* What a step may do to the invokes: each of them moves one invoke, which was
\* not settled, or rejects the pending ones.
LEMMA CallMoves ==
  ASSUME TypeOK, [Next]_vars, NEW r \in Request, call'[r] # call[r]
  PROVE  /\ ~Settled(r)
         /\ call'[r] = "pending" => alarm'[r]
<1>1. ASSUME NEW isReady, OnClose(isReady)
      PROVE  ~Settled(r) /\ call'[r] = "rejected"
  BY <1>1 DEF OnClose, RejectPending, Settled
<1>2. ASSUME NEW s \in Socket, SocketCloses(s) \/ SocketFails(s)
      PROVE  ~Settled(r) /\ call'[r] = "rejected"
  BY <1>1, <1>2 DEF SocketCloses, SocketFails
<1>3. ASSUME NEW q \in Request, InvokeNative(q) \/ InvokeWS(q)
      PROVE  ~Settled(r) /\ alarm'[r]
  BY <1>3 DEF InvokeNative, InvokeWS, Settled, TypeOK
<1>4. ASSUME NEW q \in Request,
             Invoke(q) \/ InvokeHTTP(q) \/ InvokeLocal(q) \/ HttpReturns(q)
               \/ InvokeTimeout(q) \/ Answer(q)
      PROVE  ~Settled(r) /\ call'[r] # "pending"
  BY <1>4
  DEF Invoke, InvokeHTTP, InvokeLocal, HttpReturns, InvokeTimeout, Answer, Settled, TypeOK
<1> QED
  BY <1>2, <1>3, <1>4
  DEF Next, Proceed, vars, callVars, Connect, Reconnect, Disconnect, RetryFires,
      ConnectTimeout, SocketOpens, PeerCloses

\* A timer that fires late, an answer that arrives late and a socket that closes
\* late all leave an invoke as it was settled.
THEOREM SettledOnce == Spec => [][\A r \in Request : Settled(r) => call'[r] = call[r]]_vars
<1>1. TypeOK /\ [Next]_vars => [\A r \in Request : Settled(r) => call'[r] = call[r]]_vars
  BY CallMoves
<1> QED BY <1>1, TypeCorrect, PTL DEF Spec

\* No invoke is left without a timer or a promise that will end its wait.
THEOREM EveryWaitHasAnEnd == Spec => []NeverForgotten
<1>1. Init => WakeInv /\ AlarmInv
  BY DEF Init, WakeInv, AlarmInv
<1>2. TypeOK /\ AlarmInv /\ [Next]_vars => AlarmInv'
  <2> SUFFICES ASSUME TypeOK, AlarmInv, [Next]_vars,
                      NEW r \in Request, call'[r] = "pending"
               PROVE  alarm'[r]
    BY DEF AlarmInv
  <2>1. CASE call[r] # "pending"
    BY <2>1, CallMoves
  <2>2. CASE alarm[r] /\ alarm' = alarm
    BY <2>2
  <2>3. ASSUME NEW q \in Request, InvokeNative(q) \/ InvokeWS(q) PROVE alarm[r] => alarm'[r]
    BY <2>3 DEF InvokeNative, InvokeWS, TypeOK
  <2>4. ASSUME NEW q \in Request, InvokeTimeout(q) PROVE alarm[r] => alarm'[r]
    BY <2>4 DEF InvokeTimeout, TypeOK
  <2>5. ASSUME NEW s \in Socket, SocketCloses(s) \/ SocketFails(s) PROVE alarm' = alarm
    BY <2>5 DEF SocketCloses, SocketFails, OnClose
  <2>6. ASSUME NEW q \in Request,
               Invoke(q) \/ InvokeHTTP(q) \/ InvokeLocal(q) \/ HttpReturns(q) \/ Answer(q)
        PROVE  alarm' = alarm
    BY <2>6 DEF Invoke, InvokeHTTP, InvokeLocal, HttpReturns, Answer
  <2>7. call[r] = "pending" => alarm[r]
    BY DEF AlarmInv
  <2> QED
    BY <2>1, <2>2, <2>3, <2>4, <2>5, <2>6, <2>7
    DEF Next, Proceed, vars, callVars, Connect, Reconnect, Disconnect, RetryFires,
        ConnectTimeout, SocketOpens, PeerCloses
<1>3. WakeInv /\ AlarmInv => NeverForgotten
  BY DEF WakeInv, AlarmInv, NeverForgotten
<1> QED BY <1>1, <1>2, <1>3, WakeStep, TypeCorrect, PTL DEF Spec
=============================================================================

---------------------------- MODULE Hub_proofs ----------------------------
(***************************************************************************)
(* Theorems about Hub, for every set of clients, every channel capacity    *)
(* and every bound. HubInv is the inductive invariant for the life of a    *)
(* send channel, FeedInv the one for the order of events, PumpInv the one  *)
(* for the two pumps of a connection and what they hold. Last comes what a *)
(* panic needs and what a stopped hub leaves.                              *)
(***************************************************************************)
EXTENDS Hub, TLAPS

(***************************************************************************)
(* Where a client can be: unknown to the hub, being inserted, in the map,  *)
(* being removed, or released. Only in the last case is its channel        *)
(* closed.                                                                 *)
(***************************************************************************)
HubInv ==
  /\ hub \in {"insert", "remove"} <=> cur # {}
  /\ hub \in {"drain", "stopped"} => stop
  /\ \A c \in Client :
       /\ ~Registered(c) => c \notin clients /\ ~closed[c] /\ cur # {c}
       /\ hub = "insert" /\ cur = {c} => c \notin clients /\ ~closed[c]
       /\ hub = "remove" /\ cur = {c} => Left(c) /\ (c \in clients \/ closed[c])
       /\ c \in clients => ~closed[c]
       /\ closed[c] => stop \/ Left(c)
  /\ NoLeakedClient
  /\ NeverDoubleClose
  /\ PanicNeedsDeparture

(***************************************************************************)
(* Event numbers grow along the way from Emit to the page: what a page has *)
(* seen, then its queue, then the event being broadcast, then the          *)
(* subscription.                                                           *)
(***************************************************************************)
Pending(c) == bc = "snapshot" \/ (bc = "sending" /\ c \in targets)

FeedInv ==
  /\ bmsg <= emitted
  /\ \A i \in 1 .. Len(sub) : bmsg < sub[i] /\ sub[i] <= emitted
  /\ \A i, j \in 1 .. Len(sub) : i < j => sub[i] < sub[j]
  /\ \A c \in Client :
       /\ lastEvent[c] <= bmsg
       /\ Pending(c) => lastEvent[c] < bmsg
       /\ \A i \in 1 .. Len(queue[c]) :
            queue[c][i] # Answer =>
              /\ lastEvent[c] < queue[c][i]
              /\ queue[c][i] <= bmsg
              /\ Pending(c) => queue[c][i] < bmsg
       /\ \A i, j \in 1 .. Len(queue[c]) :
            i < j /\ queue[c][i] # Answer /\ queue[c][j] # Answer
              => queue[c][i] < queue[c][j]

-----------------------------------------------------------------------------

(***************************************************************************)
(* The two ends of a queue, index by index: taking its head shifts it.     *)
(***************************************************************************)
LEMMA HeadTail ==
  ASSUME NEW s \in Seq(Nat), s # <<>>
  PROVE  /\ Len(s) \in Nat /\ Len(s) > 0
         /\ Head(s) = s[1] /\ Head(s) \in Nat
         /\ Tail(s) \in Seq(Nat) /\ Len(Tail(s)) = Len(s) - 1
         /\ \A i \in 1 .. Len(Tail(s)) : Tail(s)[i] = s[i + 1]
  OBVIOUS

\* Appending adds one element at the end and moves none.
LEMMA AppendLast ==
  ASSUME NEW s \in Seq(Nat), NEW m \in Nat
  PROVE  /\ Append(s, m) \in Seq(Nat)
         /\ Len(s) \in Nat /\ Len(Append(s, m)) = Len(s) + 1
         /\ \A i \in 1 .. Len(s) : Append(s, m)[i] = s[i]
         /\ Append(s, m)[Len(s) + 1] = m
  OBVIOUS

\* An offer keeps every queue within its capacity.
LEMMA TrySendType ==
  ASSUME TypeOK, NEW c \in Client, NEW m \in Nat, TrySend(c, m)
  PROVE  /\ queue' \in [Client -> Seq(Nat)]
         /\ \A d \in Client : Len(queue'[d]) <= SendCap
         /\ crash' = crash \/ crash' = "send on closed channel"
  <1>1. queue \in [Client -> Seq(Nat)] /\ \A d \in Client : Len(queue[d]) <= SendCap
    BY DEF TypeOK
  <1>2. /\ Append(queue[c], m) \in Seq(Nat) /\ Len(queue[c]) \in Nat
        /\ Len(Append(queue[c], m)) = Len(queue[c]) + 1
    BY <1>1, AppendLast
  <1>3. CASE queue' = queue
    BY <1>3 DEF TypeOK, TrySend
  <1>4. CASE Len(queue[c]) < SendCap /\ queue' = [queue EXCEPT ![c] = Append(@, m)]
    <2>1. queue' \in [Client -> Seq(Nat)]
      BY <1>1, <1>2, <1>4
    <2>2. \A d \in Client : Len(queue'[d]) <= SendCap
      BY <1>1, <1>2, <1>4, ConstantsAssumption
    <2>3. QED
      BY <2>1, <2>2 DEF TrySend
  <1>5. QED
    BY <1>3, <1>4 DEF TrySend

(***************************************************************************)
(* Type correctness, with the two queue bounds (256 and 64 in the code).   *)
(***************************************************************************)
THEOREM TypeCorrect == Spec => []TypeOK
  <1>1. Init => TypeOK
    <2> SUFFICES ASSUME Init PROVE TypeOK
      OBVIOUS
    <2>1. queue \in [Client -> Seq(Nat)] /\ \A c \in Client : Len(queue[c]) = 0
      BY DEF Init
    <2>2. sub \in Seq(Nat) /\ Len(sub) = 0
      BY DEF Init
    <2>3. Len(sub) <= SubCap /\ \A c \in Client : Len(queue[c]) <= SendCap
      BY <2>1, <2>2, ConstantsAssumption
    <2>4. closed \in [Client -> BOOLEAN] /\ stop \in BOOLEAN /\ listening \in BOOLEAN
      BY DEF Init
    <2>5. calls \in [Client -> Nat] /\ lastEvent \in [Client -> Nat]
      BY DEF Init
    <2>6. QED
      BY <2>1, <2>2, <2>3, <2>4, <2>5 DEF Init, TypeOK
  <1>2. TypeOK /\ [Next]_vars => TypeOK'
    <2> SUFFICES ASSUME TypeOK, [Next]_vars PROVE TypeOK'
      OBVIOUS
    <2> USE DEF vars, hubVars, srvVars, pumpVars, bcVars, Running
    <2>1. CASE HubStop
      BY <2>1 DEF TypeOK, HubStop
    <2>2. CASE HubReturn
      BY <2>2 DEF TypeOK, HubReturn
    <2>3. CASE BcSubscribe
      BY <2>3 DEF TypeOK, BcSubscribe
    <2>4. CASE BcTake
      <3>1. sub \in Seq(Nat) /\ sub # <<>> /\ Len(sub) <= SubCap
        BY <2>4 DEF TypeOK, BcTake
      <3>2. /\ Head(sub) \in Nat /\ Tail(sub) \in Seq(Nat)
            /\ Len(Tail(sub)) <= SubCap
        BY <3>1, HeadTail, ConstantsAssumption
      <3>3. QED
        BY <2>4, <3>2 DEF TypeOK, BcTake
    <2>5. CASE BcGetAll
      BY <2>5 DEF TypeOK, BcGetAll, HubMuFree
    <2>6. CASE BcNext
      BY <2>6 DEF TypeOK, BcNext
    <2>7. CASE BcReturn
      <3>1. sub' \in Seq(Nat) /\ Len(sub') <= SubCap
        BY <2>7, ConstantsAssumption DEF BcReturn
      <3>2. QED
        BY <2>7, <3>1 DEF TypeOK, BcReturn
    <2>8. CASE Emit
      BY <2>8, ConstantsAssumption DEF TypeOK, Emit, Subscribed
    <2>9. CASE StopHub
      BY <2>9 DEF TypeOK, StopHub
    <2>10. CASE Shutdown
      BY <2>10 DEF TypeOK, Shutdown
    <2>11. ASSUME NEW c \in Client, HubRegister(c) PROVE TypeOK'
      BY <2>11 DEF TypeOK, HubRegister
    <2>12. ASSUME NEW c \in Client, HubInsert(c) PROVE TypeOK'
      BY <2>12 DEF TypeOK, HubInsert
    <2>13. ASSUME NEW c \in Client, HubUnregister(c) PROVE TypeOK'
      BY <2>13 DEF TypeOK, HubUnregister
    <2>14. ASSUME NEW c \in Client, HubRemove(c) PROVE TypeOK'
      BY <2>14 DEF TypeOK, HubRemove, Release
    <2>15. ASSUME NEW c \in Client, HubDrain(c) PROVE TypeOK'
      BY <2>15 DEF TypeOK, HubDrain, Release
    <2>16. ASSUME NEW c \in Client, HandleWebSocket(c) PROVE TypeOK'
      BY <2>16 DEF TypeOK, HandleWebSocket
    <2>17. ASSUME NEW c \in Client, ReadInvoke(c) PROVE TypeOK'
      BY <2>17 DEF TypeOK, ReadInvoke, CanRead
    <2>18. ASSUME NEW c \in Client, InvokeReturns(c) PROVE TypeOK'
      <3>1. TrySend(c, Answer) /\ Answer \in Nat
        BY <2>18 DEF TypeOK, Answer, InvokeReturns
      <3>2. calls' \in [Client -> Nat]
        BY <2>18 DEF TypeOK, InvokeReturns
      <3>3. QED
        BY <2>18, <3>1, <3>2, TrySendType DEF TypeOK, InvokeReturns
    <2>19. ASSUME NEW c \in Client, ReadPing(c) PROVE TypeOK'
      <3>1. TrySend(c, Answer) /\ Answer \in Nat
        BY <2>19 DEF TypeOK, Answer, ReadPing, CanRead
      <3>2. QED
        BY <2>19, <3>1, TrySendType DEF TypeOK, ReadPing, CanRead
    <2>20. ASSUME NEW c \in Client, ReadEvent(c) PROVE TypeOK'
      BY <2>20 DEF TypeOK, ReadEvent
    <2>21. ASSUME NEW c \in Client, ReadFails(c) \/ DispatchReturns(c) PROVE TypeOK'
      <3>1. CASE ReadFails(c)
        BY <3>1 DEF TypeOK, ReadFails
      <3>2. CASE DispatchReturns(c)
        BY <3>2 DEF TypeOK, DispatchReturns
      <3>3. QED
        BY <2>21, <3>1, <3>2
    <2>22. ASSUME NEW c \in Client, ReaderSeesStop(c) PROVE TypeOK'
      BY <2>22 DEF TypeOK, ReaderSeesStop
    <2>23. ASSUME NEW c \in Client, ReaderClosesConn(c) PROVE TypeOK'
      BY <2>23 DEF TypeOK, ReaderClosesConn
    <2>24. ASSUME NEW c \in Client, WriteMessage(c) PROVE TypeOK'
      <3>1. /\ queue \in [Client -> Seq(Nat)] /\ queue[c] # <<>>
            /\ \A d \in Client : Len(queue[d]) <= SendCap
        BY <2>24 DEF TypeOK, WriteMessage
      <3>2. /\ Head(queue[c]) \in Nat /\ Tail(queue[c]) \in Seq(Nat)
            /\ Len(Tail(queue[c])) <= SendCap
        BY <3>1, HeadTail, ConstantsAssumption
      <3>3. /\ queue' \in [Client -> Seq(Nat)]
            /\ \A d \in Client : Len(queue'[d]) <= SendCap
        BY <2>24, <3>1, <3>2 DEF WriteMessage
      <3>4. lastEvent' \in [Client -> Nat]
        BY <2>24, <3>2 DEF TypeOK, WriteMessage
      <3>5. QED
        BY <2>24, <3>3, <3>4 DEF TypeOK, WriteMessage
    <2>25. ASSUME NEW c \in Client, WriteFails(c) PROVE TypeOK'
      BY <2>25 DEF TypeOK, WriteFails
    <2>26. ASSUME NEW c \in Client, WriterSeesClosed(c) PROVE TypeOK'
      BY <2>26 DEF TypeOK, WriterSeesClosed, WriteFails
    <2>27. ASSUME NEW c \in Client, BcSend(c) PROVE TypeOK'
      <3>1. TrySend(c, bmsg) /\ bmsg \in Nat
        BY <2>27 DEF TypeOK, Answer, BcSend
      <3>2. QED
        BY <2>27, <3>1, TrySendType DEF TypeOK, BcSend
    <2>28. ASSUME NEW c \in Client, Disconnect(c) PROVE TypeOK'
      BY <2>28 DEF TypeOK, Disconnect
    <2>29. CASE UNCHANGED vars
      BY <2>29 DEF TypeOK
    <2>30. QED
      BY <2>1, <2>2, <2>3, <2>4, <2>5, <2>6, <2>7, <2>8, <2>9, <2>10, <2>11, <2>12, <2>13, <2>14, <2>15, <2>16, <2>17, <2>18, <2>19, <2>20, <2>21, <2>22, <2>23, <2>24, <2>25, <2>26, <2>27, <2>28, <2>29
      DEF Next, HubRun, HandleEvents, Environment, ReadPump, WritePump
  <1>3. QED
    BY <1>1, <1>2, PTL DEF Spec

(***************************************************************************)
(* The life of a send channel. The three invariants of the runs that are   *)
(* about closing it follow from HubInv. At the start no channel is closed. *)
(***************************************************************************)
LEMMA HubInvInit == Init => HubInv
  BY DEF Init, HubInv, Registered, Left, NoLeakedClient, NeverDoubleClose,
         PanicNeedsDeparture

\* An offer to a channel can only panic if the channel is closed.
LEMMA TrySendHub ==
  ASSUME HubInv, NEW c \in Client, NEW m, TrySend(c, m),
         UNCHANGED <<hubVars, srvVars, pumpVars, closed>>
  PROVE  HubInv'
  <1>1. crash' = crash \/ (crash' = "send on closed channel" /\ closed[c])
    BY DEF TrySend
  <1>2. crash' # "none" => stop \/ \E d \in Client : Left(d)
    BY <1>1 DEF HubInv, PanicNeedsDeparture
  <1>3. QED
    BY <1>1, <1>2 DEF HubInv, Registered, Left, NoLeakedClient, NeverDoubleClose,
       PanicNeedsDeparture, hubVars, srvVars, pumpVars

\* Every step of every goroutine keeps HubInv.
LEMMA HubInvStep == TypeOK /\ HubInv /\ [Next]_vars => HubInv'
  <1> SUFFICES ASSUME TypeOK, HubInv, [Next]_vars PROVE HubInv'
    OBVIOUS
  <1> USE DEF HubInv, Registered, Left, NoLeakedClient, NeverDoubleClose,
              PanicNeedsDeparture, vars, hubVars, srvVars, pumpVars, bcVars, Running
  <1>1. CASE HubStop
    BY <1>1 DEF TypeOK, HubStop
  <1>2. CASE HubReturn
    BY <1>2 DEF TypeOK, HubReturn
  <1>3. CASE StopHub
    BY <1>3 DEF TypeOK, StopHub
  <1>4. ASSUME NEW c \in Client, HubRegister(c) PROVE HubInv'
    <2>1. /\ \A d \in Client : Registered(d)' <=> Registered(d) \/ d = c
          /\ \A d \in Client : Left(d)' <=> Left(d)
          /\ ~Registered(c) /\ ~Left(c)
      BY <1>4 DEF TypeOK, HubRegister
    <2>2. /\ hub = "select" /\ hub' = "insert" /\ cur' = {c}
          /\ UNCHANGED <<clients, closed, stop, crash>>
      BY <1>4 DEF HubRegister
    <2> HIDE DEF Registered, Left
    <2>3. QED
      BY <2>1, <2>2
  <1>5. ASSUME NEW c \in Client, HubInsert(c) PROVE HubInv'
    <2>1. /\ hub = "insert" /\ cur = {c} /\ hub' = "select" /\ cur' = {}
          /\ clients' = clients \cup {c} /\ UNCHANGED <<closed, stop, crash, reader>>
      BY <1>5 DEF HubInsert
    <2>2. \A d \in Client : d # c => cur # {d}
      BY <2>1
    <2>3. \A d \in Client : (Registered(d)' <=> Registered(d)) /\ (Left(d)' <=> Left(d))
      BY <2>1
    <2> HIDE DEF Registered, Left
    <2>4. QED
      BY <2>1, <2>2, <2>3
  <1>6. ASSUME NEW c \in Client, HubUnregister(c) PROVE HubInv'
    <2>1. /\ \A d \in Client : Registered(d)' <=> Registered(d)
          /\ \A d \in Client : Left(d)' <=> Left(d) \/ d = c
          /\ Registered(c)
      BY <1>6 DEF TypeOK, HubUnregister
    <2>2. /\ hub = "select" /\ hub' = "remove" /\ cur' = {c}
          /\ UNCHANGED <<clients, closed, stop, crash>>
      BY <1>6 DEF HubUnregister
    <2> HIDE DEF Registered, Left
    <2>3. QED
      BY <2>1, <2>2
  <1>7. ASSUME NEW c \in Client, HubRemove(c) PROVE HubInv'
    <2>1. CASE c \in clients
      <3>1. \A d \in Client : d # c => cur # {d}
        BY <1>7 DEF HubRemove
      <3>2. closed' = [closed EXCEPT ![c] = TRUE] /\ UNCHANGED crash
        BY <1>7, <2>1 DEF HubRemove, Release
      <3>3. \A d \in Client : closed'[d] <=> closed[d] \/ d = c
        BY <3>2 DEF TypeOK
      <3>4. QED
        BY <1>7, <2>1, <3>1, <3>2, <3>3 DEF HubRemove, Release
    <2>2. CASE c \notin clients
      BY <1>7, <2>2 DEF TypeOK, HubRemove
    <2>3. QED
      BY <2>1, <2>2
  <1>8. ASSUME NEW c \in Client, HubDrain(c) PROVE HubInv'
    BY <1>8 DEF TypeOK, HubDrain, Release
  <1>9. ASSUME NEW c \in Client, HandleWebSocket(c) PROVE HubInv'
    BY <1>9 DEF TypeOK, HandleWebSocket
  <1>10. ASSUME NEW c \in Client, ReadFails(c) \/ ReadEvent(c) \/ DispatchReturns(c)
         PROVE  HubInv'
    <2>1. /\ \A d \in Client : Registered(d)' <=> Registered(d)
          /\ \A d \in Client : Left(d)' <=> Left(d)
          /\ UNCHANGED <<hub, cur, clients, closed, stop, crash>>
      <3>1. CASE ReadFails(c)
        BY <3>1 DEF TypeOK, ReadFails
      <3>2. CASE ReadEvent(c)
        BY <3>2 DEF TypeOK, ReadEvent, CanRead
      <3>3. CASE DispatchReturns(c)
        BY <3>3 DEF TypeOK, DispatchReturns
      <3>4. QED
        BY <1>10, <3>1, <3>2, <3>3
    <2> HIDE DEF Registered, Left
    <2>2. QED
      BY <2>1
  <1>11. ASSUME NEW c \in Client, ReaderSeesStop(c) PROVE HubInv'
    BY <1>11 DEF TypeOK, ReaderSeesStop
  <1>12. ASSUME NEW c \in Client, ReaderClosesConn(c) PROVE HubInv'
    BY <1>12 DEF TypeOK, ReaderClosesConn
  <1>13. ASSUME NEW c \in Client, InvokeReturns(c) PROVE HubInv'
    BY <1>13, TrySendHub DEF InvokeReturns
  <1>14. ASSUME NEW c \in Client, ReadPing(c) PROVE HubInv'
    BY <1>14, TrySendHub DEF ReadPing
  <1>15. ASSUME NEW c \in Client, BcSend(c) PROVE HubInv'
    BY <1>15, TrySendHub DEF BcSend
  <1>16. ASSUME NEW c \in Client, WriteFails(c) PROVE HubInv'
    BY <1>16 DEF WriteFails
  <1>17. ASSUME NEW c \in Client, WriteMessage(c) PROVE HubInv'
    BY <1>17 DEF WriteMessage
  <1>18. ASSUME NEW c \in Client, ReadInvoke(c) PROVE HubInv'
    BY <1>18 DEF ReadInvoke, CanRead
  <1>19. ASSUME NEW c \in Client, Disconnect(c) PROVE HubInv'
    BY <1>19 DEF Disconnect
  <1>20. CASE Emit \/ Shutdown \/ UNCHANGED vars
    BY <1>20 DEF Emit, Shutdown
  <1>21. CASE BcSubscribe \/ BcTake \/ BcGetAll \/ BcNext \/ BcReturn
    BY <1>21 DEF BcSubscribe, BcTake, BcGetAll, BcNext, BcReturn
  <1>22. QED
    BY <1>1, <1>2, <1>3, <1>4, <1>5, <1>6, <1>7, <1>8, <1>9, <1>10, <1>11, <1>12, <1>13, <1>14, <1>15, <1>16, <1>17, <1>18, <1>19, <1>20, <1>21
    DEF Next, HubRun, HandleEvents, Environment, ReadPump, WritePump, WriterSeesClosed

\* A client's channel is open exactly until the hub lets go of the client.
THEOREM ChannelLife == Spec => []HubInv
  BY TypeCorrect, HubInvInit, HubInvStep, PTL DEF Spec

\* No send channel is closed twice.
THEOREM ClosedOnce == Spec => []NeverDoubleClose
  <1>1. HubInv => NeverDoubleClose
    BY DEF HubInv
  <1>2. QED
    BY <1>1, ChannelLife, PTL

\* A client the hub has let go of has had its channel closed.
THEOREM NoClientLeaked == Spec => []NoLeakedClient
  <1>1. HubInv => NoLeakedClient
    BY DEF HubInv
  <1>2. QED
    BY <1>1, ChannelLife, PTL

\* With every page connected and the server up, no send can panic.
THEOREM PanicsOnlyOnDeparture == Spec => []PanicNeedsDeparture
  <1>1. HubInv => PanicNeedsDeparture
    BY DEF HubInv
  <1>2. QED
    BY <1>1, ChannelLife, PTL

(***************************************************************************)
(* Events in order: FeedInv, and from it the refinement of EventFeed.      *)
(***************************************************************************)
\* FeedInv's part about one client and the queue q it would have.
QueueInv(c, q, last, top, strict) ==
  /\ \A i \in 1 .. Len(q) :
       q[i] # Answer => last < q[i] /\ q[i] <= top /\ (strict => q[i] < top)
  /\ \A i, j \in 1 .. Len(q) :
       i < j /\ q[i] # Answer /\ q[j] # Answer => q[i] < q[j]

\* Nothing has been emitted at the start.
LEMMA FeedInvInit == Init => FeedInv
  BY DEF Init, FeedInv, Pending

\* An answer may join any queue, an event only one whose events are all older.
LEMMA QueueAppend ==
  ASSUME TypeOK, FeedInv, NEW c \in Client, NEW m \in Nat, TrySend(c, m),
         m = Answer \/ (m = bmsg /\ Pending(c)),
         NEW d \in Client
  PROVE  QueueInv(d, queue'[d], lastEvent[d], bmsg, Pending(d) /\ (d # c \/ m = Answer))
  <1> DEFINE strict == Pending(d) /\ (d # c \/ m = Answer)
  <1>1. /\ queue \in [Client -> Seq(Nat)] /\ lastEvent \in [Client -> Nat] /\ bmsg \in Nat
        /\ queue' \in [Client -> Seq(Nat)]
    BY TrySendType DEF TypeOK
  <1>2. QueueInv(d, queue[d], lastEvent[d], bmsg, strict)
    BY DEF FeedInv, QueueInv
  <1>3. CASE queue'[d] = queue[d]
    BY <1>2, <1>3
  <1>4. CASE d = c /\ queue'[d] = Append(queue[d], m)
    <2> DEFINE q == queue[d]
    <2>1. q \in Seq(Nat) /\ Len(q) \in Nat
      BY <1>1
    <2>2. /\ Len(queue'[d]) = Len(q) + 1
          /\ \A i \in 1 .. Len(q) : queue'[d][i] = q[i]
          /\ queue'[d][Len(q) + 1] = m
      BY <1>4, <2>1, AppendLast
    <2>3. \A i \in 1 .. Len(q) + 1 : i \in 1 .. Len(q) \/ i = Len(q) + 1
      BY <2>1
    <2>4. \A i \in 1 .. Len(q) : q[i] \in Nat
      BY <2>1
    <2>5. m # Answer => lastEvent[d] < m /\ \A i \in 1 .. Len(q) : q[i] # Answer => q[i] < m
      BY <1>4 DEF FeedInv
    <2>6. m # Answer => ~strict /\ m = bmsg
      BY <1>4
    <2>7. \A i \in 1 .. Len(q) + 1 :
            queue'[d][i] # Answer =>
              lastEvent[d] < queue'[d][i] /\ queue'[d][i] <= bmsg /\ (strict => queue'[d][i] < bmsg)
      <3> SUFFICES ASSUME NEW i \in 1 .. Len(q) + 1, queue'[d][i] # Answer
                   PROVE  /\ lastEvent[d] < queue'[d][i] /\ queue'[d][i] <= bmsg
                          /\ (strict => queue'[d][i] < bmsg)
        OBVIOUS
      <3>1. CASE i \in 1 .. Len(q)
        BY <3>1, <2>2, <1>2 DEF QueueInv
      <3>2. CASE i = Len(q) + 1
        BY <3>2, <2>2, <2>5, <2>6, <1>1
      <3>3. QED
        BY <3>1, <3>2, <2>3
    <2>8. \A i, j \in 1 .. Len(q) + 1 :
            i < j /\ queue'[d][i] # Answer /\ queue'[d][j] # Answer
              => queue'[d][i] < queue'[d][j]
      <3> SUFFICES ASSUME NEW i \in 1 .. Len(q) + 1, NEW j \in 1 .. Len(q) + 1,
                          i < j, queue'[d][i] # Answer, queue'[d][j] # Answer
                   PROVE  queue'[d][i] < queue'[d][j]
        OBVIOUS
      <3>1. i \in 1 .. Len(q) /\ queue'[d][i] = q[i]
        <4>1. i \in 1 .. Len(q)
          BY <2>1
        <4>2. QED
          BY <4>1, <2>2
      <3>2. CASE j \in 1 .. Len(q)
        BY <3>1, <3>2, <2>2, <1>2 DEF QueueInv
      <3>3. CASE j = Len(q) + 1
        BY <3>1, <3>3, <2>2, <2>5
      <3>4. QED
        BY <3>2, <3>3, <2>3
    <2>9. QED
      BY <2>2, <2>7, <2>8 DEF QueueInv
  <1>5. QED
    BY <1>1, <1>3, <1>4 DEF TrySend

\* Every step keeps event numbers growing along the way to the page.
LEMMA FeedInvStep == TypeOK /\ FeedInv /\ [Next]_vars => FeedInv'
  <1> SUFFICES ASSUME TypeOK, FeedInv, [Next]_vars PROVE FeedInv'
    OBVIOUS
  <1> USE DEF vars, hubVars, srvVars, pumpVars, bcVars, Running
  <1>1. ASSUME NEW c \in Client, InvokeReturns(c) \/ ReadPing(c) PROVE FeedInv'
    <2>1. TrySend(c, Answer) /\ Answer \in Nat /\ UNCHANGED <<bcVars, sub, emitted, lastEvent>>
      BY <1>1 DEF InvokeReturns, ReadPing, Answer
    <2>2. \A d \in Client :
            QueueInv(d, queue'[d], lastEvent[d], bmsg, Pending(d) /\ (d # c \/ Answer = Answer))
      BY <2>1, QueueAppend
    <2>3. QED
      BY <2>1, <2>2 DEF FeedInv, QueueInv, Pending
  <1>2. ASSUME NEW c \in Client, BcSend(c) PROVE FeedInv'
    <2>1. /\ TrySend(c, bmsg) /\ bmsg \in Nat /\ Pending(c)
          /\ UNCHANGED <<bc, bmsg, sub, emitted, lastEvent>> /\ targets' = targets \ {c}
      BY <1>2 DEF BcSend, Pending, TypeOK
    <2>2. \A d \in Client : Pending(d)' => Pending(d) /\ d # c
      BY <1>2 DEF BcSend, Pending
    <2>3. \A d \in Client : QueueInv(d, queue'[d], lastEvent[d], bmsg, Pending(d) /\ (d # c \/ bmsg = Answer))
      BY <2>1, QueueAppend
    <2>4. QED
      BY <2>1, <2>2, <2>3 DEF FeedInv, QueueInv
  <1>3. ASSUME NEW c \in Client, WriteMessage(c) PROVE FeedInv'
    <2> DEFINE q == queue[c]
    <2>1. /\ q \in Seq(Nat) /\ q # <<>> /\ queue' = [queue EXCEPT ![c] = Tail(q)]
          /\ lastEvent' = IF Head(q) # Answer
                          THEN [lastEvent EXCEPT ![c] = Head(q)] ELSE lastEvent
          /\ UNCHANGED <<bcVars, sub, emitted>>
      BY <1>3 DEF WriteMessage, TypeOK
    <2>2. /\ Len(q) \in Nat /\ Len(q) > 0 /\ Head(q) = q[1] /\ Head(q) \in Nat
          /\ Tail(q) \in Seq(Nat) /\ Len(Tail(q)) = Len(q) - 1
          /\ \A i \in 1 .. Len(Tail(q)) : Tail(q)[i] = q[i + 1]
      BY <2>1, HeadTail
    <2>3. queue'[c] = Tail(q) /\ \A d \in Client : d # c => queue'[d] = queue[d] /\ lastEvent'[d] = lastEvent[d]
      BY <2>1 DEF TypeOK
    <2>4. lastEvent'[c] = IF Head(q) # Answer THEN Head(q) ELSE lastEvent[c]
      BY <2>1 DEF TypeOK
    <2>5. \A i \in 1 .. Len(Tail(q)) : i + 1 \in 1 .. Len(q) /\ 1 \in 1 .. Len(q) /\ 1 < i + 1
      BY <2>2
    <2>6. lastEvent'[c] <= bmsg /\ (Pending(c) => lastEvent'[c] < bmsg)
      BY <2>2, <2>4 DEF FeedInv
    <2>7. QueueInv(c, Tail(q), lastEvent'[c], bmsg, Pending(c))
      <3>1. ASSUME NEW i \in 1 .. Len(Tail(q)), Tail(q)[i] # Answer
            PROVE  /\ lastEvent'[c] < Tail(q)[i] /\ Tail(q)[i] <= bmsg
                   /\ Pending(c) => Tail(q)[i] < bmsg
        <4>1. Tail(q)[i] = q[i + 1] /\ i + 1 \in 1 .. Len(q) /\ 1 \in 1 .. Len(q) /\ 1 < i + 1
          BY <2>2, <2>5
        <4>2. lastEvent[c] < q[i + 1] /\ q[i + 1] <= bmsg /\ (Pending(c) => q[i + 1] < bmsg)
          BY <3>1, <4>1 DEF FeedInv
        <4>3. Head(q) # Answer => Head(q) < q[i + 1]
          BY <3>1, <4>1, <2>2 DEF FeedInv
        <4>4. QED
          BY <4>1, <4>2, <4>3, <2>4
      <3>2. ASSUME NEW i \in 1 .. Len(Tail(q)), NEW j \in 1 .. Len(Tail(q)),
                   i < j, Tail(q)[i] # Answer, Tail(q)[j] # Answer
            PROVE  Tail(q)[i] < Tail(q)[j]
        <4>1. /\ Tail(q)[i] = q[i + 1] /\ i + 1 \in 1 .. Len(q)
              /\ Tail(q)[j] = q[j + 1] /\ j + 1 \in 1 .. Len(q)
          BY <2>2, <2>5
        <4>2. \A a, b \in 1 .. Len(q) :
                a < b /\ q[a] # Answer /\ q[b] # Answer => q[a] < q[b]
          BY DEF FeedInv
        <4>3. i + 1 < j + 1
          BY <3>2, <2>2
        <4>4. QED
          BY <3>2, <4>1, <4>2, <4>3
      <3>3. QED
        BY <3>1, <3>2 DEF QueueInv
    <2>8. \A d \in Client :
            /\ lastEvent'[d] <= bmsg /\ (Pending(d) => lastEvent'[d] < bmsg)
            /\ QueueInv(d, queue'[d], lastEvent'[d], bmsg, Pending(d))
      <3>1. \A d \in Client : /\ lastEvent[d] <= bmsg /\ (Pending(d) => lastEvent[d] < bmsg)
                              /\ QueueInv(d, queue[d], lastEvent[d], bmsg, Pending(d))
        BY DEF FeedInv, QueueInv
      <3>2. QED
        BY <3>1, <2>3, <2>6, <2>7
    <2>9. QED
      BY <2>1, <2>8 DEF FeedInv, QueueInv, Pending
  <1>4. CASE BcTake
    <2>1. /\ sub \in Seq(Nat) /\ sub # <<>> /\ bmsg' = Head(sub) /\ sub' = Tail(sub)
          /\ UNCHANGED <<queue, emitted, lastEvent>>
      BY <1>4 DEF BcTake, TypeOK
    <2>2. /\ Len(sub) \in Nat /\ Len(sub) > 0 /\ Head(sub) = sub[1] /\ Head(sub) \in Nat
          /\ Len(Tail(sub)) = Len(sub) - 1
          /\ \A i \in 1 .. Len(Tail(sub)) : Tail(sub)[i] = sub[i + 1]
          /\ \A i \in 1 .. Len(sub) : sub[i] \in Nat
      BY <2>1, HeadTail
    <2>3. bmsg < bmsg' /\ bmsg' <= emitted /\ bmsg \in Nat /\ emitted \in Nat
      <3>1. 1 \in 1 .. Len(sub)
        BY <2>2
      <3>2. bmsg' = sub[1]
        BY <2>1, <2>2, Zenon
      <3>3. bmsg \in Nat /\ emitted \in Nat
        BY DEF TypeOK
      <3>4. QED
        BY <3>1, <3>3, <3>2 DEF FeedInv
    <2> DEFINE n == Len(sub)
    <2>4. /\ Len(sub') = n - 1 /\ n \in Nat /\ n > 0
          /\ \A i \in 1 .. n - 1 : sub'[i] = sub[i + 1] /\ i + 1 \in 1 .. n /\ 1 \in 1 .. n /\ 1 < i + 1
      <3>1. sub' = Tail(sub) /\ Len(sub') = n - 1 /\ n \in Nat /\ n > 0
        BY <2>1, <2>2
      <3>2. \A i \in 1 .. n - 1 : sub'[i] = sub[i + 1]
        BY <3>1, <2>2
      <3>3. \A i \in 1 .. n - 1 : i + 1 \in 1 .. n /\ 1 \in 1 .. n /\ 1 < i + 1
        BY <3>1
      <3>4. QED
        BY <3>1, <3>2, <3>3
    <2>5. \A i \in 1 .. Len(sub') : bmsg' < sub'[i] /\ sub'[i] <= emitted
      BY <2>1, <2>2, <2>4 DEF FeedInv
    <2>6. \A i, j \in 1 .. Len(sub') : i < j => sub'[i] < sub'[j]
      <3> SUFFICES ASSUME NEW i \in 1 .. n - 1, NEW j \in 1 .. n - 1, i < j
                   PROVE  sub'[i] < sub'[j]
        BY <2>4
      <3>1. /\ i + 1 \in 1 .. n /\ j + 1 \in 1 .. n /\ i + 1 < j + 1
            /\ sub'[i] = sub[i + 1] /\ sub'[j] = sub[j + 1]
        BY <2>4
      <3>2. QED
        BY <3>1 DEF FeedInv
    <2>7. /\ lastEvent \in [Client -> Nat]
          /\ \A c \in Client : \A i \in 1 .. Len(queue[c]) : queue[c][i] \in Nat
      <3>1. queue \in [Client -> Seq(Nat)] /\ lastEvent \in [Client -> Nat]
        BY DEF TypeOK
      <3>2. QED
        BY <3>1
    <2>8. \A c \in Client :
            /\ lastEvent[c] < bmsg'
            /\ \A i \in 1 .. Len(queue[c]) : queue[c][i] # Answer => queue[c][i] < bmsg'
      BY <2>2, <2>3, <2>7, <2>1 DEF FeedInv
    <2>9. \A c \in Client :
            /\ lastEvent'[c] < bmsg'
            /\ \A i \in 1 .. Len(queue'[c]) :
                 queue'[c][i] # Answer => lastEvent'[c] < queue'[c][i] /\ queue'[c][i] < bmsg'
      BY <2>1, <2>8 DEF FeedInv
    <2>10. \A m, k \in Nat : m < k => m <= k
      OBVIOUS
    <2>11. bmsg' \in Nat /\ emitted' = emitted
      BY <2>1, <2>2
    <2>12. QED
      BY <2>1, <2>3, <2>5, <2>6, <2>7, <2>9, <2>10, <2>11 DEF FeedInv
  <1>5. CASE Emit
    <2>1. UNCHANGED <<bcVars, queue, lastEvent>> /\ emitted' = emitted + 1
      BY <1>5 DEF Emit
    <2>2. CASE sub' = sub
      <3>1. emitted \in Nat /\ bmsg \in Nat /\ sub \in Seq(Nat)
        BY DEF TypeOK
      <3>2. \A i \in 1 .. Len(sub) : sub[i] \in Nat
        BY <3>1
      <3>3. bmsg <= emitted' /\ \A i \in 1 .. Len(sub) : bmsg < sub[i] /\ sub[i] <= emitted'
        BY <2>1, <3>2, <3>1 DEF FeedInv
      <3>4. QED
        BY <2>1, <2>2, <3>3 DEF FeedInv, Pending
    <2>3. CASE sub' = Append(sub, emitted + 1)
      <3>1. sub \in Seq(Nat) /\ emitted \in Nat /\ bmsg \in Nat
        BY DEF TypeOK
      <3>2. /\ Len(sub) \in Nat /\ Len(sub') = Len(sub) + 1
            /\ \A i \in 1 .. Len(sub) : sub'[i] = sub[i] /\ sub[i] \in Nat
            /\ sub'[Len(sub) + 1] = emitted + 1
        BY <2>3, <3>1, AppendLast
      <3> DEFINE n == Len(sub)
      <3>3. /\ \A i \in 1 .. n : bmsg < sub[i] /\ sub[i] <= emitted
            /\ \A i, j \in 1 .. n : i < j => sub[i] < sub[j]
            /\ bmsg <= emitted
        BY DEF FeedInv
      <3>4. \A i \in 1 .. n + 1 : i \in 1 .. n \/ i = n + 1
        BY <3>2
      <3>5. \A i \in 1 .. n + 1 : bmsg < sub'[i] /\ sub'[i] <= emitted + 1
        <4> SUFFICES ASSUME NEW i \in 1 .. n + 1
                     PROVE  bmsg < sub'[i] /\ sub'[i] <= emitted + 1
          OBVIOUS
        <4>1. CASE i \in 1 .. n
          <5>1. sub'[i] = sub[i] /\ sub[i] \in Nat /\ bmsg < sub[i] /\ sub[i] <= emitted
            BY <4>1, <3>2, <3>3
          <5>2. QED
            BY <5>1, <3>1
        <4>2. CASE i = n + 1
          BY <4>2, <3>1, <3>2, <3>3
        <4>3. QED
          BY <4>1, <4>2, <3>4
      <3>6. \A i, j \in 1 .. n + 1 : i < j => sub'[i] < sub'[j]
        <4> SUFFICES ASSUME NEW i \in 1 .. n + 1, NEW j \in 1 .. n + 1, i < j
                     PROVE  sub'[i] < sub'[j]
          OBVIOUS
        <4>1. i \in 1 .. n /\ sub'[i] = sub[i] /\ sub[i] \in Nat
          BY <3>2
        <4>2. CASE j \in 1 .. n
          BY <4>1, <4>2, <3>2, <3>3
        <4>3. CASE j = n + 1
          BY <4>1, <4>3, <3>1, <3>2, <3>3
        <4>4. QED
          BY <4>2, <4>3, <3>4
      <3>7. bmsg <= emitted + 1
        BY <3>1, <3>3
      <3>8. QED
        BY <2>1, <3>2, <3>5, <3>6, <3>7 DEF FeedInv, Pending
    <2>4. QED
      BY <1>5, <2>2, <2>3, <2>1 DEF Emit
  <1>6. CASE BcGetAll
    BY <1>6 DEF BcGetAll, FeedInv, Pending
  <1>7. CASE BcSubscribe \/ BcNext \/ BcReturn
    BY <1>7 DEF BcSubscribe, BcNext, BcReturn, FeedInv, Pending
  <1>8. CASE UNCHANGED <<bcVars, queue, sub, emitted, lastEvent>>
    BY <1>8 DEF FeedInv, Pending
  <1>9. ASSUME HubRun PROVE UNCHANGED <<bcVars, queue, sub, emitted, lastEvent>>
    BY <1>9 DEF HubRun, HubStop, HubReturn, HubRegister, HubInsert, HubUnregister,
                HubRemove, HubDrain, Release
  <1>10. ASSUME NEW c \in Client,
                \/ HandleWebSocket(c) \/ ReadEvent(c) \/ DispatchReturns(c)
                \/ ReadFails(c) \/ ReaderSeesStop(c)
                \/ ReaderClosesConn(c) \/ ReadInvoke(c) \/ WriteFails(c) \/ Disconnect(c)
         PROVE  UNCHANGED <<bcVars, queue, sub, emitted, lastEvent>>
    BY <1>10 DEF HandleWebSocket, ReadEvent, DispatchReturns, ReadFails, ReaderSeesStop,
                 ReaderClosesConn, ReadInvoke, WriteFails, Disconnect
  <1>11. ASSUME StopHub \/ Shutdown PROVE UNCHANGED <<bcVars, queue, sub, emitted, lastEvent>>
    BY <1>11 DEF StopHub, Shutdown
  <1>12. QED
    BY <1>1, <1>2, <1>3, <1>4, <1>5, <1>6, <1>7, <1>8, <1>9, <1>10, <1>11
    DEF Next, HandleEvents, Environment, ReadPump, WritePump, WriterSeesClosed

\* Event numbers grow from the page back to Emit, in every behaviour.
THEOREM FeedOrder == Spec => []FeedInv
  BY TypeCorrect, FeedInvInit, FeedInvStep, PTL DEF Spec

(***************************************************************************)
(* Every page sees emitted events in order and at most once, however many  *)
(* pages there are, whatever the queue capacities, and whoever stalls,     *)
(* leaves or is dropped on the way: Hub implements EventFeed.              *)
(***************************************************************************)
THEOREM HubImplementsFeed == Spec => EventsInOrder
  <1>1. Init => Feed!Init
    BY DEF Init, Feed!Init
  <1>2. TypeOK /\ FeedInv /\ [Next]_vars => [Feed!Next]_(Feed!feedVars)
    <2> SUFFICES ASSUME TypeOK, FeedInv, [Next]_vars
                 PROVE  Feed!Next \/ UNCHANGED <<emitted, lastEvent>>
      BY DEF Feed!feedVars
    <2> USE DEF vars, hubVars, srvVars, pumpVars, bcVars
    <2>1. CASE Emit
      BY <2>1 DEF Emit, Feed!Next, Feed!Emit
    <2>2. ASSUME NEW c \in Client, WriteMessage(c)
          PROVE  Feed!Next \/ UNCHANGED <<emitted, lastEvent>>
      <3> DEFINE q == queue[c]
      <3>1. q \in Seq(Nat) /\ q # <<>> /\ emitted \in Nat /\ bmsg \in Nat /\ lastEvent[c] \in Nat
        BY <2>2 DEF WriteMessage, TypeOK
      <3>2. Len(q) \in Nat /\ Len(q) > 0 /\ Head(q) = q[1] /\ Head(q) \in Nat
        BY <3>1, HeadTail
      <3>3. Head(q) # Answer => Head(q) \in (lastEvent[c] + 1) .. emitted
        BY <3>1, <3>2 DEF FeedInv
      <3>4. CASE Head(q) = Answer
        BY <2>2, <3>4 DEF WriteMessage
      <3>5. CASE Head(q) # Answer
        BY <2>2, <3>3, <3>5 DEF WriteMessage, Feed!Next, Feed!See
      <3>6. QED
        BY <3>4, <3>5
    <2>3. ASSUME HubRun \/ BcSubscribe \/ HandleEvents \/ BcReturn
          PROVE  UNCHANGED <<emitted, lastEvent>>
      BY <2>3 DEF HubRun, HubStop, HubReturn, HubRegister, HubInsert, HubUnregister,
                  HubRemove, HubDrain, HandleEvents, BcSubscribe, BcTake,
                  BcGetAll, BcSend, BcNext, BcReturn
    <2>4. ASSUME NEW c \in Client,
                 \/ HandleWebSocket(c) \/ ReadEvent(c) \/ DispatchReturns(c)
                 \/ ReadFails(c) \/ ReaderSeesStop(c)
                 \/ ReaderClosesConn(c) \/ ReadInvoke(c) \/ WriteFails(c) \/ Disconnect(c)
                 \/ InvokeReturns(c) \/ ReadPing(c)
          PROVE  UNCHANGED <<emitted, lastEvent>>
      BY <2>4 DEF HandleWebSocket, ReadEvent, DispatchReturns, ReadFails, ReaderSeesStop,
                  ReaderClosesConn, ReadInvoke, WriteFails, Disconnect, InvokeReturns,
                  ReadPing
    <2>5. ASSUME StopHub \/ Shutdown \/ UNCHANGED vars PROVE UNCHANGED <<emitted, lastEvent>>
      BY <2>5 DEF StopHub, Shutdown
    <2>6. QED
      BY <2>1, <2>2, <2>3, <2>4, <2>5
      DEF Next, Environment, ReadPump, WritePump, WriterSeesClosed
  <1>3. QED
    BY <1>1, <1>2, TypeCorrect, FeedOrder, PTL DEF Spec, EventsInOrder, Feed!Spec

\* A page's last event never goes back, and is never one that was not emitted.
PagesMoveForward ==
  \A c \in Client : lastEvent[c] <= lastEvent'[c] /\ lastEvent'[c] <= emitted'

\* What a page makes of the refinement: each step of EventFeed moves it forward.
THEOREM PagesOnlyMoveForward == Spec => [][PagesMoveForward]_vars
  <1> DEFINE Seen == \A c \in Client : lastEvent[c] <= emitted
             LastType == lastEvent \in [Client -> Nat]
  <1>1. TypeOK /\ FeedInv => Seen /\ LastType
    <2>1. ASSUME TypeOK, FeedInv, NEW c \in Client PROVE lastEvent[c] <= emitted
      <3>1. lastEvent[c] \in Nat /\ bmsg \in Nat /\ emitted \in Nat
        BY <2>1 DEF TypeOK
      <3>2. lastEvent[c] <= bmsg /\ bmsg <= emitted
        BY <2>1 DEF FeedInv
      <3>3. QED
        BY <3>1, <3>2
    <2>2. TypeOK => LastType
      BY DEF TypeOK
    <2>3. QED
      BY <2>1, <2>2
  <1>2. ASSUME LastType, Seen', [Feed!Next]_(Feed!feedVars)
        PROVE  PagesMoveForward
    <2>1. \A c \in Client : lastEvent[c] <= lastEvent'[c]
      <3>1. CASE UNCHANGED lastEvent
        BY <1>2, <3>1
      <3>2. ASSUME NEW c \in Client, Feed!See(c)
            PROVE  \A d \in Client : lastEvent[d] <= lastEvent'[d]
        <4>1. PICK n \in (lastEvent[c] + 1) .. emitted : lastEvent' = [lastEvent EXCEPT ![c] = n]
          BY <3>2 DEF Feed!See
        <4>2. lastEvent[c] \in Nat /\ lastEvent[c] <= n /\ lastEvent'[c] = n
          BY <1>2, <4>1
        <4>3. \A d \in Client : d # c => lastEvent'[d] = lastEvent[d] /\ lastEvent[d] \in Nat
          BY <1>2, <4>1
        <4>4. QED
          BY <4>2, <4>3
      <3>3. QED
        BY <1>2, <3>1, <3>2 DEF Feed!Next, Feed!Emit, Feed!feedVars
    <2>2. QED
      BY <1>2, <2>1 DEF PagesMoveForward
  <1>3. QED
    BY <1>1, <1>2, TypeCorrect, FeedOrder, HubImplementsFeed, PTL DEF EventsInOrder, Feed!Spec

-----------------------------------------------------------------------------
(***************************************************************************)
(* The two pumps of a connection, and what the hub leaves behind.          *)
(***************************************************************************)
PumpInv ==
  \A c \in Client :
    /\ reader[c] = "none" <=> conn[c] = "none"
    /\ writer[c] = "none" <=> ~Registered(c)
    /\ reader[c] = "done" \/ writer[c] = "done" => conn[c] = "closed"
    /\ ~Registered(c) => queue[c] = <<>> /\ calls[c] = 0 /\ c \notin targets

\* An offer concerns a client the hub has registered, so that it leaves the
\* queues of the others, and the pumps, alone.
LEMMA TrySendPump ==
  ASSUME TypeOK, PumpInv, NEW c \in Client, NEW m, TrySend(c, m), Registered(c),
         UNCHANGED pumpVars, targets' \subseteq targets,
         \A d \in Client : calls[d] = 0 /\ d # c => calls'[d] = 0
  PROVE  PumpInv'
  <1>1. \A d \in Client : d # c => queue'[d] = queue[d]
    BY DEF TrySend, TypeOK
  <1>2. \A d \in Client : Registered(d)' <=> Registered(d)
    BY DEF Registered, pumpVars
  <1>3. QED
    BY <1>1, <1>2 DEF PumpInv, pumpVars

LEMMA PumpInvStep == TypeOK /\ HubInv /\ PumpInv /\ [Next]_vars => PumpInv'
  <1> SUFFICES ASSUME TypeOK, HubInv, PumpInv, [Next]_vars PROVE PumpInv'
    OBVIOUS
  <1> USE DEF PumpInv, Registered, vars, hubVars, srvVars, pumpVars, bcVars
  <1>1. ASSUME NEW c \in Client, HubRegister(c) PROVE PumpInv'
    BY <1>1 DEF TypeOK, HubRegister
  <1>2. ASSUME NEW c \in Client, HubUnregister(c) PROVE PumpInv'
    BY <1>2 DEF TypeOK, HubUnregister
  <1>3. ASSUME NEW c \in Client, HandleWebSocket(c) PROVE PumpInv'
    BY <1>3 DEF TypeOK, HandleWebSocket
  <1>4. ASSUME NEW c \in Client,
               ReadEvent(c) \/ DispatchReturns(c) \/ ReadFails(c) \/ ReaderSeesStop(c)
        PROVE  PumpInv'
    <2>1. CASE ReadFails(c)
      BY <2>1 DEF TypeOK, ReadFails
    <2>2. CASE ReaderSeesStop(c)
      BY <2>2 DEF TypeOK, ReaderSeesStop
    <2>3. CASE ReadEvent(c)
      BY <2>3 DEF TypeOK, ReadEvent, CanRead
    <2>4. CASE DispatchReturns(c)
      BY <2>4 DEF TypeOK, DispatchReturns
    <2>5. QED
      BY <1>4, <2>1, <2>2, <2>3, <2>4
  <1>5. ASSUME NEW c \in Client, ReaderClosesConn(c) PROVE PumpInv'
    BY <1>5 DEF TypeOK, ReaderClosesConn
  <1>6. ASSUME NEW c \in Client, WriteFails(c) \/ Disconnect(c) PROVE PumpInv'
    <2>1. CASE WriteFails(c)
      BY <2>1 DEF TypeOK, WriteFails
    <2>2. CASE Disconnect(c)
      BY <2>2 DEF TypeOK, Disconnect
    <2>3. QED
      BY <1>6, <2>1, <2>2
  <1>7. ASSUME NEW c \in Client, WriteMessage(c) PROVE PumpInv'
    BY <1>7 DEF TypeOK, WriteMessage
  <1>8. ASSUME NEW c \in Client, ReadInvoke(c) PROVE PumpInv'
    BY <1>8 DEF TypeOK, ReadInvoke, CanRead
  <1>9. ASSUME NEW c \in Client, InvokeReturns(c) PROVE PumpInv'
    <2> HIDE DEF PumpInv
    <2>1. calls[c] # 0 /\ calls' = [calls EXCEPT ![c] = calls[c] - 1]
      <3>1. calls[c] \in Nat
        BY DEF TypeOK
      <3>2. calls[c] > 0 /\ calls' = [calls EXCEPT ![c] = @ - 1]
        BY <1>9 DEF InvokeReturns
      <3>3. QED
        BY <3>1, <3>2
    <2>2. Registered(c) /\ TrySend(c, Answer) /\ UNCHANGED <<pumpVars, targets>>
      BY <1>9, <2>1 DEF InvokeReturns, PumpInv
    <2>3. \A d \in Client : calls[d] = 0 /\ d # c => calls'[d] = 0
      BY <2>1 DEF TypeOK
    <2>4. QED
      BY <2>2, <2>3, TrySendPump
  <1>10. ASSUME NEW c \in Client, ReadPing(c) PROVE PumpInv'
    BY <1>10, TrySendPump DEF ReadPing, CanRead
  <1>11. ASSUME NEW c \in Client, BcSend(c) PROVE PumpInv'
    BY <1>11, TrySendPump DEF BcSend
  <1>12. CASE BcGetAll
    BY <1>12 DEF BcGetAll, HubInv
  <1>13. CASE UNCHANGED <<pumpVars, queue, calls, targets>>
    BY <1>13
  <1>14. QED
    BY <1>1, <1>2, <1>3, <1>4, <1>5, <1>6, <1>7, <1>8, <1>9, <1>10, <1>11, <1>12, <1>13
    DEF Next, HubRun, HandleEvents, Environment, ReadPump, WritePump,
        WriterSeesClosed, HubStop, HubReturn, HubInsert, HubRemove, HubDrain, BcSubscribe,
        BcTake, BcNext, BcReturn, Emit, StopHub, Shutdown

LEMMA PumpLife == Spec => []PumpInv
  <1>1. Init => PumpInv
    BY DEF Init, PumpInv, Registered
  <1>2. QED
    BY <1>1, PumpInvStep, TypeCorrect, ChannelLife, PTL DEF Spec

\* Whichever pump of a connection ends first closes the connection, and so the
\* other cannot stay blocked on it.
NoPumpLeftBlocked ==
  \A c \in Client : reader[c] = "done" \/ writer[c] = "done" => conn[c] = "closed"

\* A page that leaves, or a write that fails, ends both pumps of its connection.
THEOREM EitherPumpEndsBoth == Spec => []NoPumpLeftBlocked
  <1>1. PumpInv => NoPumpLeftBlocked
    BY DEF PumpInv, NoPumpLeftBlocked
  <1>2. QED
    BY <1>1, PumpLife, PTL

\* Frames, calls in progress and a place among the targets of a broadcast belong
\* only to clients the hub has received; a connection that is still waiting in
\* register holds nothing that a stopped hub would have to free.
NothingBeforeRegister ==
  \A c \in Client : ~Registered(c) => queue[c] = <<>> /\ calls[c] = 0 /\ c \notin targets

LEMMA NothingHeldBeforeRegister == Spec => []NothingBeforeRegister
  <1>1. PumpInv => NothingBeforeRegister
    BY DEF PumpInv, NothingBeforeRegister
  <1>2. QED
    BY <1>1, PumpLife, PTL

\* A hub that has returned knows no client and has closed the channel of every
\* client it ever registered, so each writePump is told to leave.
StoppedHubIsEmpty ==
  hub = "stopped" => clients = {} /\ \A c \in Client : Registered(c) => closed[c]

\* The safety half of StopReleasesRegistered, whatever was in flight at Stop.
THEOREM StopClosesEveryChannel == Spec => []StoppedHubIsEmpty
  <1> DEFINE Emptied == hub = "stopped" => clients = {}
  <1>1. Init => Emptied
    BY DEF Init
  <1>2. TypeOK /\ Emptied /\ [Next]_vars => Emptied'
    <2> SUFFICES ASSUME TypeOK, Emptied, [Next]_vars, hub' = "stopped" PROVE clients' = {}
      OBVIOUS
    <2> USE DEF vars, hubVars, srvVars, pumpVars, bcVars
    <2>1. CASE HubReturn
      BY <2>1 DEF HubReturn
    <2>2. CASE UNCHANGED hubVars
      BY <2>2
    <2>3. ASSUME NEW c \in Client, HubDrain(c) PROVE FALSE
      BY <2>3 DEF HubDrain
    <2>4. QED
      BY <2>1, <2>2, <2>3
      DEF Next, HubRun, HandleEvents, Environment, ReadPump, WritePump, ReadEvent,
          DispatchReturns, WriterSeesClosed, HubStop, HubRegister, HubInsert, HubUnregister, HubRemove,
          BcSubscribe, BcTake, BcGetAll, BcSend, BcNext, BcReturn, Emit, StopHub, Shutdown,
          Disconnect, HandleWebSocket, ReadPing, ReadFails, ReaderSeesStop, ReaderClosesConn,
          ReadInvoke, InvokeReturns, WriteMessage, WriteFails
  <1>3. HubInv /\ Emptied => StoppedHubIsEmpty
    BY DEF HubInv, NoLeakedClient, StoppedHubIsEmpty
  <1>4. QED
    BY <1>1, <1>2, <1>3, TypeCorrect, ChannelLife, PTL DEF Spec

\* The steps that can panic: an invoke that returns after its page has left or
\* the hub has stopped, a broadcast whose snapshot still names such a page, a
\* ping read after the hub has stopped.
PanicWindow ==
  crash' # crash =>
    \E c \in Client :
      closed[c] /\ \/ calls[c] > 0
                   \/ bc = "sending" /\ c \in targets
                   \/ stop /\ reader[c] = "reading"

\* NeverSendsOnClosed as far as it is true: closing a channel is harmless unless
\* one of these is in flight.
THEOREM PanicsOnlyInWindow == Spec => [][PanicWindow]_vars
  <1>1. TypeOK /\ HubInv /\ [Next]_vars => [PanicWindow]_vars
    <2> SUFFICES ASSUME TypeOK, HubInv, [Next]_vars, crash' # crash
                 PROVE  \E c \in Client :
                          closed[c] /\ \/ calls[c] > 0
                                       \/ bc = "sending" /\ c \in targets
                                       \/ stop /\ reader[c] = "reading"
      BY DEF PanicWindow
    <2> USE DEF vars, hubVars, srvVars, pumpVars, bcVars
    <2>1. ASSUME NEW c \in Client, NEW m, TrySend(c, m) PROVE closed[c]
      BY <2>1 DEF TrySend
    <2>2. ASSUME NEW c \in Client, Release(c), c \in clients PROVE FALSE
      BY <2>2 DEF Release, HubInv
    <2>3. ASSUME NEW c \in Client, HubRemove(c) \/ HubDrain(c) PROVE FALSE
      BY <2>2, <2>3 DEF HubRemove, HubDrain
    <2>4. ASSUME NEW c \in Client, InvokeReturns(c) PROVE closed[c] /\ calls[c] > 0
      BY <2>1, <2>4 DEF InvokeReturns
    <2>5. ASSUME NEW c \in Client, ReadPing(c) PROVE closed[c] /\ stop /\ reader[c] = "reading"
      BY <2>1, <2>5 DEF ReadPing, CanRead, HubInv, Left
    <2>6. ASSUME NEW c \in Client, BcSend(c) PROVE closed[c] /\ bc = "sending" /\ c \in targets
      BY <2>1, <2>6 DEF BcSend
    <2>7. CASE UNCHANGED crash
      BY <2>7
    <2>8. QED
      BY <2>3, <2>4, <2>5, <2>6, <2>7
      DEF Next, HubRun, HandleEvents, Environment, ReadPump, WritePump, ReadEvent,
          DispatchReturns, WriterSeesClosed, HubStop, HubReturn, HubRegister, HubInsert, HubUnregister,
          BcSubscribe, BcTake, BcGetAll, BcNext, BcReturn, Emit, StopHub, Shutdown,
          Disconnect, HandleWebSocket, ReadFails, ReaderSeesStop, ReaderClosesConn,
          ReadInvoke, WriteMessage, WriteFails
  <1>2. QED
    BY <1>1, TypeCorrect, ChannelLife, PTL DEF Spec
=============================================================================

---------------------------- MODULE Native_proofs ----------------------------
(***************************************************************************)
(* Proofs about Native, for any number of goroutines, messages and windows *)
(* and any capacity: types, no send on a closed subscription, no           *)
(* evaluation in a window the program has destroyed, and the events of     *)
(* each goroutine in order, which is a refinement of EventFeed. Then the   *)
(* bridge's lock, which blocks for ever in one way only, and the pumps,    *)
(* one for each subscription.                                              *)
(***************************************************************************)
EXTENDS Native, SequenceTheorems, WellFoundedInduction, TLAPS

Frame == Event \cup {Answer, Destroy}

(* Who emits holds the read lock, which keeps every subscription it still  *)
(* has to serve open.                                                      *)
EmitProtected ==
  \A t \in Thread :
    /\ pc[t] \in {"emitting", "handlerEmitting"} => todo[t] \subseteq subs
    /\ pc[t] \in {"emitting", "handlerEmitting", "handler", "handlerWantsEmit",
                  "handlerRegistering"} => t \in readers

SubsOpen ==
  \A w \in Window :
    /\ win[w] = "none" => opener[w] = "none"
    /\ w \in subs => opener[w] \in {"open", "unsubscribing"}
    /\ closed[w] => opener[w] \in {"marking", "destroying", "closed"}

(* A window is destroyed by its closure, which is queued once its session  *)
(* is marked, or by its own loop, which drops the closures it has and      *)
(* takes no other.                                                         *)
Marked ==
  \A w \in Window :
    /\ alive[w] => win[w] # "none"
    /\ opener[w] \in {"destroying", "closed"} => ~alive[w]
    /\ \A i \in 1 .. Len(ui[w]) : ui[w][i].kind = "destroy" => opener[w] = "closed"
    /\ win[w] = "gone" /\ ~userClosed[w] => ~alive[w] \/ ui[w] = <<>>
    /\ uipc[w] = "eval" => ui[w] # <<>> /\ ui[w][1].kind # "destroy"

IInv == TypeOK /\ EmitProtected /\ SubsOpen /\ NeverSendsOnClosed /\ Marked /\ EvalsLiveWindow

(* The conjuncts of TypeOK, one for what the steps of a thread or window   *)
(* control and one for each kind of data.                                  *)
ControlType ==
  /\ pending \subseteq Thread \cup Window /\ readers \subseteq Thread
  /\ pc \in [Thread -> ThreadStates] /\ at \in [Thread -> SUBSET Window]
  /\ todo \in [Thread -> SUBSET Window] /\ emitted \in [Thread -> Nat]
  /\ subs \subseteq Window /\ closed \in [Window -> BOOLEAN] /\ crash \in BOOLEAN
  /\ win \in [Window -> {"none", "open", "gone"}]
  /\ opener \in [Window -> {"none", "subscribing", "open", "unsubscribing", "marking",
                            "destroying", "closed"}]
  /\ alive \in [Window -> BOOLEAN] /\ userClosed \in [Window -> BOOLEAN]
  /\ done \in [Window -> BOOLEAN] /\ quit \in BOOLEAN
  /\ pump \in [Window -> {"none", "wait", "push", "dispatch", "returned"}]
  /\ uipc \in [Window -> {"loop", "eval"}] /\ attached \in [Window -> BOOLEAN]

SubType == sub \in [Window -> Seq(Event)] /\ \A w \in Window : Len(sub[w]) <= SubCap
PmsgType == pmsg \in [Window -> Event \cup {Answer}]
UiType == ui \in [Window -> Seq(Frame)]
InboxType == inbox \in [Window -> Seq(Frame)]
LastType == lastEvent \in [Thread -> [Window -> Nat]]

LEMMA TypeParts ==
  TypeOK <=> ControlType /\ SubType /\ PmsgType /\ UiType /\ InboxType /\ LastType
BY DEF TypeOK, ControlType, SubType, PmsgType, UiType, InboxType, LastType, Frame

-----------------------------------------------------------------------------
(***************************************************************************)
(* Frames, and the last of them.                                           *)
(***************************************************************************)
LEMMA Frames ==
  /\ Answer \in Frame /\ Destroy \in Frame /\ Answer \notin Event
  /\ \A f \in Frame : f.kind = "event" => f \in Event
  /\ \A f \in Event : f.n \in Nat /\ f.from \in Thread /\ f.kind = "event"
BY DEF Frame, Event, Answer, Destroy

(* A set of natural numbers with a bound has a greatest element.           *)
LEMMA Greatest ==
  ASSUME NEW b \in Nat, NEW S, S \subseteq 1 .. b, S # {}
  PROVE  \E i \in S : \A j \in S : j <= i
<1> DEFINE U == {b - i : i \in S}
<1>1. U \subseteq Nat /\ U # {}
  OBVIOUS
<1>2. PICK x \in U : \A y \in U : <<y, x>> \notin OpToRel(<, Nat)
  BY <1>1, WFMin, NatLessThanWellFounded
<1>3. \A y \in U : ~(y < x)
  BY <1>1, <1>2, Zenon DEF OpToRel
<1>4. PICK i \in S : x = b - i
  BY <1>2
<1>5. \A j \in S : b - j \in U
  OBVIOUS
<1>6. \A j \in S : j <= i
  <2> TAKE j \in S
  <2>1. ~(b - j < b - i)
    BY <1>3, <1>4, <1>5, Zenon
  <2> QED BY <2>1
<1> QED BY <1>6

(* Either s has no event of t, or LastOf is its last one.                  *)
LEMMA LastOfIs ==
  ASSUME NEW t \in Thread, NEW w \in Window, NEW s \in Seq(Frame)
  PROVE  \/ /\ LastOf(t, w, s) = lastEvent[t][w]
            /\ \A i \in 1 .. Len(s) : ~(s[i].kind = "event" /\ s[i].from = t)
         \/ \E i \in 1 .. Len(s) :
              /\ s[i].kind = "event" /\ s[i].from = t /\ LastOf(t, w, s) = s[i].n
              /\ \A j \in 1 .. Len(s) : s[j].kind = "event" /\ s[j].from = t => j <= i
<1> DEFINE mine == {i \in DOMAIN s : s[i].kind = "event" /\ s[i].from = t}
           last == CHOOSE i \in mine : \A j \in mine : j <= i
<1>1. DOMAIN s = 1 .. Len(s) /\ Len(s) \in Nat
  OBVIOUS
<1>2. LastOf(t, w, s) = IF mine = {} THEN lastEvent[t][w] ELSE s[last].n
  BY DEF LastOf
<1>3. CASE mine = {}
  BY <1>1, <1>2, <1>3
<1>4. CASE mine # {}
  <2>1. \E i \in mine : \A j \in mine : j <= i
    BY <1>1, <1>4, Greatest
  <2>2. last \in mine /\ \A j \in mine : j <= last
    BY <2>1, Zenon
  <2> HIDE DEF last
  <2> QED BY <1>1, <1>2, <1>4, <2>2
<1> QED BY <1>3, <1>4

LEMMA LastOfType ==
  ASSUME LastType, NEW t \in Thread, NEW w \in Window, NEW s \in Seq(Frame)
  PROVE  LastOf(t, w, s) \in Nat
<1>1. \A i \in 1 .. Len(s) : s[i].kind = "event" => s[i].n \in Nat
  BY ElementOfSeq, Frames
<1>2. lastEvent[t][w] \in Nat
  BY DEF LastType
<1> QED BY <1>1, <1>2, LastOfIs

LEMMA PageHandlesType ==
  ASSUME LastType, NEW w \in Window, NEW s \in Seq(Frame), PageHandles(w, s)
  PROVE  LastType'
<1>1. \A t \in Thread : [lastEvent[t] EXCEPT ![w] = LastOf(t, w, s)] \in [Window -> Nat]
  BY LastOfType DEF LastType
<1> QED BY <1>1, Zenon DEF PageHandles, LastType

LEMMA DispatchType ==
  ASSUME UiType, NEW w \in Window, NEW f \in Frame, Dispatch(w, f)
  PROVE  UiType'
<1>1. Append(ui[w], f) \in Seq(Frame)
  BY DEF UiType
<1> QED BY <1>1 DEF Dispatch, UiType

-----------------------------------------------------------------------------
(***************************************************************************)
(* Which steps change what.                                                *)
(***************************************************************************)
LEMMA Moves ==
  ASSUME [Next]_vars
  PROVE  /\ \/ UNCHANGED sub
            \/ \E t \in Thread, w \in Window : EmitSends(t, w)
            \/ \E w \in Window : PumpTakes(w)
         /\ \/ UNCHANGED pmsg
            \/ \E w \in Window : PumpTakes(w) \/ PumpChecks(w) \/ PumpDispatches(w)
         /\ \/ UNCHANGED ui
            \/ \E t \in Thread : PushDispatches(t)
            \/ \E w \in Window : \/ PumpDispatches(w) \/ CloseDispatches(w) \/ RunReturns(w)
                                 \/ UiCheck(w) \/ UiEval(w) \/ UiDestroys(w)
         /\ UNCHANGED <<inbox, lastEvent>> \/ \E w \in Window : UiEval(w) \/ Attach(w)
<1> USE DEF lockVars, emitVars, subVars, winVars, pumpVars, uiVars, pageVars
<1>1. CASE UNCHANGED vars
  BY <1>1 DEF vars
<1>2. CASE Quit
  BY <1>2 DEF Quit
<1>3. CASE \E x \in Thread \cup Window : Announce(x)
  BY <1>3 DEF Announce
<1>4. CASE \E t \in Thread : Calls(t)
  BY <1>4, Zenon
     DEF Calls, Lookup, InvokeReturns, InvokeRegisters, Registered, DispatchEvent,
         HandlerReenters, HandlerEmits, HandlerReturns, PushChecks, PushDispatches, OnMessage
<1>5. CASE \E t \in Thread : Emits(t)
  BY <1>5, Zenon DEF Emits, Emit, EmitReturns, EmitSends
<1>6. CASE \E w \in Window : Pump(w)
  BY <1>6, Zenon DEF Pump, PumpTakes, PumpChecks, PumpDispatches, PumpReturns
<1>7. CASE \E w \in Window : Lives(w)
  BY <1>7, Zenon
     DEF Lives, OpenWindow, Subscribe, StopBegins, Unsubscribe, StopMarks, CloseDispatches,
         RunReturns, UserCloses
<1>8. CASE \E w \in Window : UI(w)
  BY <1>8, Zenon DEF UI, UiCheck, UiEval, UiDestroys, Attach
<1> QED BY <1>1, <1>2, <1>3, <1>4, <1>5, <1>6, <1>7, <1>8, Zenon DEF Next

(***************************************************************************)
(* Types.                                                                  *)
(***************************************************************************)
LEMMA ControlStep == ControlType /\ [Next]_vars => ControlType'
<1> SUFFICES ASSUME ControlType, [Next]_vars PROVE ControlType'
  OBVIOUS
<1> USE DEF lockVars, emitVars, subVars, winVars, pumpVars, uiVars, pageVars
<1>1. CASE UNCHANGED vars
  BY <1>1 DEF vars, ControlType
<1>2. CASE Quit
  BY <1>2 DEF Quit, ControlType
<1>3. ASSUME NEW x \in Thread \cup Window, Announce(x) PROVE ControlType'
  BY <1>3 DEF Announce, ControlType
<1>4. ASSUME NEW t \in Thread, Calls(t) PROVE ControlType'
  <2> USE DEF ControlType, ThreadStates
  <2>1. CASE Lookup(t)
    BY <2>1 DEF Lookup
  <2>2. CASE InvokeReturns(t)
    BY <2>2 DEF InvokeReturns
  <2>3. CASE InvokeRegisters(t)
    BY <2>3 DEF InvokeRegisters
  <2>4. CASE Registered(t)
    BY <2>4 DEF Registered, Locked
  <2>5. CASE DispatchEvent(t)
    BY <2>5 DEF DispatchEvent
  <2>6. CASE HandlerReenters(t)
    BY <2>6 DEF HandlerReenters
  <2>7. CASE HandlerEmits(t)
    BY <2>7 DEF HandlerEmits, BeginEmit
  <2>8. CASE HandlerReturns(t)
    BY <2>8 DEF HandlerReturns
  <2>9. CASE PushChecks(t)
    BY <2>9 DEF PushChecks
  <2>10. CASE PushDispatches(t)
    BY <2>10 DEF PushDispatches
  <2>11. ASSUME NEW w \in Window, OnMessage(t, w) PROVE ControlType'
    BY <2>11 DEF OnMessage
  <2> QED BY <1>4, <2>1, <2>2, <2>3, <2>4, <2>5, <2>6, <2>7, <2>8, <2>9, <2>10, <2>11
          DEF Calls
<1>5. ASSUME NEW t \in Thread, Emits(t) PROVE ControlType'
  <2>1. CASE Emit(t)
    BY <2>1 DEF Emit, BeginEmit, ControlType, ThreadStates
  <2>2. CASE EmitReturns(t)
    BY <2>2 DEF EmitReturns, ControlType, ThreadStates
  <2>3. ASSUME NEW w \in Window, EmitSends(t, w) PROVE ControlType'
    BY <2>3 DEF EmitSends, TrySend, ControlType
  <2> QED BY <1>5, <2>1, <2>2, <2>3 DEF Emits
<1>6. ASSUME NEW w \in Window, Pump(w) PROVE ControlType'
  <2> USE DEF ControlType
  <2>1. CASE PumpTakes(w)
    BY <2>1 DEF PumpTakes
  <2>2. CASE PumpChecks(w)
    BY <2>2 DEF PumpChecks
  <2>3. CASE PumpDispatches(w)
    BY <2>3 DEF PumpDispatches
  <2>4. CASE PumpReturns(w)
    BY <2>4 DEF PumpReturns
  <2> QED BY <1>6, <2>1, <2>2, <2>3, <2>4 DEF Pump
<1>7. ASSUME NEW w \in Window, Lives(w) PROVE ControlType'
  <2> USE DEF ControlType
  <2>1. CASE OpenWindow(w)
    BY <2>1 DEF OpenWindow
  <2>2. CASE Subscribe(w)
    BY <2>2 DEF Subscribe, Locked
  <2>3. CASE StopBegins(w)
    BY <2>3 DEF StopBegins
  <2>4. CASE Unsubscribe(w)
    BY <2>4 DEF Unsubscribe, Locked
  <2>5. CASE StopMarks(w)
    BY <2>5 DEF StopMarks
  <2>6. CASE CloseDispatches(w)
    BY <2>6 DEF CloseDispatches
  <2>7. CASE RunReturns(w)
    BY <2>7 DEF RunReturns
  <2>8. CASE UserCloses(w)
    BY <2>8 DEF UserCloses
  <2> QED BY <1>7, <2>1, <2>2, <2>3, <2>4, <2>5, <2>6, <2>7, <2>8 DEF Lives
<1>8. ASSUME NEW w \in Window, UI(w) PROVE ControlType'
  <2> USE DEF ControlType
  <2>1. CASE UiCheck(w)
    BY <2>1 DEF UiCheck
  <2>2. CASE UiEval(w)
    BY <2>2 DEF UiEval
  <2>3. CASE UiDestroys(w)
    BY <2>3 DEF UiDestroys
  <2>4. CASE Attach(w)
    BY <2>4 DEF Attach
  <2> QED BY <1>8, <2>1, <2>2, <2>3, <2>4 DEF UI
<1> QED BY <1>1, <1>2, <1>3, <1>4, <1>5, <1>6, <1>7, <1>8 DEF Next

LEMMA SubTypeStep == ControlType /\ SubType /\ [Next]_vars => SubType'
<1> SUFFICES ASSUME ControlType, SubType, [Next]_vars PROVE SubType'
  OBVIOUS
<1>1. CASE UNCHANGED sub
  BY <1>1 DEF SubType
<1>2. ASSUME NEW t \in Thread, NEW w \in Window, EmitSends(t, w) PROVE SubType'
  <2> DEFINE e == [kind |-> "event", from |-> t, n |-> emitted[t]]
  <2>1. e \in Event
    BY DEF Event, ControlType
  <2> DEFINE longer == Append(sub[w], e)
  <2>2. longer \in Seq(Event) /\ Len(longer) = Len(sub[w]) + 1 /\ Len(sub[w]) \in Nat
    BY <2>1 DEF SubType
  <2>3. TrySend(w, e)
    BY <1>2 DEF EmitSends
  <2> HIDE DEF e
  <2>4. sub' = sub \/ (Len(sub[w]) < SubCap /\ sub' = [sub EXCEPT ![w] = longer])
    BY <2>3 DEF TrySend
  <2> HIDE DEF longer
  <2>5. sub' \in [Window -> Seq(Event)]
    BY <2>2, <2>4 DEF SubType
  <2>6. ASSUME NEW v \in Window PROVE Len(sub'[v]) <= SubCap
    <3>1. CASE sub' = sub
      BY <3>1 DEF SubType
    <3>2. CASE Len(sub[w]) < SubCap /\ sub' = [sub EXCEPT ![w] = longer]
      <4>1. sub'[v] = IF v = w THEN longer ELSE sub[v]
        BY <3>2 DEF SubType
      <4>2. SubCap \in Nat
        BY NativeAssumption
      <4> QED BY <2>2, <3>2, <4>1, <4>2 DEF SubType
    <3> QED BY <2>4, <3>1, <3>2
  <2> QED BY <2>5, <2>6 DEF SubType
<1>3. ASSUME NEW w \in Window, PumpTakes(w) PROVE SubType'
  <2>1. Tail(sub[w]) \in Seq(Event) /\ Len(Tail(sub[w])) = Len(sub[w]) - 1 /\ Len(sub[w]) \in Nat
    BY <1>3, HeadTailProperties DEF PumpTakes, SubType
  <2> QED BY <1>3, <2>1, NativeAssumption DEF PumpTakes, SubType
<1> QED BY <1>1, <1>2, <1>3, Moves

LEMMA PmsgTypeStep == SubType /\ PmsgType /\ [Next]_vars => PmsgType'
<1> SUFFICES ASSUME SubType, PmsgType, [Next]_vars PROVE PmsgType'
  OBVIOUS
<1>1. CASE UNCHANGED pmsg
  BY <1>1 DEF PmsgType
<1>2. ASSUME NEW w \in Window, PumpTakes(w) PROVE PmsgType'
  <2>1. Head(sub[w]) \in Event
    BY <1>2, HeadTailProperties DEF PumpTakes, SubType
  <2> QED BY <1>2, <2>1 DEF PumpTakes, PmsgType
<1>3. ASSUME NEW w \in Window, PumpChecks(w) \/ PumpDispatches(w) PROVE PmsgType'
  BY <1>3 DEF PumpChecks, PumpDispatches, PmsgType
<1> QED BY <1>1, <1>2, <1>3, Moves

LEMMA HeadTailOfUi ==
  ASSUME UiType, NEW w \in Window, ui[w] # <<>>
  PROVE  Head(ui[w]) \in Frame /\ Tail(ui[w]) \in Seq(Frame)
BY HeadTailProperties DEF UiType

LEMMA UiTypeStep ==
  ControlType /\ PmsgType /\ UiType /\ Marked /\ [Next]_vars => UiType'
<1> SUFFICES ASSUME ControlType, PmsgType, UiType, Marked, [Next]_vars PROVE UiType'
  OBVIOUS
<1>1. CASE UNCHANGED ui
  BY <1>1 DEF UiType
<1>2. ASSUME NEW t \in Thread, PushDispatches(t) PROVE UiType'
  <2>1. PICK w \in at[t] : Dispatch(w, Answer)
    BY <1>2 DEF PushDispatches
  <2>2. w \in Window
    BY DEF ControlType
  <2> QED BY <2>1, <2>2, DispatchType, Frames
<1>3. ASSUME NEW w \in Window, PumpDispatches(w) PROVE UiType'
  <2>1. pmsg[w] \in Frame
    BY DEF PmsgType, Frame
  <2> QED BY <1>3, <2>1, DispatchType DEF PumpDispatches
<1>4. ASSUME NEW w \in Window, CloseDispatches(w) PROVE UiType'
  BY <1>4, DispatchType, Frames DEF CloseDispatches
<1>5. ASSUME NEW w \in Window, RunReturns(w) PROVE UiType'
  BY <1>5 DEF RunReturns, UiType
<1>6. ASSUME NEW w \in Window, UiCheck(w) \/ UiEval(w) \/ UiDestroys(w) PROVE UiType'
  <2>1. ui[w] # <<>>
    BY <1>6 DEF UiCheck, UiEval, UiDestroys, Marked
  <2> QED BY <1>6, <2>1, HeadTailOfUi DEF UiCheck, UiEval, UiDestroys, UiType
<1> QED BY <1>1, <1>2, <1>3, <1>4, <1>5, <1>6, Moves

LEMMA PageTypeStep ==
  UiType /\ InboxType /\ LastType /\ Marked /\ [Next]_vars => InboxType' /\ LastType'
<1> SUFFICES ASSUME UiType, InboxType, LastType, Marked, [Next]_vars
             PROVE  InboxType' /\ LastType'
  OBVIOUS
<1>1. CASE UNCHANGED <<inbox, lastEvent>>
  BY <1>1 DEF InboxType, LastType
<1>2. ASSUME NEW w \in Window, UiEval(w) PROVE InboxType' /\ LastType'
  <2>1. Head(ui[w]) \in Frame
    BY <1>2, HeadTailOfUi DEF UiEval, Marked
  <2>2. CASE UNCHANGED <<inbox, lastEvent>>
    BY <2>2 DEF InboxType, LastType
  <2>3. CASE PageHandles(w, <<Head(ui[w])>>) /\ UNCHANGED inbox
    <3>1. <<Head(ui[w])>> \in Seq(Frame)
      BY <2>1
    <3> QED BY <2>3, <3>1, PageHandlesType DEF InboxType
  <2>4. CASE inbox' = [inbox EXCEPT ![w] = Append(@, Head(ui[w]))] /\ UNCHANGED lastEvent
    <3>1. Append(inbox[w], Head(ui[w])) \in Seq(Frame)
      BY <2>1 DEF InboxType
    <3> QED BY <2>4, <3>1 DEF InboxType, LastType
  <2> QED BY <1>2, <2>2, <2>3, <2>4, Zenon DEF UiEval, pageVars
<1>3. ASSUME NEW w \in Window, Attach(w) PROVE InboxType' /\ LastType'
  <2>1. LastType'
    BY <1>3, PageHandlesType DEF Attach, InboxType
  <2> QED BY <1>3, <2>1 DEF Attach, InboxType
<1> QED BY <1>1, <1>2, <1>3, Moves

LEMMA TypeStep == TypeOK /\ Marked /\ [Next]_vars => TypeOK'
<1> SUFFICES ASSUME TypeOK, Marked, [Next]_vars PROVE TypeOK'
  OBVIOUS
<1>1. ControlType' /\ SubType' /\ PmsgType' /\ UiType' /\ InboxType' /\ LastType'
  BY TypeParts, ControlStep, SubTypeStep, PmsgTypeStep, UiTypeStep, PageTypeStep
<1> QED BY <1>1, Zenon
        DEF TypeOK, ControlType, SubType, PmsgType, UiType, InboxType, LastType, Frame

LEMMA InitIInv == Init => IInv
<1> SUFFICES ASSUME Init PROVE IInv
  OBVIOUS
<1>1. ControlType
  BY DEF Init, ControlType, ThreadStates
<1>2. SubType
  BY NativeAssumption DEF Init, SubType
<1>3. PmsgType /\ UiType /\ InboxType /\ LastType
  BY DEF Init, PmsgType, UiType, InboxType, LastType
<1>4. EmitProtected /\ SubsOpen /\ NeverSendsOnClosed /\ EvalsLiveWindow
  BY DEF Init, EmitProtected, SubsOpen, NeverSendsOnClosed, EvalsLiveWindow
<1>5. Marked
  BY DEF Init, Marked
<1> QED BY <1>1, <1>2, <1>3, <1>4, <1>5, TypeParts DEF IInv

-----------------------------------------------------------------------------
(***************************************************************************)
(* Emit never meets a closed subscription.                                 *)
(***************************************************************************)
LEMMA EmitProtectedStep == TypeOK /\ EmitProtected /\ [Next]_vars => EmitProtected'
<1> SUFFICES ASSUME ControlType, EmitProtected, [Next]_vars PROVE EmitProtected'
  BY TypeParts
<1> USE DEF lockVars, emitVars, subVars, winVars, pumpVars, uiVars, pageVars
<1>1. CASE UNCHANGED <<pc, todo, subs, readers>>
  BY <1>1 DEF EmitProtected
<1>2. ASSUME NEW t \in Thread, Calls(t) PROVE EmitProtected'
  <2> USE DEF ControlType, ThreadStates, EmitProtected
  <2>1. CASE Lookup(t)
    BY <2>1 DEF Lookup
  <2>2. CASE InvokeReturns(t)
    BY <2>2 DEF InvokeReturns
  <2>3. CASE InvokeRegisters(t)
    BY <2>3 DEF InvokeRegisters
  <2>4. CASE Registered(t)
    BY <2>4 DEF Registered, Locked
  <2>5. CASE DispatchEvent(t)
    BY <2>5 DEF DispatchEvent
  <2>6. CASE HandlerReenters(t)
    BY <2>6 DEF HandlerReenters
  <2>7. CASE HandlerEmits(t)
    BY <2>7 DEF HandlerEmits, BeginEmit
  <2>8. CASE HandlerReturns(t)
    BY <2>8 DEF HandlerReturns
  <2>9. CASE PushChecks(t)
    BY <2>9 DEF PushChecks
  <2>10. CASE PushDispatches(t)
    BY <2>10 DEF PushDispatches
  <2>11. ASSUME NEW w \in Window, OnMessage(t, w) PROVE EmitProtected'
    BY <2>11 DEF OnMessage
  <2> QED BY <1>2, <2>1, <2>2, <2>3, <2>4, <2>5, <2>6, <2>7, <2>8, <2>9, <2>10, <2>11
          DEF Calls
<1>3. ASSUME NEW t \in Thread, Emits(t) PROVE EmitProtected'
  <2> USE DEF ControlType, ThreadStates, EmitProtected
  <2>1. CASE Emit(t)
    BY <2>1 DEF Emit, BeginEmit
  <2>2. CASE EmitReturns(t)
    BY <2>2 DEF EmitReturns
  <2>3. ASSUME NEW w \in Window, EmitSends(t, w) PROVE EmitProtected'
    BY <2>3 DEF EmitSends
  <2> QED BY <1>3, <2>1, <2>2, <2>3 DEF Emits
<1>4. ASSUME NEW w \in Window, Subscribe(w) PROVE EmitProtected'
  BY <1>4 DEF Subscribe, EmitProtected
<1>5. ASSUME NEW w \in Window, Unsubscribe(w) PROVE EmitProtected'
  BY <1>5 DEF Unsubscribe, Locked, EmitProtected
<1>6. ASSUME NEW w \in Window, Pump(w) \/ UI(w) \/ Lives(w)
      PROVE  UNCHANGED <<pc, todo, subs, readers>> \/ Subscribe(w) \/ Unsubscribe(w)
  BY <1>6, Zenon
     DEF Pump, PumpTakes, PumpChecks, PumpDispatches, PumpReturns, UI, UiCheck, UiEval,
         UiDestroys, Attach, Lives, OpenWindow, StopBegins, StopMarks,
         CloseDispatches, RunReturns, UserCloses
<1>7. CASE Quit \/ \E x \in Thread \cup Window : Announce(x)
  BY <1>1, <1>7, Zenon DEF Quit, Announce
<1>8. CASE UNCHANGED vars
  BY <1>1, <1>8 DEF vars
<1> QED BY <1>1, <1>2, <1>3, <1>4, <1>5, <1>6, <1>7, <1>8, Zenon DEF Next

LEMMA SubsOpenStep == TypeOK /\ SubsOpen /\ [Next]_vars => SubsOpen'
<1> SUFFICES ASSUME ControlType, SubsOpen, [Next]_vars PROVE SubsOpen'
  BY TypeParts
<1> USE DEF lockVars, emitVars, subVars, winVars, pumpVars, uiVars, pageVars
<1>1. CASE UNCHANGED <<win, opener, subs, closed>>
  BY <1>1 DEF SubsOpen
<1>2. ASSUME NEW w \in Window, Lives(w) PROVE SubsOpen'
  <2> USE DEF ControlType, SubsOpen
  <2>1. CASE OpenWindow(w)
    BY <2>1 DEF OpenWindow
  <2>2. CASE Subscribe(w)
    BY <2>2 DEF Subscribe
  <2>3. CASE StopBegins(w)
    BY <2>3 DEF StopBegins
  <2>4. CASE Unsubscribe(w)
    BY <2>4 DEF Unsubscribe
  <2>5. CASE StopMarks(w)
    BY <2>5 DEF StopMarks
  <2>6. CASE CloseDispatches(w)
    BY <2>6 DEF CloseDispatches
  <2>7. CASE RunReturns(w)
    BY <2>7 DEF RunReturns
  <2>8. CASE UserCloses(w)
    BY <2>8 DEF UserCloses
  <2> QED BY <1>2, <2>1, <2>2, <2>3, <2>4, <2>5, <2>6, <2>7, <2>8 DEF Lives
<1>3. ASSUME NEW w \in Window, UiDestroys(w) PROVE SubsOpen'
  BY <1>3 DEF UiDestroys, ControlType, SubsOpen
<1>4. ASSUME NEW t \in Thread, Calls(t) \/ Emits(t) PROVE UNCHANGED <<win, opener, subs, closed>>
  BY <1>4, Zenon
     DEF Calls, Lookup, InvokeReturns, InvokeRegisters, Registered, DispatchEvent,
         HandlerReenters, HandlerEmits, HandlerReturns, PushChecks, PushDispatches, OnMessage,
         Emits, Emit, EmitReturns, EmitSends
<1>5. ASSUME NEW w \in Window, Pump(w) \/ UI(w)
      PROVE  UNCHANGED <<win, opener, subs, closed>> \/ UiDestroys(w)
  BY <1>5, Zenon
     DEF Pump, PumpTakes, PumpChecks, PumpDispatches, PumpReturns, UI, UiCheck, UiEval, Attach
<1>6. CASE Quit \/ \E x \in Thread \cup Window : Announce(x)
  BY <1>1, <1>6, Zenon DEF Quit, Announce
<1>7. CASE UNCHANGED vars
  BY <1>1, <1>7 DEF vars
<1> QED BY <1>1, <1>2, <1>3, <1>4, <1>5, <1>6, <1>7, Zenon DEF Next

LEMMA NoCrashStep ==
  EmitProtected /\ SubsOpen /\ NeverSendsOnClosed /\ [Next]_vars => NeverSendsOnClosed'
<1> SUFFICES ASSUME EmitProtected, SubsOpen, ~crash, [Next]_vars PROVE ~crash'
  BY DEF NeverSendsOnClosed
<1> USE DEF lockVars, emitVars, subVars, winVars, pumpVars, uiVars, pageVars
<1>1. ASSUME NEW t \in Thread, NEW w \in Window, EmitSends(t, w) PROVE ~crash'
  <2>1. ~closed[w]
    BY <1>1 DEF EmitSends, EmitProtected, SubsOpen
  <2> QED BY <1>1, <2>1 DEF EmitSends, TrySend
<1>2. ASSUME NEW t \in Thread, Calls(t) \/ Emits(t)
      PROVE  UNCHANGED crash \/ \E w \in Window : EmitSends(t, w)
  BY <1>2, Zenon
     DEF Calls, Lookup, InvokeReturns, InvokeRegisters, Registered, DispatchEvent,
         HandlerReenters, HandlerEmits, HandlerReturns, PushChecks, PushDispatches, OnMessage,
         Emits, Emit, EmitReturns
<1>3. ASSUME NEW w \in Window, Pump(w) \/ UI(w) \/ Lives(w) PROVE UNCHANGED crash
  BY <1>3, Zenon
     DEF Pump, PumpTakes, PumpChecks, PumpDispatches, PumpReturns, UI, UiCheck, UiEval,
         UiDestroys, Attach, Lives, OpenWindow, Subscribe, StopBegins, Unsubscribe, StopMarks,
         CloseDispatches, RunReturns, UserCloses
<1>4. CASE Quit \/ \E x \in Thread \cup Window : Announce(x)
  BY <1>4, Zenon DEF Quit, Announce
<1>5. CASE UNCHANGED vars
  BY <1>5 DEF vars
<1> QED BY <1>1, <1>2, <1>3, <1>4, <1>5, Zenon DEF Next

-----------------------------------------------------------------------------
(***************************************************************************)
(* No frame is evaluated in a window the program has destroyed.            *)
(***************************************************************************)

(* The closures of a window, once f is dispatched to it.                   *)
LEMMA AfterDispatch ==
  ASSUME UiType, NEW w \in Window, NEW f \in Frame, Dispatch(w, f), NEW v \in Window
  PROVE  \/ ui'[v] = ui[v]
         \/ /\ v = w /\ ~(win[w] = "gone" /\ ~userClosed[w])
            /\ ui'[v] = Append(ui[v], f) /\ Len(ui'[v]) = Len(ui[v]) + 1
            /\ ui'[v][Len(ui[v]) + 1] = f
            /\ \A i \in 1 .. Len(ui[v]) : ui'[v][i] = ui[v][i]
            /\ Len(ui[v]) \in Nat
<1>1. ui[w] \in Seq(Frame)
  BY DEF UiType
<1>2. /\ Len(Append(ui[w], f)) = Len(ui[w]) + 1 /\ Append(ui[w], f)[Len(ui[w]) + 1] = f
      /\ \A i \in 1 .. Len(ui[w]) : Append(ui[w], f)[i] = ui[w][i]
      /\ Len(ui[w]) \in Nat
  BY <1>1
<1> QED BY <1>1, <1>2 DEF Dispatch, UiType

(* Marked, for one window whose session and thread stay as they are.       *)
LEMMA MarkedByDispatch ==
  ASSUME UiType, Marked, NEW w \in Window, NEW f \in Frame, f.kind # "destroy", Dispatch(w, f),
         UNCHANGED <<alive, win, opener, userClosed, uipc>>
  PROVE  Marked'
<1> SUFFICES ASSUME NEW v \in Window
             PROVE  /\ \A i \in 1 .. Len(ui'[v]) : ui'[v][i].kind = "destroy" => opener[v] = "closed"
                    /\ win[v] = "gone" /\ ~userClosed[v] => ~alive[v] \/ ui'[v] = <<>>
                    /\ uipc[v] = "eval" => ui'[v] # <<>> /\ ui'[v][1].kind # "destroy"
  BY DEF Marked
<1>1. CASE ui'[v] = ui[v]
  BY <1>1 DEF Marked
<1>2. CASE ui'[v] # ui[v]
  <2>1. /\ ~(win[v] = "gone" /\ ~userClosed[v])
        /\ Len(ui'[v]) = Len(ui[v]) + 1 /\ ui'[v][Len(ui[v]) + 1] = f
        /\ \A i \in 1 .. Len(ui[v]) : ui'[v][i] = ui[v][i]
        /\ Len(ui[v]) \in Nat
    BY <1>2, AfterDispatch
  <2>2. ui[v] # <<>> => Len(ui[v]) # 0
    BY DEF UiType
  <2>3. ui'[v] # <<>>
    BY <2>1
  <2>4. ASSUME NEW i \in 1 .. Len(ui'[v]), ui'[v][i].kind = "destroy" PROVE opener[v] = "closed"
    <3>1. i # Len(ui[v]) + 1
      BY <2>1, <2>4
    <3>2. i \in 1 .. Len(ui[v])
      BY <2>1, <3>1
    <3> QED BY <2>1, <2>4, <3>2 DEF Marked
  <2>5. ASSUME uipc[v] = "eval" PROVE ui'[v][1].kind # "destroy"
    <3>1. ui[v] # <<>> /\ ui[v][1].kind # "destroy"
      BY <2>5 DEF Marked
    <3>2. 1 \in 1 .. Len(ui[v])
      BY <2>1, <2>2, <3>1
    <3> QED BY <2>1, <3>1, <3>2
  <2> QED BY <2>1, <2>3, <2>4, <2>5
<1> QED BY <1>1, <1>2

(* Running a closure, or dropping it, leaves the rest of the queue.        *)
LEMMA RestOfUi ==
  ASSUME UiType, NEW w \in Window, ui[w] # <<>>
  PROVE  /\ Head(ui[w]) = ui[w][1]
         /\ Len(ui[w]) \in Nat \ {0} /\ Len(Tail(ui[w])) = Len(ui[w]) - 1
         /\ \A i \in 1 .. Len(Tail(ui[w])) : Tail(ui[w])[i] = ui[w][i + 1]
BY DEF UiType

LEMMA MarkedStep == TypeOK /\ SubsOpen /\ Marked /\ [Next]_vars => Marked'
<1> SUFFICES ASSUME ControlType, PmsgType, UiType, SubsOpen, Marked, [Next]_vars PROVE Marked'
  BY TypeParts
<1> USE DEF lockVars, emitVars, subVars, winVars, pumpVars, uiVars, pageVars
<1>1. CASE UNCHANGED <<alive, win, opener, userClosed, ui, uipc>>
  BY <1>1 DEF Marked
<1>2. ASSUME NEW t \in Thread, PushDispatches(t) PROVE Marked'
  <2>1. PICK w \in at[t] : Dispatch(w, Answer)
    BY <1>2 DEF PushDispatches
  <2>2. w \in Window /\ Answer \in Frame /\ Answer.kind # "destroy"
    BY Frames DEF ControlType, Answer
  <2>3. UNCHANGED <<alive, win, opener, userClosed, uipc>>
    BY <1>2 DEF PushDispatches
  <2> QED BY <2>1, <2>2, <2>3, MarkedByDispatch
<1>3. ASSUME NEW t \in Thread, Calls(t) \/ Emits(t)
      PROVE  UNCHANGED <<alive, win, opener, userClosed, ui, uipc>> \/ PushDispatches(t)
  BY <1>3, Zenon
     DEF Calls, Lookup, InvokeReturns, InvokeRegisters, Registered, DispatchEvent,
         HandlerReenters, HandlerEmits, HandlerReturns, PushChecks, OnMessage,
         Emits, Emit, EmitReturns, EmitSends
<1>4. ASSUME NEW w \in Window, PumpDispatches(w) PROVE Marked'
  <2>1. pmsg[w] \in Frame /\ pmsg[w].kind # "destroy"
    BY DEF PmsgType, Frame, Event, Answer
  <2>2. UNCHANGED <<alive, win, opener, userClosed, uipc>> /\ Dispatch(w, pmsg[w])
    BY <1>4 DEF PumpDispatches
  <2> QED BY <2>1, <2>2, MarkedByDispatch
<1>5. ASSUME NEW w \in Window, Pump(w)
      PROVE  UNCHANGED <<alive, win, opener, userClosed, ui, uipc>> \/ PumpDispatches(w)
  BY <1>5, Zenon DEF Pump, PumpTakes, PumpChecks, PumpReturns
<1>6. ASSUME NEW w \in Window, Lives(w) PROVE Marked'
  <2> USE DEF ControlType, Marked
  <2>1. CASE OpenWindow(w)
    BY <2>1 DEF OpenWindow, SubsOpen
  <2>2. CASE Subscribe(w)
    BY <2>2 DEF Subscribe
  <2>3. CASE StopBegins(w)
    BY <2>3 DEF StopBegins
  <2>4. CASE Unsubscribe(w)
    BY <2>4 DEF Unsubscribe
  <2>5. CASE StopMarks(w)
    BY <2>5 DEF StopMarks
  <2>6. CASE CloseDispatches(w)
    <3>1. Dispatch(w, Destroy) /\ opener' = [opener EXCEPT ![w] = "closed"]
          /\ UNCHANGED <<alive, win, userClosed, uipc>> /\ opener[w] = "destroying"
      BY <2>6 DEF CloseDispatches
    <3> SUFFICES ASSUME NEW v \in Window
                 PROVE  /\ opener'[v] = "closed" => ~alive[v]
                        /\ \A i \in 1 .. Len(ui'[v]) :
                             ui'[v][i].kind = "destroy" => opener'[v] = "closed"
                        /\ win[v] = "gone" /\ ~userClosed[v] => ~alive[v] \/ ui'[v] = <<>>
                        /\ uipc[v] = "eval" => ui'[v] # <<>> /\ ui'[v][1].kind # "destroy"
      BY <3>1
    <3>2. CASE v # w
      <4>1. ui'[v] = ui[v] /\ opener'[v] = opener[v]
        BY <3>1, <3>2, AfterDispatch, Frames
      <4> QED BY <4>1
    <3>3. CASE v = w
      <4>1. opener'[v] = "closed" /\ ~alive[v]
        BY <3>1, <3>3
      <4>2. uipc[v] = "eval" => ui'[v] # <<>> /\ ui'[v][1].kind # "destroy"
        <5>1. CASE ui'[v] = ui[v]
          BY <5>1
        <5>2. CASE ui'[v] # ui[v]
          <6>1. /\ Len(ui'[v]) = Len(ui[v]) + 1 /\ Len(ui[v]) \in Nat
                /\ \A i \in 1 .. Len(ui[v]) : ui'[v][i] = ui[v][i]
            BY <3>1, <5>2, AfterDispatch, Frames
          <6>2. ui[v] # <<>> => Len(ui[v]) # 0
            BY DEF UiType
          <6>3. ui'[v] # <<>>
            BY <6>1
          <6>4. uipc[v] = "eval" => 1 \in 1 .. Len(ui[v])
            BY <6>1, <6>2
          <6>5. uipc[v] = "eval" => ui[v][1].kind # "destroy"
            OBVIOUS
          <6> HIDE DEF Marked
          <6> QED BY <6>1, <6>3, <6>4, <6>5
        <5> QED BY <5>1, <5>2
      <4> QED BY <4>1, <4>2
    <3> QED BY <3>2, <3>3
  <2>7. CASE RunReturns(w)
    BY <2>7 DEF RunReturns, UiType
  <2>8. CASE UserCloses(w)
    BY <2>8 DEF UserCloses
  <2> QED BY <1>6, <2>1, <2>2, <2>3, <2>4, <2>5, <2>6, <2>7, <2>8 DEF Lives
<1>7. ASSUME NEW w \in Window, UI(w) PROVE Marked'
  <2>1. CASE Attach(w)
    BY <1>1, <2>1 DEF Attach
  <2>2. CASE UiCheck(w) \/ UiEval(w) \/ UiDestroys(w)
    <3>1. ui[w] # <<>>
      BY <2>2 DEF UiCheck, UiEval, UiDestroys, Marked
    <3>2. /\ Head(ui[w]) = ui[w][1]
          /\ Len(ui[w]) \in Nat \ {0} /\ Len(Tail(ui[w])) = Len(ui[w]) - 1
          /\ \A i \in 1 .. Len(Tail(ui[w])) : Tail(ui[w])[i] = ui[w][i + 1]
      BY <3>1, RestOfUi
    <3> DEFINE rest == Tail(ui[w])
    <3>3. \A i \in 1 .. Len(rest) : rest[i].kind = "destroy" => opener[w] = "closed"
      BY <3>2 DEF Marked
    <3>4. UNCHANGED <<alive, opener, userClosed>>
      BY <2>2 DEF UiCheck, UiEval, UiDestroys
    <3>5. CASE UiCheck(w)
      <4>1. CASE alive[w] /\ uipc' = [uipc EXCEPT ![w] = "eval"] /\ UNCHANGED <<ui, win>>
        <5>1. ui[w][1].kind # "destroy"
          BY <3>2, <3>5 DEF UiCheck
        <5> QED BY <3>1, <3>4, <4>1, <5>1 DEF Marked, ControlType
      <4>2. CASE ui' = [ui EXCEPT ![w] = rest] /\ ~alive[w] /\ UNCHANGED <<uipc, win>>
        <5>1. uipc[w] = "loop"
          BY <3>5 DEF UiCheck
        <5> HIDE DEF rest
        <5> QED BY <3>3, <3>4, <4>2, <5>1 DEF Marked, UiType
      <4> QED BY <3>5, <4>1, <4>2, Zenon DEF UiCheck
    <3>6. CASE UiEval(w)
      <4>1. ui' = [ui EXCEPT ![w] = rest] /\ uipc' = [uipc EXCEPT ![w] = "loop"]
            /\ UNCHANGED win /\ uipc[w] = "eval"
        BY <3>6 DEF UiEval
      <4> HIDE DEF rest
      <4> QED BY <3>3, <3>1, <3>4, <4>1 DEF Marked, UiType, ControlType
    <3>7. CASE UiDestroys(w)
      <4>1. ui' = [ui EXCEPT ![w] = rest] /\ win' = [win EXCEPT ![w] = "gone"]
            /\ UNCHANGED uipc /\ uipc[w] = "loop" /\ ui[w][1].kind = "destroy"
        BY <3>2, <3>7 DEF UiDestroys
      <4>2. ~alive[w]
        BY <3>2, <4>1 DEF Marked
      <4> HIDE DEF rest
      <4> QED BY <3>3, <3>1, <3>4, <4>1, <4>2 DEF Marked, UiType, ControlType
    <3> QED BY <2>2, <3>5, <3>6, <3>7
  <2> QED BY <1>7, <2>1, <2>2 DEF UI
<1>8. CASE Quit \/ \E x \in Thread \cup Window : Announce(x)
  BY <1>1, <1>8, Zenon DEF Quit, Announce
<1>9. CASE UNCHANGED vars
  BY <1>1, <1>9 DEF vars
<1> QED BY <1>1, <1>2, <1>3, <1>4, <1>5, <1>6, <1>7, <1>8, <1>9, Zenon DEF Next

LEMMA EvalsLiveStep == TypeOK /\ Marked /\ EvalsLiveWindow /\ [Next]_vars => EvalsLiveWindow'
<1> SUFFICES ASSUME ControlType, Marked, EvalsLiveWindow, [Next]_vars PROVE EvalsLiveWindow'
  BY TypeParts
<1> USE DEF lockVars, emitVars, subVars, winVars, pumpVars, uiVars, pageVars
<1>1. CASE UNCHANGED <<uipc, win, userClosed>>
  BY <1>1 DEF EvalsLiveWindow
<1>2. ASSUME NEW w \in Window, UiCheck(w) PROVE EvalsLiveWindow'
  <2>1. uipc' = uipc \/ (alive[w] /\ ui[w] # <<>> /\ uipc' = [uipc EXCEPT ![w] = "eval"])
    BY <1>2 DEF UiCheck
  <2>2. UNCHANGED <<win, userClosed>>
    BY <1>2 DEF UiCheck
  <2>3. alive[w] /\ ui[w] # <<>> => win[w] = "open" \/ userClosed[w]
    BY DEF Marked, ControlType
  <2> QED BY <2>1, <2>2, <2>3 DEF EvalsLiveWindow, ControlType
<1>3. ASSUME NEW w \in Window, UiEval(w) PROVE EvalsLiveWindow'
  BY <1>3 DEF UiEval, EvalsLiveWindow, ControlType
<1>4. ASSUME NEW w \in Window, UiDestroys(w) \/ RunReturns(w) PROVE EvalsLiveWindow'
  BY <1>4 DEF UiDestroys, RunReturns, EvalsLiveWindow, ControlType
<1>5. ASSUME NEW w \in Window, OpenWindow(w) \/ UserCloses(w) PROVE EvalsLiveWindow'
  BY <1>5 DEF OpenWindow, UserCloses, EvalsLiveWindow, ControlType
<1>6. ASSUME NEW t \in Thread, Calls(t) \/ Emits(t) PROVE UNCHANGED <<uipc, win, userClosed>>
  BY <1>6, Zenon
     DEF Calls, Lookup, InvokeReturns, InvokeRegisters, Registered, DispatchEvent,
         HandlerReenters, HandlerEmits, HandlerReturns, PushChecks, PushDispatches, OnMessage,
         Emits, Emit, EmitReturns, EmitSends
<1>7. ASSUME NEW w \in Window, Pump(w) \/ UI(w) \/ Lives(w)
      PROVE  \/ UNCHANGED <<uipc, win, userClosed>>
             \/ UiCheck(w) \/ UiEval(w) \/ UiDestroys(w) \/ RunReturns(w) \/ OpenWindow(w)
             \/ UserCloses(w)
  BY <1>7, Zenon
     DEF Pump, PumpTakes, PumpChecks, PumpDispatches, PumpReturns, UI, Attach, Lives, Subscribe,
         StopBegins, Unsubscribe, StopMarks, CloseDispatches
<1>8. CASE Quit \/ \E x \in Thread \cup Window : Announce(x)
  BY <1>1, <1>8, Zenon DEF Quit, Announce
<1>9. CASE UNCHANGED vars
  BY <1>1, <1>9 DEF vars
<1> QED BY <1>1, <1>2, <1>3, <1>4, <1>5, <1>6, <1>7, <1>8, <1>9, Zenon DEF Next

-----------------------------------------------------------------------------

LEMMA StepIInv == IInv /\ [Next]_vars => IInv'
BY TypeStep, EmitProtectedStep, SubsOpenStep, NoCrashStep, MarkedStep, EvalsLiveStep, Zenon
   DEF IInv

LEMMA Invariance == Spec => []IInv
BY InitIInv, StepIInv, PTL DEF Spec

-----------------------------------------------------------------------------
(***************************************************************************)
(* The events of a goroutine reach each page in order. A window's pipeline *)
(* is its inbox, its closures, the event its pump carries, and its         *)
(* subscription. What is further on in it was emitted earlier.             *)
(***************************************************************************)
Of(t, s, i) == s[i].kind = "event" /\ s[i].from = t

Rising(t, s) ==
  \A i, j \in 1 .. Len(s) : i < j /\ Of(t, s, i) /\ Of(t, s, j) => s[i].n < s[j].n

Ahead(t, a, b) ==
  \A i \in 1 .. Len(a), j \in 1 .. Len(b) : Of(t, a, i) /\ Of(t, b, j) => a[i].n < b[j].n

Within(t, s, lo, hi) ==
  \A i \in 1 .. Len(s) : Of(t, s, i) => lo < s[i].n /\ s[i].n <= hi

\* The last event of t that may be in the pipeline of w: Emit has yet to offer
\* its event to the windows of todo[t].
Offered(t, w) == IF w \in todo[t] THEN emitted[t] - 1 ELSE emitted[t]

Ordered(t, i, u, p, s, lo, hi) ==
  /\ lo <= hi
  /\ Rising(t, i) /\ Rising(t, u) /\ Rising(t, s)
  /\ Within(t, i, lo, hi) /\ Within(t, u, lo, hi) /\ Within(t, p, lo, hi) /\ Within(t, s, lo, hi)
  /\ Ahead(t, i, u) /\ Ahead(t, i, p) /\ Ahead(t, i, s)
  /\ Ahead(t, u, p) /\ Ahead(t, u, s) /\ Ahead(t, p, s)

OrderInv ==
  /\ \A w \in Window : attached[w] => inbox[w] = <<>>
  /\ \A t \in Thread, w \in Window :
       Ordered(t, inbox[w], ui[w], <<pmsg[w]>>, sub[w], lastEvent[t][w], Offered(t, w))

(* What a sequence without its head, or with one more element, keeps.      *)
LEMMA TailKeeps ==
  ASSUME NEW t, NEW s \in Seq(Frame), s # <<>>, NEW b, NEW lo, NEW hi
  PROVE  /\ Rising(t, s) => Rising(t, Tail(s)) /\ Ahead(t, <<Head(s)>>, Tail(s))
         /\ Within(t, s, lo, hi) => Within(t, Tail(s), lo, hi) /\ Within(t, <<Head(s)>>, lo, hi)
         /\ Ahead(t, s, b) => Ahead(t, Tail(s), b) /\ Ahead(t, <<Head(s)>>, b)
         /\ Ahead(t, b, s) => Ahead(t, b, Tail(s)) /\ Ahead(t, b, <<Head(s)>>)
<1> DEFINE h == <<Head(s)>>
           r == Tail(s)
<1>1. /\ Len(s) \in Nat \ {0} /\ Len(r) = Len(s) - 1
      /\ \A i \in 1 .. Len(r) : r[i] = s[i + 1] /\ i + 1 \in 1 .. Len(s)
      /\ 1 \in 1 .. Len(s)
  OBVIOUS
<1>2. Len(h) = 1 /\ h[1] = s[1]
  OBVIOUS
<1>3. /\ \A i \in 1 .. Len(r) : Of(t, r, i) = Of(t, s, i + 1)
      /\ Of(t, h, 1) = Of(t, s, 1)
  BY <1>1, <1>2 DEF Of
<1> HIDE DEF h, r
<1>4. ASSUME Rising(t, s) PROVE Rising(t, r) /\ Ahead(t, h, r)
  <2>1. Rising(t, r)
    <3> SUFFICES ASSUME NEW i \in 1 .. Len(r), NEW j \in 1 .. Len(r),
                        i < j, Of(t, r, i), Of(t, r, j)
                 PROVE  r[i].n < r[j].n
      BY DEF Rising
    <3>1. i + 1 \in 1 .. Len(s) /\ j + 1 \in 1 .. Len(s) /\ i + 1 < j + 1
      BY <1>1
    <3>2. Of(t, s, i + 1) /\ Of(t, s, j + 1)
      BY <1>3
    <3>3. s[i + 1].n < s[j + 1].n
      BY <1>4, <3>1, <3>2 DEF Rising
    <3> QED BY <1>1, <3>3
  <2>2. Ahead(t, h, r)
    <3> SUFFICES ASSUME NEW j \in 1 .. Len(r), Of(t, h, 1), Of(t, r, j)
                 PROVE  h[1].n < r[j].n
      BY <1>2 DEF Ahead
    <3>1. j + 1 \in 1 .. Len(s) /\ 1 < j + 1
      BY <1>1
    <3>2. s[1].n < s[j + 1].n
      BY <1>1, <1>3, <1>4, <3>1 DEF Rising
    <3> QED BY <1>1, <1>2, <3>2
  <2> QED BY <2>1, <2>2
<1>5. Within(t, s, lo, hi) => Within(t, r, lo, hi) /\ Within(t, h, lo, hi)
  BY <1>1, <1>2, <1>3 DEF Within
<1>6. Ahead(t, s, b) => Ahead(t, r, b) /\ Ahead(t, h, b)
  <2>1. Ahead(t, s, b) => Ahead(t, r, b)
    BY <1>1, <1>3 DEF Ahead
  <2>2. Ahead(t, s, b) => Ahead(t, h, b)
    BY <1>1, <1>2, <1>3 DEF Ahead
  <2> QED BY <2>1, <2>2
<1>7. Ahead(t, b, s) => Ahead(t, b, r) /\ Ahead(t, b, h)
  <2>1. Ahead(t, b, s) => Ahead(t, b, r)
    BY <1>1, <1>3 DEF Ahead
  <2>2. Ahead(t, b, s) => Ahead(t, b, h)
    BY <1>1, <1>2, <1>3 DEF Ahead
  <2> QED BY <2>1, <2>2
<1> QED BY <1>4, <1>5, <1>6, <1>7 DEF h, r

LEMMA AppendKeeps ==
  ASSUME NEW t, NEW s \in Seq(Frame), NEW f \in Frame, NEW b, NEW lo, NEW hi
  PROVE  /\ Rising(t, s) /\ Ahead(t, s, <<f>>) => Rising(t, Append(s, f))
         /\ Within(t, s, lo, hi) /\ Within(t, <<f>>, lo, hi) => Within(t, Append(s, f), lo, hi)
         /\ Ahead(t, s, b) /\ Ahead(t, <<f>>, b) => Ahead(t, Append(s, f), b)
         /\ Ahead(t, b, s) /\ Ahead(t, b, <<f>>) => Ahead(t, b, Append(s, f))
<1> DEFINE h == <<f>>
           r == Append(s, f)
<1>1. /\ Len(s) \in Nat /\ Len(r) = Len(s) + 1
      /\ \A i \in 1 .. Len(s) : r[i] = s[i]
      /\ r[Len(r)] = f
  OBVIOUS
<1>2. Len(h) = 1 /\ h[1] = f
  OBVIOUS
<1>3. /\ \A i \in 1 .. Len(s) : Of(t, r, i) = Of(t, s, i)
      /\ Of(t, r, Len(r)) = Of(t, h, 1)
      /\ \A i \in 1 .. Len(r) : i \in 1 .. Len(s) \/ i = Len(r)
  BY <1>1, <1>2 DEF Of
<1> HIDE DEF h, r
<1>4. ASSUME Rising(t, s), Ahead(t, s, h) PROVE Rising(t, r)
  <2> SUFFICES ASSUME NEW i \in 1 .. Len(r), NEW j \in 1 .. Len(r),
                      i < j, Of(t, r, i), Of(t, r, j)
               PROVE  r[i].n < r[j].n
    BY DEF Rising
  <2>1. i \in 1 .. Len(s) /\ Of(t, s, i)
    BY <1>1, <1>3
  <2>2. CASE j \in 1 .. Len(s)
    BY <1>1, <1>3, <1>4, <2>1, <2>2 DEF Rising
  <2>3. CASE j = Len(r)
    BY <1>1, <1>2, <1>3, <1>4, <2>1, <2>3 DEF Ahead
  <2> QED BY <1>3, <2>2, <2>3
<1>5. Within(t, s, lo, hi) /\ Within(t, h, lo, hi) => Within(t, r, lo, hi)
  BY <1>1, <1>2, <1>3 DEF Within
<1>6. Ahead(t, s, b) /\ Ahead(t, h, b) => Ahead(t, r, b)
  BY <1>1, <1>2, <1>3 DEF Ahead
<1>7. Ahead(t, b, s) /\ Ahead(t, b, h) => Ahead(t, b, r)
  BY <1>1, <1>2, <1>3 DEF Ahead
<1> QED BY <1>4, <1>5, <1>6, <1>7 DEF h, r

(* A frame that is not an event of t, and an empty sequence, are in        *)
(* order with everything.                                                  *)
LEMMA NothingOfT ==
  ASSUME NEW t, NEW b, NEW lo, NEW hi
  PROVE  /\ Rising(t, <<>>) /\ Within(t, <<>>, lo, hi) /\ Ahead(t, <<>>, b) /\ Ahead(t, b, <<>>)
         /\ \A f \in Frame : ~(f.kind = "event" /\ f.from = t) =>
              Within(t, <<f>>, lo, hi) /\ Ahead(t, <<f>>, b) /\ Ahead(t, b, <<f>>)
BY DEF Rising, Within, Ahead, Of

(***************************************************************************)
(* The moves of a pipeline. Each keeps it in order.                        *)
(***************************************************************************)
LEMMA Advances ==
  ASSUME NEW t, NEW i \in Seq(Frame), NEW u \in Seq(Frame), NEW f \in Frame,
         NEW s \in Seq(Frame), NEW lo \in Nat, NEW hi \in Int,
         Ordered(t, i, u, <<f>>, s, lo, hi)
  PROVE  \* the pump takes the next event
         /\ s # <<>> => Ordered(t, i, u, <<Head(s)>>, Tail(s), lo, hi)
         \* it forgets the one it has
         /\ Ordered(t, i, u, <<Answer>>, s, lo, hi)
         \* or dispatches it
         /\ Ordered(t, i, Append(u, f), <<Answer>>, s, lo, hi)
         \* another frame is dispatched
         /\ \A g \in {Answer, Destroy} : Ordered(t, i, Append(u, g), <<f>>, s, lo, hi)
         \* closures are dropped, one or all
         /\ u # <<>> => Ordered(t, i, Tail(u), <<f>>, s, lo, hi)
         /\ Ordered(t, i, <<>>, <<f>>, s, lo, hi)
         \* a frame is kept for the page
         /\ u # <<>> => Ordered(t, Append(i, Head(u)), Tail(u), <<f>>, s, lo, hi)
<1> USE DEF Ordered
<1>1. s # <<>> => Ordered(t, i, u, <<Head(s)>>, Tail(s), lo, hi)
  BY TailKeeps, Zenon
<1>2. \A g \in {Answer, Destroy} : g \in Frame /\ ~(g.kind = "event" /\ g.from = t)
  BY Frames DEF Answer, Destroy
<1>3. Ordered(t, i, u, <<Answer>>, s, lo, hi)
  BY <1>2, NothingOfT, Zenon
<1>4. Ordered(t, i, Append(u, f), <<Answer>>, s, lo, hi)
  BY <1>2, NothingOfT, AppendKeeps, Zenon
<1>5. \A g \in {Answer, Destroy} : Ordered(t, i, Append(u, g), <<f>>, s, lo, hi)
  BY <1>2, NothingOfT, AppendKeeps, Zenon
<1>6. u # <<>> => Ordered(t, i, Tail(u), <<f>>, s, lo, hi)
  BY TailKeeps, Zenon
<1>7. Ordered(t, i, <<>>, <<f>>, s, lo, hi)
  BY NothingOfT, Zenon
<1>8. ASSUME u # <<>> PROVE Ordered(t, Append(i, Head(u)), Tail(u), <<f>>, s, lo, hi)
  <2>1. Head(u) \in Frame
    BY <1>8
  <2>2. /\ Rising(t, Tail(u)) /\ Ahead(t, <<Head(u)>>, Tail(u))
        /\ Within(t, Tail(u), lo, hi) /\ Within(t, <<Head(u)>>, lo, hi)
        /\ Ahead(t, Tail(u), s) /\ Ahead(t, <<Head(u)>>, s)
        /\ Ahead(t, Tail(u), <<f>>) /\ Ahead(t, <<Head(u)>>, <<f>>)
        /\ Ahead(t, i, Tail(u)) /\ Ahead(t, i, <<Head(u)>>)
    BY <1>8, TailKeeps, Zenon
  <2> QED BY <2>1, <2>2, AppendKeeps, Zenon
<1> QED BY <1>1, <1>3, <1>4, <1>5, <1>6, <1>7, <1>8

(* The page has seen the events of t up to n, those in its inbox or at the *)
(* head of its closures; later ones are ahead of it.                       *)
LEMMA Handled ==
  ASSUME NEW t, NEW i \in Seq(Frame), NEW u \in Seq(Frame), NEW f \in Frame,
         NEW s \in Seq(Frame), NEW lo \in Nat, NEW hi \in Int,
         Ordered(t, i, u, <<f>>, s, lo, hi),
         NEW k \in 1 .. Len(i), Of(t, i, k), \A j \in 1 .. Len(i) : Of(t, i, j) => j <= k
  PROVE  /\ lo < i[k].n /\ i[k].n <= hi
         /\ i[k].n \in Nat => Ordered(t, <<>>, u, <<f>>, s, i[k].n, hi)
<1>1. lo < i[k].n /\ i[k].n <= hi
  BY DEF Ordered, Within
<1>2. Within(t, u, i[k].n, hi) /\ Within(t, <<f>>, i[k].n, hi) /\ Within(t, s, i[k].n, hi)
  BY DEF Ordered, Within, Ahead
<1>3. i[k].n \in Nat => Ordered(t, <<>>, u, <<f>>, s, i[k].n, hi)
  BY <1>1, <1>2, NothingOfT DEF Ordered
<1> QED BY <1>1, <1>3

(* A new event is later than all that was offered before it.               *)
LEMMA Sends ==
  ASSUME NEW t, NEW i, NEW u, NEW p, NEW s \in Seq(Frame), NEW e \in Event,
         NEW lo \in Nat, NEW hi \in Int,
         \A q \in Seq(Frame) : \A j \in 1 .. Len(q) : Of(t, q, j) => q[j].n \in Nat,
         i \in Seq(Frame), u \in Seq(Frame), p \in Seq(Frame),
         e.n = hi + 1, Ordered(t, i, u, p, s, lo, hi)
  PROVE  /\ Ordered(t, i, u, p, s, lo, hi + 1)
         /\ Ordered(t, i, u, p, Append(s, e), lo, hi + 1)
<1>1. ASSUME NEW q \in Seq(Frame), Within(t, q, lo, hi)
      PROVE  Within(t, q, lo, hi + 1) /\ Ahead(t, q, <<e>>)
  <2>1. \A j \in 1 .. Len(q) : Of(t, q, j) => q[j].n \in Nat
    OBVIOUS
  <2>2. Len(<<e>>) = 1 /\ <<e>>[1] = e
    OBVIOUS
  <2> QED BY <1>1, <2>1, <2>2 DEF Within, Ahead
<1>2. Within(t, <<e>>, lo, hi + 1)
  BY DEF Within, Ordered
<1>3. Ordered(t, i, u, p, s, lo, hi + 1)
  BY <1>1 DEF Ordered
<1>4. e \in Frame
  BY DEF Frame
<1>5. Ahead(t, i, <<e>>) /\ Ahead(t, u, <<e>>) /\ Ahead(t, p, <<e>>) /\ Ahead(t, s, <<e>>)
  BY <1>1 DEF Ordered
<1>6. Ordered(t, i, u, p, Append(s, e), lo, hi + 1)
  BY <1>2, <1>3, <1>4, <1>5, AppendKeeps, Zenon DEF Ordered
<1> QED BY <1>3, <1>6

(* What the steps below use of a window's pipeline.                        *)
LEMMA Pipeline ==
  ASSUME TypeOK, OrderInv, NEW t \in Thread, NEW w \in Window
  PROVE  /\ inbox[w] \in Seq(Frame) /\ ui[w] \in Seq(Frame) /\ sub[w] \in Seq(Frame)
         /\ pmsg[w] \in Frame /\ lastEvent[t][w] \in Nat /\ Offered(t, w) \in Int
         /\ Ordered(t, inbox[w], ui[w], <<pmsg[w]>>, sub[w], lastEvent[t][w], Offered(t, w))
<1>1. inbox[w] \in Seq(Frame) /\ ui[w] \in Seq(Frame) /\ lastEvent[t][w] \in Nat
  BY TypeParts DEF InboxType, UiType, LastType
<1>2. pmsg[w] \in Frame
  BY TypeParts DEF PmsgType, Frame
<1>3. sub[w] \in Seq(Frame)
  BY TypeParts, SeqMonotonic DEF SubType, Frame
<1>4. Offered(t, w) \in Int
  BY TypeParts DEF ControlType, Offered
<1> QED BY <1>1, <1>2, <1>3, <1>4 DEF OrderInv

(* It stays in order when nothing of it changes,                           *)
LEMMA SamePipeline ==
  ASSUME OrderInv, NEW t \in Thread, NEW w \in Window,
         inbox'[w] = inbox[w], ui'[w] = ui[w], pmsg'[w] = pmsg[w], sub'[w] = sub[w],
         lastEvent'[t][w] = lastEvent[t][w], Offered(t, w)' = Offered(t, w)
  PROVE  Ordered(t, inbox'[w], ui'[w], <<pmsg'[w]>>, sub'[w], lastEvent'[t][w], Offered(t, w)')
BY DEF OrderInv

(* and the pipelines of all windows do when those of w do, and nothing of  *)
(* the others changes.                                                     *)
LEMMA OneWindow ==
  ASSUME TypeOK, OrderInv, NEW w \in Window,
         UNCHANGED <<todo, emitted>>,
         \A v \in Window \ {w} : /\ inbox'[v] = inbox[v] /\ ui'[v] = ui[v]
                                 /\ pmsg'[v] = pmsg[v] /\ sub'[v] = sub[v]
                                 /\ \A t \in Thread : lastEvent'[t][v] = lastEvent[t][v],
         \A v \in Window : attached'[v] => (attached[v] /\ inbox'[v] = inbox[v]) \/ inbox'[v] = <<>>,
         \A t \in Thread : Ordered(t, inbox'[w], ui'[w], <<pmsg'[w]>>, sub'[w],
                                   lastEvent'[t][w], Offered(t, w))
  PROVE  OrderInv'
<1>1. \A t \in Thread, v \in Window : Offered(t, v)' = Offered(t, v)
  BY DEF Offered
<1>2. ASSUME NEW t \in Thread, NEW v \in Window
      PROVE  Ordered(t, inbox'[v], ui'[v], <<pmsg'[v]>>, sub'[v], lastEvent'[t][v], Offered(t, v)')
  <2>1. CASE v = w
    BY <1>1, <2>1
  <2>2. CASE v # w
    BY <1>1, <2>2, SamePipeline
  <2> QED BY <2>1, <2>2
<1>3. ASSUME NEW v \in Window, attached'[v] PROVE inbox'[v] = <<>>
  BY <1>3 DEF OrderInv
<1> QED BY <1>2, <1>3 DEF OrderInv

LEMMA OrderedByEmit ==
  ASSUME TypeOK, OrderInv, NEW t \in Thread, BeginEmit(t),
         UNCHANGED <<sub, pmsg, ui, inbox, lastEvent, attached>>
  PROVE  OrderInv'
<1>1. ASSUME NEW x \in Thread, NEW v \in Window
      PROVE  Ordered(x, inbox[v], ui[v], <<pmsg[v]>>, sub[v], lastEvent[x][v], Offered(x, v)')
  <2>1. Offered(x, v)' \in Int /\ Offered(x, v) <= Offered(x, v)'
    BY TypeParts DEF BeginEmit, Offered, ControlType
  <2> DEFINE lo == lastEvent[x][v]
             hi == Offered(x, v)
             higher == Offered(x, v)'
  <2>1a. /\ lo \in Nat /\ hi \in Int /\ inbox[v] \in Seq(Frame) /\ ui[v] \in Seq(Frame)
         /\ pmsg[v] \in Frame /\ sub[v] \in Seq(Frame)
         /\ Ordered(x, inbox[v], ui[v], <<pmsg[v]>>, sub[v], lo, hi)
    BY Pipeline
  <2> HIDE DEF lo, hi, higher
  <2>5. higher \in Int /\ hi <= higher
    BY <2>1 DEF hi, higher
  <2>2. ASSUME NEW q \in Seq(Frame), Within(x, q, lo, hi)
        PROVE  Within(x, q, lo, higher)
    <3>1. \A j \in 1 .. Len(q) : Of(x, q, j) => q[j].n \in Nat
      BY ElementOfSeq, Frames DEF Of
    <3> QED BY <2>1a, <2>2, <2>5, <3>1 DEF Within
  <2>3. <<pmsg[v]>> \in Seq(Frame)
    BY <2>1a
  <2>4. lo <= higher
    BY <2>1a, <2>5 DEF Ordered
  <2>6. Ordered(x, inbox[v], ui[v], <<pmsg[v]>>, sub[v], lo, higher)
    BY <2>1a, <2>2, <2>3, <2>4, Zenon DEF Ordered
  <2> QED BY <2>6 DEF lo, higher
<1> QED BY <1>1 DEF OrderInv

LEMMA OrderedBySend ==
  ASSUME TypeOK, OrderInv, NEW t \in Thread, NEW w \in Window, EmitSends(t, w)
  PROVE  OrderInv'
<1> DEFINE e == [kind |-> "event", from |-> t, n |-> emitted[t]]
           longer == Append(sub[w], e)
<1>1. /\ UNCHANGED <<emitted, pmsg, ui, inbox, lastEvent, attached>> /\ w \in todo[t]
      /\ todo' = [todo EXCEPT ![t] = @ \ {w}]
  BY DEF EmitSends, pumpVars, uiVars, pageVars
<1>2. e \in Event /\ e.n = emitted[t] /\ e.from = t /\ emitted[t] \in Nat
  BY TypeParts DEF Event, ControlType
<1>3. sub' = sub \/ sub' = [sub EXCEPT ![w] = longer]
  BY DEF EmitSends, TrySend
<1> HIDE DEF e
<1>4. longer \in Seq(Frame) /\ sub \in [Window -> Seq(Event)]
  BY <1>2, TypeParts, Pipeline DEF SubType, Frame
<1>5. e \in Frame /\ \A x \in Thread : x # t => ~(e.kind = "event" /\ e.from = x)
  BY <1>2 DEF Frame
<1>6. ASSUME NEW x \in Thread, NEW v \in Window, x # t \/ v # w
      PROVE  Offered(x, v)' = Offered(x, v)
  BY <1>1, <1>6, TypeParts DEF Offered, ControlType
<1>7. Offered(t, w)' = Offered(t, w) + 1 /\ e.n = Offered(t, w) + 1
  BY <1>1, <1>2, TypeParts DEF Offered, ControlType
<1>8. ASSUME NEW x \in Thread, NEW v \in Window
      PROVE  Ordered(x, inbox[v], ui[v], <<pmsg[v]>>, sub'[v], lastEvent[x][v], Offered(x, v)')
  <2>1. CASE v # w
    <3>1. sub'[v] = sub[v]
      BY <1>3, <1>4, <2>1
    <3> QED BY <1>6, <2>1, <3>1, Pipeline
  <2>2. CASE v = w /\ x # t
    <3>1. sub'[w] = sub[w] \/ sub'[w] = longer
      BY <1>3, <1>4
    <3>2. Ordered(x, inbox[w], ui[w], <<pmsg[w]>>, longer, lastEvent[x][w], Offered(x, w))
      <4> DEFINE lo == lastEvent[x][w]
                 hi == Offered(x, w)
      <4>1. /\ Within(x, <<e>>, lo, hi)
            /\ \A b : Ahead(x, b, <<e>>)
        BY <1>5, <2>2, NothingOfT
      <4>2. sub[w] \in Seq(Frame) /\ Ordered(x, inbox[w], ui[w], <<pmsg[w]>>, sub[w], lo, hi)
        BY Pipeline
      <4> HIDE DEF lo, hi
      <4>3. Rising(x, longer) /\ Within(x, longer, lo, hi)
        BY <1>5, <4>1, <4>2, AppendKeeps, Zenon DEF Ordered
      <4>4. /\ Ahead(x, inbox[w], longer) /\ Ahead(x, ui[w], longer)
            /\ Ahead(x, <<pmsg[w]>>, longer)
        BY <1>5, <4>1, <4>2, AppendKeeps, Zenon DEF Ordered
      <4> HIDE DEF longer
      <4>5. Ordered(x, inbox[w], ui[w], <<pmsg[w]>>, longer, lo, hi)
        BY <4>2, <4>3, <4>4, Zenon DEF Ordered
      <4> QED BY <4>5 DEF lo, hi
    <3> QED BY <1>6, <2>2, <3>1, <3>2, Pipeline
  <2>3. CASE v = w /\ x = t
    <3>1. sub'[w] = sub[w] \/ sub'[w] = longer
      BY <1>3, <1>4
    <3>2. \A q \in Seq(Frame) : \A j \in 1 .. Len(q) : Of(t, q, j) => q[j].n \in Nat
      BY ElementOfSeq, Frames DEF Of
    <3>3. <<pmsg[w]>> \in Seq(Frame)
      <4>1. pmsg[w] \in Frame
        BY Pipeline
      <4> QED BY <4>1
    <3>4. /\ Ordered(t, inbox[w], ui[w], <<pmsg[w]>>, sub[w], lastEvent[t][w], Offered(t, w) + 1)
          /\ Ordered(t, inbox[w], ui[w], <<pmsg[w]>>, longer, lastEvent[t][w], Offered(t, w) + 1)
      BY <1>2, <1>7, <3>2, <3>3, Pipeline, Sends
    <3> QED BY <1>7, <2>3, <3>1, <3>4
  <2> QED BY <2>1, <2>2, <2>3
<1> QED BY <1>1, <1>8 DEF OrderInv

(* A page that handles the frames s ahead of its pipeline.                 *)
LEMMA PageAdvances ==
  ASSUME LastType, NEW t \in Thread, NEW w \in Window, NEW s \in Seq(Frame), PageHandles(w, s),
         NEW u \in Seq(Frame), NEW f \in Frame, NEW q \in Seq(Frame), NEW hi \in Int,
         Ordered(t, s, u, <<f>>, q, lastEvent[t][w], hi)
  PROVE  /\ Ordered(t, <<>>, u, <<f>>, q, lastEvent'[t][w], hi)
         /\ \/ lastEvent'[t] = lastEvent[t]
            \/ \E n \in (lastEvent[t][w] + 1) .. hi : lastEvent'[t] = [lastEvent[t] EXCEPT ![w] = n]
<1> DEFINE lo == lastEvent[t][w]
           last == LastOf(t, w, s)
<1>1. lastEvent'[t] = [lastEvent[t] EXCEPT ![w] = last] /\ lastEvent'[t][w] = last
      /\ lastEvent[t] \in [Window -> Nat] /\ lo \in Nat
  BY DEF PageHandles, LastType
<1> HIDE DEF lo, last
<1>2. CASE last = lo
  <2>1. lastEvent'[t] = lastEvent[t]
    BY <1>1, <1>2 DEF lo
  <2>2. Ordered(t, <<>>, u, <<f>>, q, lo, hi)
    BY NothingOfT, Zenon DEF Ordered, lo
  <2> QED BY <1>1, <1>2, <2>1, <2>2
<1>3. ASSUME NEW k \in 1 .. Len(s), Of(t, s, k), last = s[k].n,
             \A j \in 1 .. Len(s) : Of(t, s, j) => j <= k
      PROVE  /\ Ordered(t, <<>>, u, <<f>>, q, last, hi)
             /\ \E n \in (lo + 1) .. hi : lastEvent'[t] = [lastEvent[t] EXCEPT ![w] = n]
  <2>1. s[k].n \in Nat
    BY <1>3, ElementOfSeq, Frames DEF Of
  <2>2. lo < s[k].n /\ s[k].n <= hi /\ Ordered(t, <<>>, u, <<f>>, q, s[k].n, hi)
    BY <1>1, <1>3, <2>1, Handled DEF lo
  <2>3. s[k].n \in (lo + 1) .. hi
    BY <1>1, <2>1, <2>2
  <2>4. lastEvent'[t] = [lastEvent[t] EXCEPT ![w] = s[k].n]
    BY <1>1, <1>3
  <2> QED BY <1>3, <2>2, <2>3, <2>4, Zenon
<1>4. last = lo \/ \E k \in 1 .. Len(s) : /\ Of(t, s, k) /\ last = s[k].n
                                          /\ \A j \in 1 .. Len(s) : Of(t, s, j) => j <= k
  BY LastOfIs DEF Of, lo, last
<1> QED BY <1>1, <1>2, <1>3, <1>4 DEF lo

(* UiEval, in a page whose bridge is there, handles the first closure.     *)
LEMMA HeadFirst ==
  ASSUME TypeOK, OrderInv, Marked, NEW w \in Window, UiEval(w), attached[w],
         NEW t \in Thread
  PROVE  /\ <<Head(ui[w])>> \in Seq(Frame) /\ Tail(ui[w]) \in Seq(Frame)
         /\ Ordered(t, <<Head(ui[w])>>, Tail(ui[w]), <<pmsg[w]>>, sub[w],
                    lastEvent[t][w], Offered(t, w))
<1>1. ui[w] # <<>>
  BY DEF UiEval, Marked
<1>2. Head(ui[w]) \in Frame /\ Tail(ui[w]) \in Seq(Frame)
  BY <1>1, HeadTailOfUi, TypeParts
<1>3. inbox[w] = <<>>
  BY DEF OrderInv
<1>4. Ordered(t, Append(inbox[w], Head(ui[w])), Tail(ui[w]), <<pmsg[w]>>, sub[w],
              lastEvent[t][w], Offered(t, w))
  BY <1>1, Pipeline, Advances
<1>5. Append(inbox[w], Head(ui[w])) = <<Head(ui[w])>>
  BY <1>3
<1>6. <<Head(ui[w])>> \in Seq(Frame)
  BY <1>2
<1> QED BY <1>2, <1>4, <1>5, <1>6, Zenon

LEMMA OrderedByPump ==
  ASSUME TypeOK, OrderInv, NEW w \in Window, Pump(w)
  PROVE  OrderInv'
<1> USE DEF lockVars, emitVars, subVars, winVars, pumpVars, uiVars, pageVars
<1>1. ASSUME NEW t \in Thread
      PROVE  /\ sub[w] # <<>> => Ordered(t, inbox[w], ui[w], <<Head(sub[w])>>, Tail(sub[w]),
                                         lastEvent[t][w], Offered(t, w))
             /\ Ordered(t, inbox[w], ui[w], <<pmsg[w]>>, sub[w], lastEvent[t][w], Offered(t, w))
             /\ Ordered(t, inbox[w], ui[w], <<Answer>>, sub[w], lastEvent[t][w], Offered(t, w))
             /\ Ordered(t, inbox[w], Append(ui[w], pmsg[w]), <<Answer>>, sub[w],
                        lastEvent[t][w], Offered(t, w))
  BY Pipeline, Advances
<1>2. /\ sub \in [Window -> Seq(Event)] /\ pmsg \in [Window -> Event \cup {Answer}]
      /\ ui \in [Window -> Seq(Frame)]
  BY TypeParts DEF SubType, PmsgType, UiType
<1>3. CASE PumpTakes(w)
  <2>1. /\ sub[w] # <<>> /\ pmsg' = [pmsg EXCEPT ![w] = Head(sub[w])]
        /\ sub' = [sub EXCEPT ![w] = Tail(sub[w])]
        /\ UNCHANGED <<todo, emitted, ui, inbox, attached, lastEvent>>
    BY <1>3 DEF PumpTakes
  <2>2. pmsg'[w] = Head(sub[w]) /\ sub'[w] = Tail(sub[w])
        /\ \A v \in Window \ {w} : pmsg'[v] = pmsg[v] /\ sub'[v] = sub[v]
    BY <1>2, <2>1
  <2> QED BY <1>1, <2>1, <2>2, OneWindow
<1>4. CASE PumpChecks(w)
  <2>1. /\ UNCHANGED pmsg \/ pmsg' = [pmsg EXCEPT ![w] = Answer]
        /\ UNCHANGED <<todo, emitted, ui, sub, inbox, attached, lastEvent>>
    BY <1>4 DEF PumpChecks
  <2>2. (pmsg'[w] = Answer \/ pmsg'[w] = pmsg[w]) /\ \A v \in Window \ {w} : pmsg'[v] = pmsg[v]
    BY <1>2, <2>1
  <2> QED BY <1>1, <2>1, <2>2, OneWindow
<1>5. CASE PumpDispatches(w)
  <2>1. /\ UNCHANGED ui \/ ui' = [ui EXCEPT ![w] = Append(ui[w], pmsg[w])]
        /\ pmsg' = [pmsg EXCEPT ![w] = Answer]
        /\ UNCHANGED <<todo, emitted, sub, inbox, attached, lastEvent>>
    BY <1>5 DEF PumpDispatches, Dispatch
  <2>2. /\ ui'[w] = ui[w] \/ ui'[w] = Append(ui[w], pmsg[w])
        /\ pmsg'[w] = Answer
        /\ \A v \in Window \ {w} : ui'[v] = ui[v] /\ pmsg'[v] = pmsg[v]
    BY <1>2, <2>1
  <2> QED BY <1>1, <2>1, <2>2, OneWindow
<1>6. CASE PumpReturns(w)
  <2>1. UNCHANGED <<todo, emitted, sub, pmsg, ui, inbox, attached, lastEvent>>
    BY <1>6 DEF PumpReturns
  <2> QED BY <1>1, <2>1, OneWindow
<1> QED BY <1>3, <1>4, <1>5, <1>6 DEF Pump

(* A frame dispatched to w that is no event, or closures of w dropped.     *)
LEMMA OrderedByUi ==
  ASSUME TypeOK, OrderInv, NEW w \in Window,
         \/ \E g \in {Answer, Destroy} : Dispatch(w, g)
         \/ ui[w] # <<>> /\ ui' = [ui EXCEPT ![w] = Tail(@)]
         \/ ui' = [ui EXCEPT ![w] = <<>>]
         \/ UNCHANGED ui,
         UNCHANGED <<todo, emitted, sub, pmsg, inbox, attached, lastEvent>>
  PROVE  OrderInv'
<1>1. ASSUME NEW t \in Thread
      PROVE  /\ \A g \in {Answer, Destroy} :
                  Ordered(t, inbox[w], Append(ui[w], g), <<pmsg[w]>>, sub[w],
                          lastEvent[t][w], Offered(t, w))
             /\ ui[w] # <<>> => Ordered(t, inbox[w], Tail(ui[w]), <<pmsg[w]>>, sub[w],
                                        lastEvent[t][w], Offered(t, w))
             /\ Ordered(t, inbox[w], <<>>, <<pmsg[w]>>, sub[w], lastEvent[t][w], Offered(t, w))
             /\ Ordered(t, inbox[w], ui[w], <<pmsg[w]>>, sub[w], lastEvent[t][w], Offered(t, w))
  BY Pipeline, Advances
<1>2. ui \in [Window -> Seq(Frame)]
  BY TypeParts DEF UiType
<1>3. /\ \/ \E g \in {Answer, Destroy} : ui'[w] = Append(ui[w], g)
         \/ ui[w] # <<>> /\ ui'[w] = Tail(ui[w])
         \/ ui'[w] = <<>>
         \/ ui'[w] = ui[w]
      /\ \A v \in Window \ {w} : ui'[v] = ui[v]
  BY <1>2 DEF Dispatch
<1>4. \A t \in Thread : Ordered(t, inbox[w], ui'[w], <<pmsg[w]>>, sub[w],
                                lastEvent[t][w], Offered(t, w))
  BY <1>1, <1>3
<1> QED BY <1>3, <1>4, OneWindow

LEMMA OrderedByPage ==
  ASSUME TypeOK, OrderInv, Marked, NEW w \in Window, UiEval(w) \/ Attach(w)
  PROVE  OrderInv'
<1> USE DEF lockVars, emitVars, subVars, winVars, pumpVars, uiVars, pageVars
<1>1. /\ ui \in [Window -> Seq(Frame)] /\ inbox \in [Window -> Seq(Frame)]
      /\ lastEvent \in [Thread -> [Window -> Nat]] /\ attached \in [Window -> BOOLEAN]
  BY TypeParts DEF UiType, InboxType, LastType, ControlType
<1>2. ASSUME NEW s, PageHandles(w, s), NEW t \in Thread, NEW v \in Window \ {w}
      PROVE  lastEvent'[t][v] = lastEvent[t][v]
  BY <1>1, <1>2 DEF PageHandles
<1>3. CASE UiEval(w)
  <2>1. /\ ui' = [ui EXCEPT ![w] = Tail(ui[w])] /\ UNCHANGED <<todo, emitted, sub, pmsg, attached>>
        /\ ui[w] # <<>>
    BY <1>3 DEF UiEval, Marked
  <2>2. ui'[w] = Tail(ui[w]) /\ \A v \in Window \ {w} : ui'[v] = ui[v]
    BY <1>1, <2>1
  <2>3. CASE UNCHANGED <<inbox, lastEvent>>
    <3>1. UNCHANGED <<todo, emitted, sub, pmsg, inbox, attached, lastEvent>>
      BY <2>1, <2>3
    <3> QED BY <2>1, <3>1, OrderedByUi
  <2>4. CASE attached[w] /\ PageHandles(w, <<Head(ui[w])>>) /\ UNCHANGED inbox
    <3>1. \A t \in Thread : Ordered(t, <<>>, Tail(ui[w]), <<pmsg[w]>>, sub[w],
                                    lastEvent'[t][w], Offered(t, w))
      BY <1>3, <2>4, HeadFirst, Pipeline, PageAdvances, TypeParts
    <3>2. inbox[w] = <<>>
      BY <2>4 DEF OrderInv
    <3> QED BY <1>2, <2>1, <2>2, <2>4, <3>1, <3>2, OneWindow
  <2>5. CASE ~attached[w] /\ inbox' = [inbox EXCEPT ![w] = Append(@, Head(ui[w]))]
             /\ UNCHANGED lastEvent
    <3>1. inbox'[w] = Append(inbox[w], Head(ui[w])) /\ \A v \in Window \ {w} : inbox'[v] = inbox[v]
      BY <1>1, <2>5
    <3>2. \A t \in Thread : Ordered(t, Append(inbox[w], Head(ui[w])), Tail(ui[w]), <<pmsg[w]>>,
                                    sub[w], lastEvent[t][w], Offered(t, w))
      BY <2>1, Pipeline, Advances
    <3> QED BY <2>1, <2>2, <2>5, <3>1, <3>2, OneWindow
  <2> QED BY <1>3, <2>3, <2>4, <2>5, Zenon DEF UiEval
<1>4. CASE Attach(w)
  <2>1. /\ inbox' = [inbox EXCEPT ![w] = <<>>] /\ PageHandles(w, inbox[w])
        /\ attached' = [attached EXCEPT ![w] = TRUE]
        /\ UNCHANGED <<todo, emitted, sub, pmsg, ui>>
    BY <1>4 DEF Attach
  <2>2. /\ inbox'[w] = <<>> /\ \A v \in Window \ {w} : inbox'[v] = inbox[v]
        /\ \A v \in Window \ {w} : attached'[v] = attached[v]
    BY <1>1, <2>1
  <2>3. \A t \in Thread : Ordered(t, <<>>, ui[w], <<pmsg[w]>>, sub[w],
                                  lastEvent'[t][w], Offered(t, w))
    BY <2>1, Pipeline, PageAdvances, TypeParts
  <2>4. \A v \in Window : attached'[v] => (attached[v] /\ inbox'[v] = inbox[v]) \/ inbox'[v] = <<>>
    BY <2>2
  <2> QED BY <1>2, <2>1, <2>2, <2>3, <2>4, OneWindow
<1> QED BY <1>3, <1>4

LEMMA OrderStep == TypeOK /\ Marked /\ OrderInv /\ [Next]_vars => OrderInv'
<1> SUFFICES ASSUME TypeOK, Marked, OrderInv, [Next]_vars PROVE OrderInv'
  OBVIOUS
<1> USE DEF lockVars, emitVars, subVars, winVars, pumpVars, uiVars, pageVars
<1>1. CASE UNCHANGED <<todo, emitted, sub, pmsg, ui, inbox, attached, lastEvent>>
  BY <1>1 DEF OrderInv, Offered
<1>2. ASSUME NEW t \in Thread, Calls(t) PROVE OrderInv'
  <2>1. CASE PushDispatches(t)
    <3>1. PICK w \in at[t] : Dispatch(w, Answer)
      BY <2>1 DEF PushDispatches
    <3>2. w \in Window
      BY TypeParts DEF ControlType
    <3>3. UNCHANGED <<todo, emitted, sub, pmsg, inbox, attached, lastEvent>>
      BY <2>1 DEF PushDispatches
    <3> QED BY <3>1, <3>2, <3>3, OrderedByUi
  <2>2. CASE HandlerEmits(t)
    <3>1. BeginEmit(t) /\ UNCHANGED <<sub, pmsg, ui, inbox, lastEvent, attached>>
      BY <2>2 DEF HandlerEmits
    <3> QED BY <3>1, OrderedByEmit
  <2>3. \/ UNCHANGED <<todo, emitted, sub, pmsg, ui, inbox, attached, lastEvent>>
        \/ PushDispatches(t) \/ HandlerEmits(t)
    BY <1>2, Zenon
       DEF Calls, Lookup, InvokeReturns, InvokeRegisters, Registered, DispatchEvent,
           HandlerReenters, HandlerReturns, PushChecks, OnMessage
  <2> QED BY <1>1, <2>1, <2>2, <2>3
<1>3. ASSUME NEW t \in Thread, Emits(t) PROVE OrderInv'
  <2>1. CASE Emit(t)
    <3>1. BeginEmit(t) /\ UNCHANGED <<sub, pmsg, ui, inbox, lastEvent, attached>>
      BY <2>1 DEF Emit
    <3> QED BY <3>1, OrderedByEmit
  <2>2. CASE EmitReturns(t)
    BY <1>1, <2>2 DEF EmitReturns
  <2>3. ASSUME NEW w \in Window, EmitSends(t, w) PROVE OrderInv'
    BY <2>3, OrderedBySend
  <2> QED BY <1>3, <2>1, <2>2, <2>3 DEF Emits
<1>4. ASSUME NEW w \in Window, Lives(w) PROVE OrderInv'
  <2>1. CASE CloseDispatches(w)
    <3>1. Dispatch(w, Destroy) /\ UNCHANGED <<todo, emitted, sub, pmsg, inbox, attached, lastEvent>>
      BY <2>1 DEF CloseDispatches
    <3> QED BY <3>1, OrderedByUi
  <2>2. CASE RunReturns(w)
    <3>1. /\ ui' = [ui EXCEPT ![w] = <<>>]
          /\ UNCHANGED <<todo, emitted, sub, pmsg, inbox, attached, lastEvent>>
      BY <2>2 DEF RunReturns
    <3> QED BY <3>1, OrderedByUi
  <2>3. \/ UNCHANGED <<todo, emitted, sub, pmsg, ui, inbox, attached, lastEvent>>
        \/ CloseDispatches(w) \/ RunReturns(w)
    BY <1>4, Zenon
       DEF Lives, OpenWindow, Subscribe, StopBegins, Unsubscribe, StopMarks, UserCloses
  <2> QED BY <1>1, <2>1, <2>2, <2>3
<1>5. ASSUME NEW w \in Window, UI(w) PROVE OrderInv'
  <2>1. CASE UiCheck(w) \/ UiDestroys(w)
    <3>1. ui[w] # <<>> /\ (UNCHANGED ui \/ ui' = [ui EXCEPT ![w] = Tail(@)])
      BY <2>1 DEF UiCheck, UiDestroys
    <3>2. UNCHANGED <<todo, emitted, sub, pmsg, inbox, attached, lastEvent>>
      BY <2>1 DEF UiCheck, UiDestroys
    <3> QED BY <3>1, <3>2, OrderedByUi
  <2> QED BY <1>5, <2>1, OrderedByPage DEF UI
<1>6. ASSUME NEW w \in Window, Pump(w) PROVE OrderInv'
  BY <1>6, OrderedByPump
<1>7. CASE Quit \/ \E x \in Thread \cup Window : Announce(x)
  BY <1>1, <1>7, Zenon DEF Quit, Announce
<1>8. CASE UNCHANGED vars
  BY <1>1, <1>8 DEF vars
<1> QED BY <1>2, <1>3, <1>4, <1>5, <1>6, <1>7, <1>8, Zenon DEF Next

(* For each goroutine, a step is one of EventFeed, or changes nothing of   *)
(* the feed.                                                               *)
LEMMA PageSees ==
  ASSUME TypeOK, OrderInv, NEW w \in Window, NEW t \in Thread, UNCHANGED emitted,
         NEW s \in Seq(Frame), PageHandles(w, s),
         NEW u \in Seq(Frame), NEW f \in Frame, NEW q \in Seq(Frame),
         Ordered(t, s, u, <<f>>, q, lastEvent[t][w], Offered(t, w))
  PROVE  [Feed(t)!Next]_<<emitted[t], lastEvent[t]>>
<1>1. Offered(t, w) \in Int /\ Offered(t, w) <= emitted[t] /\ emitted[t] \in Nat
      /\ lastEvent[t][w] \in Nat
  BY TypeParts DEF Offered, ControlType, LastType
<1>2. \/ lastEvent'[t] = lastEvent[t]
      \/ \E n \in (lastEvent[t][w] + 1) .. Offered(t, w) :
           lastEvent'[t] = [lastEvent[t] EXCEPT ![w] = n]
  BY <1>1, TypeParts, PageAdvances
<1>3. CASE lastEvent'[t] = lastEvent[t]
  BY <1>3
<1>4. ASSUME NEW n \in (lastEvent[t][w] + 1) .. Offered(t, w),
             lastEvent'[t] = [lastEvent[t] EXCEPT ![w] = n]
      PROVE  Feed(t)!Next
  <2>1. n \in (lastEvent[t][w] + 1) .. emitted[t]
    BY <1>1, <1>4
  <2> QED BY <1>4, <2>1 DEF Feed!Next, Feed!See
<1> QED BY <1>2, <1>3, <1>4

LEMMA FeedStep ==
  ASSUME TypeOK, Marked, OrderInv, [Next]_vars
  PROVE  \A t \in Thread : [Feed(t)!Next]_<<emitted[t], lastEvent[t]>>
<1> SUFFICES ASSUME NEW t \in Thread PROVE [Feed(t)!Next]_<<emitted[t], lastEvent[t]>>
  OBVIOUS
<1> USE DEF lockVars, emitVars, subVars, winVars, pumpVars, uiVars, pageVars
<1>1. CASE UNCHANGED <<emitted, lastEvent>>
  BY <1>1
<1>2. ASSUME NEW x \in Thread, BeginEmit(x), UNCHANGED lastEvent
      PROVE  [Feed(t)!Next]_<<emitted[t], lastEvent[t]>>
  BY <1>2, TypeParts DEF BeginEmit, ControlType, Feed!Next, Feed!Emit
<1>3. ASSUME NEW w \in Window, UiEval(w) PROVE [Feed(t)!Next]_<<emitted[t], lastEvent[t]>>
  <2>1. UNCHANGED emitted
    BY <1>3 DEF UiEval
  <2>2. CASE UNCHANGED lastEvent
    BY <1>1, <2>1, <2>2
  <2>3. CASE attached[w] /\ PageHandles(w, <<Head(ui[w])>>)
    BY <1>3, <2>1, <2>3, HeadFirst, Pipeline, PageSees
  <2>4. win[w] # "open" => UNCHANGED lastEvent
    BY <1>3 DEF UiEval
  <2> QED BY <1>3, <2>2, <2>3, <2>4, Zenon DEF UiEval
<1>4. ASSUME NEW w \in Window, Attach(w) PROVE [Feed(t)!Next]_<<emitted[t], lastEvent[t]>>
  <2>1. UNCHANGED emitted /\ PageHandles(w, inbox[w])
    BY <1>4 DEF Attach
  <2> QED BY <2>1, Pipeline, PageSees
<1>5. ASSUME NEW x \in Thread, Calls(x) \/ Emits(x)
      PROVE  UNCHANGED <<emitted, lastEvent>> \/ (BeginEmit(x) /\ UNCHANGED lastEvent)
  BY <1>5, Zenon
     DEF Calls, Lookup, InvokeReturns, InvokeRegisters, Registered, DispatchEvent,
         HandlerReenters, HandlerEmits, HandlerReturns, PushChecks, PushDispatches, OnMessage,
         Emits, Emit, EmitReturns, EmitSends
<1>6. ASSUME NEW w \in Window, Pump(w) \/ UI(w) \/ Lives(w)
      PROVE  UNCHANGED <<emitted, lastEvent>> \/ UiEval(w) \/ Attach(w)
  BY <1>6, Zenon
     DEF Pump, PumpTakes, PumpChecks, PumpDispatches, PumpReturns, UI, UiCheck, UiDestroys, Lives,
         OpenWindow, Subscribe, StopBegins, Unsubscribe, StopMarks, CloseDispatches, RunReturns,
         UserCloses
<1>7. CASE Quit \/ \E x \in Thread \cup Window : Announce(x)
  BY <1>1, <1>7, Zenon DEF Quit, Announce
<1>8. CASE UNCHANGED vars
  BY <1>1, <1>8 DEF vars
<1> QED BY <1>1, <1>2, <1>3, <1>4, <1>5, <1>6, <1>7, <1>8, Zenon DEF Next

LEMMA InitOrder == Init => OrderInv /\ \A t \in Thread : Feed(t)!Init
<1> SUFFICES ASSUME Init PROVE OrderInv /\ \A t \in Thread : Feed(t)!Init
  OBVIOUS
<1>1. \A t \in Thread : Feed(t)!Init
  BY DEF Init, Feed!Init
<1>2. ASSUME NEW t \in Thread, NEW w \in Window
      PROVE  Ordered(t, inbox[w], ui[w], <<pmsg[w]>>, sub[w], lastEvent[t][w], Offered(t, w))
  <2>1. inbox[w] = <<>> /\ ui[w] = <<>> /\ sub[w] = <<>> /\ pmsg[w] = Answer
        /\ lastEvent[t][w] = 0 /\ Offered(t, w) = 0
    BY DEF Init, Offered
  <2>2. Answer \in Frame /\ ~(Answer.kind = "event" /\ Answer.from = t)
    BY Frames DEF Answer
  <2>3. Ordered(t, <<>>, <<>>, <<Answer>>, <<>>, 0, 0)
    <3>1. /\ Rising(t, <<>>) /\ Within(t, <<>>, 0, 0) /\ Within(t, <<Answer>>, 0, 0)
          /\ \A b : Ahead(t, <<>>, b) /\ Ahead(t, b, <<>>)
      BY <2>2, NothingOfT
    <3>2. 0 <= 0
      OBVIOUS
    <3> QED BY <3>1, <3>2, Zenon DEF Ordered
  <2> QED BY <2>1, <2>3
<1> QED BY <1>1, <1>2 DEF OrderInv, Init

LEMMA Order == Spec => []OrderInv
<1>1. Init => OrderInv
  BY InitOrder
<1>2. IInv /\ OrderInv /\ [Next]_vars => OrderInv'
  BY OrderStep DEF IInv
<1> QED BY <1>1, <1>2, Invariance, PTL DEF Spec

-----------------------------------------------------------------------------

(***************************************************************************)
(* Every variable has its type; no subscription holds more than its        *)
(* capacity.                                                               *)
(***************************************************************************)
THEOREM TypeCorrect == Spec => []TypeOK
<1>1. IInv => TypeOK
  BY DEF IInv
<1> QED BY <1>1, Invariance, PTL

(***************************************************************************)
(* Emit never sends on a subscription that Unsubscribe has closed.         *)
(***************************************************************************)
THEOREM EmitNeverMeetsClosed == Spec => []NeverSendsOnClosed
<1>1. IInv => NeverSendsOnClosed
  BY DEF IInv
<1> QED BY <1>1, Invariance, PTL

(***************************************************************************)
(* evalRecv never evaluates in a window that the program destroyed.        *)
(***************************************************************************)
THEOREM EvalsOnlyLive == Spec => []EvalsLiveWindow
<1>1. IInv => EvalsLiveWindow
  BY DEF IInv
<1> QED BY <1>1, Invariance, PTL

(***************************************************************************)
(* The subscription, the pump, the UI thread's closures and the inbox of   *)
(* the shim together implement EventFeed, for each goroutine that emits.   *)
(***************************************************************************)
THEOREM PipelineIsFeed == Spec => EventsInOrder
<1>1. Init => \A t \in Thread : Feed(t)!Init
  BY InitOrder
<1>2. IInv /\ OrderInv /\ [Next]_vars =>
        [\A t \in Thread : [Feed(t)!Next]_<<emitted[t], lastEvent[t]>>]_vars
  BY FeedStep, Zenon DEF IInv
<1> QED BY <1>1, <1>2, Invariance, Order, PTL DEF Spec, EventsInOrder

-----------------------------------------------------------------------------
(***************************************************************************)
(* The lock: who holds it, who waits for it, and the deadlock.             *)
(***************************************************************************)
Holding == {"emitting", "handler", "handlerWantsEmit", "handlerEmitting", "handlerRegistering"}

LockInv ==
  /\ readers = {t \in Thread : pc[t] \in Holding}
  /\ \A x \in pending : pending = {x} /\ WantsLock(x)

LEMMA LockStep == TypeOK /\ SubsOpen /\ LockInv /\ [Next]_vars => LockInv'
<1> SUFFICES ASSUME ControlType, SubsOpen, LockInv, [Next]_vars PROVE LockInv'
  BY TypeParts
<1> USE DEF lockVars, emitVars, subVars, winVars, pumpVars, uiVars, pageVars
<1>1. ASSUME UNCHANGED <<pc, opener, readers>>, pending' \in {pending, {}} PROVE LockInv'
  BY <1>1 DEF LockInv, WantsLock
<1>2. ASSUME NEW x \in Thread \cup Window, Announce(x) PROVE LockInv'
  BY <1>2 DEF Announce, LockInv, WantsLock
<1>3. ASSUME NEW t \in Thread, t \notin pending \/ pending' = {},
             \A u \in Thread : u # t => pc'[u] = pc[u], UNCHANGED opener,
             pending' \in {pending, {}},
             readers' = IF pc'[t] \in Holding THEN readers \cup {t} ELSE readers \ {t}
      PROVE  LockInv'
  <2>1. readers' = {u \in Thread : pc'[u] \in Holding}
    BY <1>3 DEF LockInv
  <2>2. \A x \in pending' : pending' = {x} /\ WantsLock(x)'
    BY <1>3 DEF LockInv, WantsLock
  <2> QED BY <2>1, <2>2 DEF LockInv
<1>4. ASSUME NEW t \in Thread, Calls(t) PROVE LockInv'
  <2> USE DEF ControlType, Holding
  <2>1. pc[t] \notin {"registering", "handlerRegistering"} => t \notin pending
    BY NativeAssumption DEF LockInv, WantsLock
  <2>2. t \in readers <=> pc[t] \in Holding
    BY DEF LockInv
  <2>3. CASE Lookup(t)
    BY <1>3, <2>1, <2>2, <2>3 DEF Lookup
  <2>4. CASE InvokeReturns(t)
    BY <1>3, <2>1, <2>2, <2>4 DEF InvokeReturns
  <2>5. CASE InvokeRegisters(t)
    BY <1>3, <2>1, <2>2, <2>5 DEF InvokeRegisters
  <2>6. CASE Registered(t)
    BY <1>3, <2>1, <2>2, <2>6 DEF Registered, Locked
  <2>7. CASE DispatchEvent(t)
    BY <1>3, <2>1, <2>2, <2>7 DEF DispatchEvent
  <2>8. CASE HandlerReenters(t)
    BY <1>3, <2>1, <2>2, <2>8 DEF HandlerReenters
  <2>9. CASE HandlerEmits(t)
    BY <1>3, <2>1, <2>2, <2>9 DEF HandlerEmits
  <2>10. CASE HandlerReturns(t)
    BY <1>3, <2>1, <2>2, <2>10 DEF HandlerReturns
  <2>11. CASE PushChecks(t)
    BY <1>3, <2>1, <2>2, <2>11 DEF PushChecks
  <2>12. CASE PushDispatches(t)
    BY <1>3, <2>1, <2>2, <2>12 DEF PushDispatches
  <2>13. ASSUME NEW w \in Window, OnMessage(t, w) PROVE LockInv'
    BY <1>3, <2>1, <2>2, <2>13 DEF OnMessage
  <2> QED BY <1>4, <2>3, <2>4, <2>5, <2>6, <2>7, <2>8, <2>9, <2>10, <2>11, <2>12, <2>13
          DEF Calls
<1>5. ASSUME NEW t \in Thread, Emits(t) PROVE LockInv'
  <2> USE DEF ControlType, Holding
  <2>1. pc[t] \notin {"registering", "handlerRegistering"} => t \notin pending
    BY NativeAssumption DEF LockInv, WantsLock
  <2>2. t \in readers <=> pc[t] \in Holding
    BY DEF LockInv
  <2>3. CASE Emit(t)
    BY <1>3, <2>1, <2>2, <2>3 DEF Emit
  <2>4. CASE EmitReturns(t)
    BY <1>3, <2>1, <2>2, <2>4 DEF EmitReturns
  <2>5. ASSUME NEW w \in Window, EmitSends(t, w) PROVE LockInv'
    BY <1>1, <2>5 DEF EmitSends
  <2> QED BY <1>5, <2>3, <2>4, <2>5 DEF Emits
<1>6. ASSUME NEW w \in Window, UNCHANGED <<pc, readers>>, pending' \in {pending, {}},
             \A v \in Window : v # w => opener'[v] = opener[v],
             w \notin pending \/ pending' = {}
      PROVE  LockInv'
  BY <1>6, NativeAssumption DEF LockInv, WantsLock
<1>7. ASSUME NEW w \in Window, Lives(w) PROVE LockInv'
  <2> USE DEF ControlType
  <2>1. opener[w] \notin {"subscribing", "unsubscribing"} => w \notin pending
    BY NativeAssumption DEF LockInv, WantsLock
  <2>2. CASE OpenWindow(w)
    <3>1. opener[w] = "none"
      BY <2>2 DEF OpenWindow, SubsOpen
    <3> QED BY <1>6, <2>1, <2>2, <3>1 DEF OpenWindow
  <2>3. CASE Subscribe(w)
    BY <1>6, <2>3 DEF Subscribe, Locked
  <2>4. CASE StopBegins(w)
    BY <1>6, <2>1, <2>4 DEF StopBegins
  <2>5. CASE Unsubscribe(w)
    BY <1>6, <2>5 DEF Unsubscribe, Locked
  <2>6. CASE StopMarks(w)
    BY <1>6, <2>1, <2>6 DEF StopMarks
  <2>7. CASE CloseDispatches(w)
    BY <1>6, <2>1, <2>7 DEF CloseDispatches
  <2>8. CASE RunReturns(w) \/ UserCloses(w)
    BY <1>1, <2>8 DEF RunReturns, UserCloses
  <2> QED BY <1>7, <2>2, <2>3, <2>4, <2>5, <2>6, <2>7, <2>8 DEF Lives
<1>8. ASSUME NEW w \in Window, Pump(w) \/ UI(w)
      PROVE  UNCHANGED <<pc, opener, readers, pending>>
  BY <1>8, Zenon
     DEF Pump, PumpTakes, PumpChecks, PumpDispatches, PumpReturns, UI, UiCheck, UiEval,
         UiDestroys, Attach
<1>9. CASE Quit
  BY <1>1, <1>9 DEF Quit
<1>10. CASE UNCHANGED vars
  BY <1>1, <1>10 DEF vars
<1> QED BY <1>1, <1>2, <1>4, <1>5, <1>7, <1>8, <1>9, <1>10 DEF Next

LEMMA LockInvariance == Spec => []LockInv
<1>1. Init => LockInv
  BY DEF Init, LockInv, Holding
<1>2. IInv /\ LockInv /\ [Next]_vars => LockInv'
  BY LockStep DEF IInv
<1> QED BY <1>1, <1>2, Invariance, PTL DEF Spec

(* One writer at most is announced, and it is one that still waits; those  *)
(* who keep it waiting are readers that go on by themselves, an Emit or an *)
(* event handler, unless one of them is stuck.                             *)
OnlyStuckReadersBlock ==
  \A x \in pending :
    /\ pending = {x} /\ WantsLock(x)
    /\ Stuck \/ \A t \in readers : pc[t] \in {"emitting", "handlerEmitting", "handler"}

(* The safety half of StopCompletes: bridge.mu deadlocks in no other way   *)
(* than Stuck, an event handler that calls back into the bridge.           *)
THEOREM LockMovesUnlessStuck == Spec => []OnlyStuckReadersBlock
<1>1. LockInv => OnlyStuckReadersBlock
  BY DEF LockInv, Holding, Stuck, OnlyStuckReadersBlock
<1> QED BY <1>1, LockInvariance, PTL

(* Once stuck: no window opens or closes its subscription any more, and    *)
(* once a writer is announced too, nobody emits any more.                  *)
StuckStays ==
  Stuck =>
    /\ Stuck' /\ UNCHANGED <<subs, closed>>
    /\ pending # {} => UNCHANGED <<pending, emitted>>

(* Stuck is no passing state: the deadlock lasts as long as the process.   *)
THEOREM StuckIsForEver == Spec => [][StuckStays]_vars
<1>1. TypeOK /\ [Next]_vars => [StuckStays]_vars
  <2> SUFFICES ASSUME ControlType, [Next]_vars, NEW t \in readers,
                      \/ pc[t] = "handlerWantsEmit" /\ pending # {}
                      \/ pc[t] = "handlerRegistering"
               PROVE  /\ t \in readers' /\ pc'[t] = pc[t]
                      /\ UNCHANGED <<subs, closed>>
                      /\ pending # {} => UNCHANGED <<pending, emitted>>
    BY TypeParts DEF StuckStays, Stuck
  <2> USE DEF lockVars, emitVars, subVars, winVars, pumpVars, uiVars, pageVars
  <2>1. readers # {} /\ t \in Thread
    BY DEF ControlType
  <2>2. ASSUME NEW x, Locked(x) PROVE FALSE
    BY <2>1, <2>2 DEF Locked
  <2>3. CASE UNCHANGED vars
    BY <2>3 DEF vars
  <2>4. CASE Quit
    BY <2>4 DEF Quit
  <2>5. ASSUME NEW x \in Thread \cup Window, Announce(x)
        PROVE  UNCHANGED <<readers, pc, subs, closed>> /\ pending = {}
    BY <2>5 DEF Announce
  <2>6. ASSUME NEW u \in Thread, Calls(u)
        PROVE  /\ t \in readers' /\ pc'[t] = pc[t] /\ UNCHANGED <<subs, closed, pending>>
               /\ pending # {} => UNCHANGED emitted
    <3> USE DEF ControlType, CanRLock
    <3>1. CASE Lookup(u) BY <3>1 DEF Lookup
    <3>2. CASE InvokeReturns(u) BY <3>2 DEF InvokeReturns
    <3>3. CASE InvokeRegisters(u) BY <3>3 DEF InvokeRegisters
    <3>4. CASE Registered(u) BY <2>2, <3>4 DEF Registered
    <3>5. CASE DispatchEvent(u) BY <3>5 DEF DispatchEvent
    <3>6. CASE HandlerReenters(u) BY <3>6 DEF HandlerReenters
    <3>7. CASE HandlerEmits(u) BY <3>7 DEF HandlerEmits
    <3>8. CASE HandlerReturns(u) BY <3>8 DEF HandlerReturns
    <3>9. CASE PushChecks(u) BY <3>9 DEF PushChecks
    <3>10. CASE PushDispatches(u) BY <3>10 DEF PushDispatches
    <3>11. ASSUME NEW w \in Window, OnMessage(u, w)
           PROVE  /\ t \in readers' /\ pc'[t] = pc[t]
                  /\ UNCHANGED <<subs, closed, pending, emitted>>
      BY <3>11 DEF OnMessage
    <3> QED BY <2>6, <3>1, <3>2, <3>3, <3>4, <3>5, <3>6, <3>7, <3>8, <3>9, <3>10, <3>11
            DEF Calls
  <2>7. ASSUME NEW u \in Thread, Emits(u)
        PROVE  /\ t \in readers' /\ pc'[t] = pc[t] /\ UNCHANGED <<subs, closed, pending>>
               /\ pending # {} => UNCHANGED emitted
    <3> USE DEF ControlType, CanRLock
    <3>1. CASE Emit(u) BY <3>1 DEF Emit
    <3>2. CASE EmitReturns(u) BY <3>2 DEF EmitReturns
    <3>3. ASSUME NEW w \in Window, EmitSends(u, w)
          PROVE  UNCHANGED <<readers, pc, subs, closed, pending, emitted>>
      BY <3>3 DEF EmitSends
    <3> QED BY <2>7, <3>1, <3>2, <3>3 DEF Emits
  <2>8. ASSUME NEW w \in Window, Lives(w)
        PROVE  UNCHANGED <<readers, pc, subs, closed, pending, emitted>>
    <3>1. ~Subscribe(w) /\ ~Unsubscribe(w)
      BY <2>2 DEF Subscribe, Unsubscribe
    <3> QED BY <2>8, <3>1, Zenon
            DEF Lives, OpenWindow, StopBegins, StopMarks, CloseDispatches, RunReturns, UserCloses
  <2>9. ASSUME NEW w \in Window, Pump(w) \/ UI(w)
        PROVE  UNCHANGED <<readers, pc, subs, closed, pending, emitted>>
    BY <2>9, Zenon
       DEF Pump, PumpTakes, PumpChecks, PumpDispatches, PumpReturns, UI, UiCheck, UiEval,
           UiDestroys, Attach
  <2> QED BY <2>1, <2>3, <2>4, <2>5, <2>6, <2>7, <2>8, <2>9 DEF Next
<1> QED BY <1>1, TypeCorrect, PTL DEF Spec

-----------------------------------------------------------------------------
(***************************************************************************)
(* A session's life: its subscription, its pump and its done channel go    *)
(* with where its opener is.                                               *)
(***************************************************************************)
SessionInv ==
  \A w \in Window :
    /\ w \in subs <=> opener[w] \in {"open", "unsubscribing"}
    /\ closed[w] <=> opener[w] \in {"marking", "destroying", "closed"}
    /\ done[w] <=> opener[w] \in {"unsubscribing", "marking", "destroying", "closed"}
    /\ pump[w] = "none" <=> opener[w] \in {"none", "subscribing"}
    /\ pump[w] = "returned" => done[w] \/ quit

LEMMA SessionStep == TypeOK /\ SubsOpen /\ SessionInv /\ [Next]_vars => SessionInv'
<1> SUFFICES ASSUME ControlType, SubsOpen, SessionInv, [Next]_vars PROVE SessionInv'
  BY TypeParts
<1> USE DEF lockVars, emitVars, subVars, winVars, pumpVars, uiVars, pageVars
<1>1. ASSUME UNCHANGED <<opener, subs, closed, done, pump>>, quit => quit' PROVE SessionInv'
  BY <1>1 DEF SessionInv
<1>2. ASSUME NEW w \in Window, Lives(w) PROVE SessionInv'
  <2> USE DEF ControlType, SessionInv
  <2>1. CASE OpenWindow(w)
    <3>1. opener[w] = "none"
      BY <2>1 DEF OpenWindow, SubsOpen
    <3> QED BY <2>1, <3>1 DEF OpenWindow
  <2>2. CASE Subscribe(w)
    BY <2>2 DEF Subscribe
  <2>3. CASE StopBegins(w)
    BY <2>3 DEF StopBegins
  <2>4. CASE Unsubscribe(w)
    BY <2>4 DEF Unsubscribe
  <2>5. CASE StopMarks(w)
    BY <2>5 DEF StopMarks
  <2>6. CASE CloseDispatches(w)
    BY <2>6 DEF CloseDispatches
  <2>7. CASE RunReturns(w) \/ UserCloses(w)
    BY <1>1, <2>7 DEF RunReturns, UserCloses
  <2> QED BY <1>2, <2>1, <2>2, <2>3, <2>4, <2>5, <2>6, <2>7 DEF Lives
<1>3. ASSUME NEW w \in Window, Pump(w) PROVE SessionInv'
  <2> USE DEF ControlType, SessionInv
  <2>1. CASE PumpTakes(w)
    BY <2>1 DEF PumpTakes
  <2>2. CASE PumpChecks(w)
    BY <2>2 DEF PumpChecks
  <2>3. CASE PumpDispatches(w)
    BY <2>3 DEF PumpDispatches
  <2>4. CASE PumpReturns(w)
    BY <2>4 DEF PumpReturns
  <2> QED BY <1>3, <2>1, <2>2, <2>3, <2>4 DEF Pump
<1>4. ASSUME NEW w \in Window, UI(w) PROVE UNCHANGED <<opener, subs, closed, done, pump, quit>>
  BY <1>4, Zenon DEF UI, UiCheck, UiEval, UiDestroys, Attach
<1>5. ASSUME NEW t \in Thread, Calls(t) \/ Emits(t)
      PROVE  UNCHANGED <<opener, subs, closed, done, pump, quit>>
  BY <1>5, Zenon
     DEF Calls, Lookup, InvokeReturns, InvokeRegisters, Registered, DispatchEvent,
         HandlerReenters, HandlerEmits, HandlerReturns, PushChecks, PushDispatches, OnMessage,
         Emits, Emit, EmitReturns, EmitSends
<1>6. CASE Quit \/ \E x \in Thread \cup Window : Announce(x)
  BY <1>1, <1>6 DEF Quit, Announce
<1>7. CASE UNCHANGED vars
  BY <1>1, <1>7 DEF vars
<1> QED BY <1>1, <1>2, <1>3, <1>4, <1>5, <1>6, <1>7 DEF Next

(* As long as the application runs and nobody stops it, a window's pump is *)
(* there for its subscription, which is open and registered; and a pump is *)
(* never there without one.                                                *)
PumpServesSubscription ==
  \A w \in Window :
    /\ w \in subs => ~closed[w]
    /\ w \in subs /\ ~done[w] /\ ~quit => pump[w] \in {"wait", "push", "dispatch"}
    /\ pump[w] # "none" => w \in subs \/ closed[w]

(* No subscription is left without its consumer, nor closed while it is    *)
(* still offered events.                                                   *)
THEOREM SubscriptionsAreServed == Spec => []PumpServesSubscription
<1>1. Init => SessionInv
  BY DEF Init, SessionInv
<1>2. IInv /\ SessionInv /\ [Next]_vars => SessionInv'
  BY SessionStep DEF IInv
<1>3. IInv /\ SessionInv => PumpServesSubscription
  BY DEF IInv, TypeOK, SessionInv, PumpServesSubscription
<1> QED BY <1>1, <1>2, <1>3, Invariance, PTL DEF Spec
=============================================================================

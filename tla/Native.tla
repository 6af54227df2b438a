------------------------------- MODULE Native -------------------------------
(***************************************************************************)
(* The bridge core and the native IPC of its windows: runtime/bridge.go's  *)
(* RWMutex, subscriptions and dispatch, runtime/nativeipc.go's sessions,   *)
(* and the inbox that nativeIPCShim keeps for the page. The actors are     *)
(*   - goroutines of the application, which emit events;                   *)
(*   - the goroutine that the webview starts for each message of a page,   *)
(*     which may invoke a method or run event handlers;                    *)
(*   - per window, the event pump, whoever opens and closes the window     *)
(*     (named by the window itself where it takes the lock), and the UI    *)
(*     thread that runs dispatched closures in order.                      *)
(*                                                                         *)
(* sync.RWMutex: a writer that waits ("pending") keeps new readers out,    *)
(* also one that already holds a read lock. What the bridge does under the *)
(* write lock never blocks, so acquiring, doing it and releasing are one   *)
(* step; of the read sections only Emit and DispatchEvent take more.       *)
(*                                                                         *)
(* A definition Op_what is Op with the plausible bug "what"; it is not     *)
(* part of the specification. Each property is shown to notice one.        *)
(***************************************************************************)
EXTENDS Naturals, Sequences, FiniteSets

CONSTANTS
  Routine,     \* goroutines of the application
  Message,     \* messages of pages, each with the goroutine that runs it
  Window,      \* windows with a native session, each opened at most once
  SubCap,      \* capacity of a bridge subscription (64 in the code)
  MaxEmits     \* bound of the model: MaxEmits[t] events are emitted by goroutine t

Thread == Routine \cup Message

ASSUME NativeAssumption ==
  /\ SubCap \in Nat \ {0} /\ MaxEmits \in [Thread -> Nat]
  /\ Routine \cap Message = {} /\ Thread \cap Window = {}

VARIABLES
  pending,     \* {x} while x waits in mu.Lock, {} otherwise
  readers,     \* the threads that hold mu.RLock across steps
  pc,          \* where a thread is
  at,          \* the windows whose call a thread runs: {} or one
  todo,        \* subscriptions an Emit has yet to offer its event to
  emitted,     \* number of events a thread has emitted
  subs,        \* Bridge.subscribers
  sub,         \* contents of a window's subscription
  closed,      \* that channel is closed
  crash,       \* a send met a closed channel
  win,         \* the native window
  opener,      \* where the window's opener and closer are
  alive,       \* nativeSession.alive
  userClosed,  \* the user closed the window, not the program
  done,        \* the pump's done channel is closed
  quit,        \* App.ctx is cancelled
  pump,        \* where the event pump is
  pmsg,        \* the event it carries
  ui,          \* closures dispatched to the window's UI thread
  uipc,        \* where the UI thread is
  inbox,       \* frames the shim keeps until the page attaches
  attached,    \* the page's bridge has registered __goleoOnMessage
  lastEvent    \* last event of a thread that a page has handled

lockVars == <<pending, readers>>
emitVars == <<todo, emitted>>
subVars  == <<subs, sub, closed>>
winVars  == <<win, opener, alive, userClosed, done>>
pumpVars == <<pump, pmsg>>
uiVars   == <<ui, uipc>>
pageVars == <<inbox, attached, lastEvent>>
vars == <<lockVars, pc, at, emitVars, subVars, crash, winVars, quit, pumpVars,
          uiVars, pageVars>>

\* A frame is an event, or an answer (invokeResult or pong); Destroy is the
\* closure that closes the window.
Event == [kind : {"event"}, from : Thread, n : Nat]
Answer == [kind |-> "answer"]
Destroy == [kind |-> "destroy"]

Init ==
  /\ pending = {} /\ readers = {}
  /\ pc = [t \in Thread |-> "idle"] /\ at = [t \in Thread |-> {}]
  /\ todo = [t \in Thread |-> {}] /\ emitted = [t \in Thread |-> 0]
  /\ subs = {} /\ sub = [w \in Window |-> <<>>] /\ closed = [w \in Window |-> FALSE]
  /\ crash = FALSE
  /\ win = [w \in Window |-> "none"] /\ opener = [w \in Window |-> "none"]
  /\ alive = [w \in Window |-> FALSE] /\ userClosed = [w \in Window |-> FALSE]
  /\ done = [w \in Window |-> FALSE] /\ quit = FALSE
  /\ pump = [w \in Window |-> "none"] /\ pmsg = [w \in Window |-> Answer]
  /\ ui = [w \in Window |-> <<>>] /\ uipc = [w \in Window |-> "loop"]
  /\ inbox = [w \in Window |-> <<>>] /\ attached = [w \in Window |-> FALSE]
  /\ lastEvent = [t \in Thread |-> [w \in Window |-> 0]]

Running == ~crash

(***************************************************************************)
(* sync.RWMutex.                                                           *)
(***************************************************************************)

CanRLock == pending = {}

WantsLock(x) ==
  \/ x \in Window /\ opener[x] \in {"subscribing", "unsubscribing"}
  \/ x \in Thread /\ pc[x] \in {"registering", "handlerRegistering"}

\* mu.Lock announces itself; only one writer does at a time.
Announce(x) ==
  /\ Running /\ WantsLock(x) /\ pending = {}
  /\ pending' = {x}
  /\ UNCHANGED <<readers, pc, at, emitVars, subVars, crash, winVars, quit,
                 pumpVars, uiVars, pageVars>>

\* The last reader has left: x has the lock, and releases it in the same step.
Locked(x) == pending = {x} /\ readers = {} /\ pending' = {}

(***************************************************************************)
(* Bridge.Emit.                                                            *)
(***************************************************************************)

\* The body of Emit once it holds the read lock.
BeginEmit(t) ==
  /\ todo' = [todo EXCEPT ![t] = subs]
  /\ emitted' = [emitted EXCEPT ![t] = @ + 1]

\* An application goroutine emits.
Emit(t) ==
  /\ Running /\ t \in Routine /\ pc[t] = "idle" /\ emitted[t] < MaxEmits[t] /\ CanRLock
  /\ pc' = [pc EXCEPT ![t] = "emitting"]
  /\ readers' = readers \cup {t}
  /\ BeginEmit(t)
  /\ UNCHANGED <<pending, at, subVars, crash, winVars, quit, pumpVars, uiVars, pageVars>>

TrySend_unbounded(w, m) ==
  /\ sub' = [sub EXCEPT ![w] = Append(@, m)]
  /\ UNCHANGED crash

\* select { case sub <- msg: default: }
TrySend(w, m) ==
  IF closed[w]
  THEN crash' = TRUE /\ UNCHANGED sub
  ELSE /\ sub' = IF Len(sub[w]) < SubCap
                 THEN [sub EXCEPT ![w] = Append(@, m)] ELSE sub
       /\ UNCHANGED crash

EmitSends(t, w) ==
  /\ Running /\ pc[t] \in {"emitting", "handlerEmitting"} /\ w \in todo[t]
  /\ todo' = [todo EXCEPT ![t] = @ \ {w}]
  /\ TrySend(w, [kind |-> "event", from |-> t, n |-> emitted[t]])
  /\ UNCHANGED <<lockVars, pc, at, emitted, subs, closed, winVars, quit, pumpVars,
                 uiVars, pageVars>>

\* Emit returns; an event handler that emitted still holds its own read lock.
EmitReturns(t) ==
  /\ Running /\ todo[t] = {}
  /\ \/ /\ pc[t] = "emitting"
        /\ pc' = [pc EXCEPT ![t] = "idle"] /\ readers' = readers \ {t}
     \/ /\ pc[t] = "handlerEmitting"
        /\ pc' = [pc EXCEPT ![t] = "handler"] /\ UNCHANGED readers
  /\ UNCHANGED <<pending, at, emitVars, subVars, crash, winVars, quit, pumpVars,
                 uiVars, pageVars>>

(***************************************************************************)
(* Messages of a page. The webview runs each bound call, so each           *)
(* onMessage, on a goroutine of its own; the invoke's own goroutine is the *)
(* same thread here.                                                       *)
(***************************************************************************)

\* window.__goleoSend: an invoke, an event or a ping. The bound call begins. The
\* page's bridge sends nothing before it has registered for frames.
OnMessage(t, w) ==
  /\ Running /\ t \in Message /\ pc[t] = "idle" /\ win[w] = "open" /\ attached[w]
  /\ pc' = [pc EXCEPT ![t] = "lookup"] \/ pc' = [pc EXCEPT ![t] = "dispatch"]
                                       \/ pc' = [pc EXCEPT ![t] = "push"]
  /\ at' = [at EXCEPT ![t] = {w}]
  /\ UNCHANGED <<lockVars, emitVars, subVars, crash, winVars, quit, pumpVars,
                 uiVars, pageVars>>

Lookup_heldOver(t) ==
  /\ Running /\ pc[t] = "lookup" /\ CanRLock
  /\ pc' = [pc EXCEPT ![t] = "invoked"]
  /\ readers' = readers \cup {t}
  /\ UNCHANGED <<pending, at, emitVars, subVars, crash, winVars, quit, pumpVars,
                 uiVars, pageVars>>

\* HandleRequestContext copies policy and handler under the read lock. A denied
\* or unknown method is answered at once.
Lookup(t) ==
  /\ Running /\ pc[t] = "lookup" /\ CanRLock
  /\ pc' = [pc EXCEPT ![t] = "invoked"] \/ pc' = [pc EXCEPT ![t] = "push"]
  /\ UNCHANGED <<lockVars, at, emitVars, subVars, crash, winVars, quit, pumpVars,
                 uiVars, pageVars>>

InvokeReturns(t) ==
  /\ Running /\ pc[t] = "invoked"
  /\ pc' = [pc EXCEPT ![t] = "push"]
  /\ UNCHANGED <<lockVars, at, emitVars, subVars, crash, winVars, quit, pumpVars,
                 uiVars, pageVars>>

\* The handler of an invoke calls Handle, On or SetPolicy.
InvokeRegisters(t) ==
  /\ Running /\ pc[t] = "invoked"
  /\ pc' = [pc EXCEPT ![t] = "registering"]
  /\ UNCHANGED <<lockVars, at, emitVars, subVars, crash, winVars, quit, pumpVars,
                 uiVars, pageVars>>

\* DispatchEvent: its handlers run while it holds the read lock.
DispatchEvent(t) ==
  /\ Running /\ pc[t] = "dispatch" /\ CanRLock
  /\ pc' = [pc EXCEPT ![t] = "handler"]
  /\ readers' = readers \cup {t}
  /\ UNCHANGED <<pending, at, emitVars, subVars, crash, winVars, quit, pumpVars,
                 uiVars, pageVars>>

\* An event handler goes on to emit an event, or to register a handler.
HandlerReenters(t) ==
  /\ Running /\ pc[t] = "handler"
  /\ \/ emitted[t] < MaxEmits[t] /\ pc' = [pc EXCEPT ![t] = "handlerWantsEmit"]
     \/ pc' = [pc EXCEPT ![t] = "handlerRegistering"]
  /\ UNCHANGED <<lockVars, at, emitVars, subVars, crash, winVars, quit, pumpVars,
                 uiVars, pageVars>>

\* Emit called by an event handler: a second read lock of the same goroutine.
HandlerEmits(t) ==
  /\ Running /\ pc[t] = "handlerWantsEmit" /\ CanRLock
  /\ pc' = [pc EXCEPT ![t] = "handlerEmitting"]
  /\ BeginEmit(t)
  /\ UNCHANGED <<lockVars, at, subVars, crash, winVars, quit, pumpVars, uiVars, pageVars>>

HandlerReturns(t) ==
  /\ Running /\ pc[t] = "handler"
  /\ pc' = [pc EXCEPT ![t] = "ended"] /\ at' = [at EXCEPT ![t] = {}]
  /\ readers' = readers \ {t}
  /\ UNCHANGED <<pending, emitVars, subVars, crash, winVars, quit, pumpVars,
                 uiVars, pageVars>>

\* Handle, On or SetPolicy gets the write lock, writes and releases it.
Registered(t) ==
  /\ Running /\ pc[t] \in {"registering", "handlerRegistering"} /\ Locked(t)
  /\ pc' = [pc EXCEPT ![t] = IF @ = "registering" THEN "invoked" ELSE "handler"]
  /\ UNCHANGED <<readers, at, emitVars, subVars, crash, winVars, quit, pumpVars,
                 uiVars, pageVars>>

(***************************************************************************)
(* evalRecv: alive is read first, and again by the closure that evaluates. *)
(***************************************************************************)

\* ev.Dispatch: a destroyed window takes no closures any more; one that the
\* user closed shares the main loop, which still runs them.
Dispatch(w, f) ==
  ui' = IF win[w] = "gone" /\ ~userClosed[w] THEN ui ELSE [ui EXCEPT ![w] = Append(@, f)]

PushChecks(t) ==
  /\ Running /\ pc[t] = "push"
  /\ \E w \in at[t] :
       IF alive[w] THEN pc' = [pc EXCEPT ![t] = "pushing"] /\ UNCHANGED at
       ELSE pc' = [pc EXCEPT ![t] = "ended"] /\ at' = [at EXCEPT ![t] = {}]
  /\ UNCHANGED <<lockVars, emitVars, subVars, crash, winVars, quit, pumpVars,
                 uiVars, pageVars>>

PushDispatches(t) ==
  /\ Running /\ pc[t] = "pushing"
  /\ \E w \in at[t] : Dispatch(w, Answer)
  /\ pc' = [pc EXCEPT ![t] = "ended"] /\ at' = [at EXCEPT ![t] = {}]
  /\ UNCHANGED <<lockVars, emitVars, subVars, crash, winVars, quit, pumpVars,
                 uipc, pageVars>>

(***************************************************************************)
(* startEventPump's goroutine.                                             *)
(***************************************************************************)

PumpTakes_newest(w) ==
  /\ Running /\ pump[w] = "wait" /\ sub[w] # <<>>
  /\ pump' = [pump EXCEPT ![w] = "push"]
  /\ pmsg' = [pmsg EXCEPT ![w] = sub[w][Len(sub[w])]]
  /\ sub' = [sub EXCEPT ![w] = SubSeq(@, 1, Len(@) - 1)]
  /\ UNCHANGED <<lockVars, pc, at, emitVars, subs, closed, crash, winVars, quit,
                 uiVars, pageVars>>

PumpTakes(w) ==
  /\ Running /\ pump[w] = "wait" /\ sub[w] # <<>>
  /\ pump' = [pump EXCEPT ![w] = "push"]
  /\ pmsg' = [pmsg EXCEPT ![w] = Head(sub[w])]
  /\ sub' = [sub EXCEPT ![w] = Tail(@)]
  /\ UNCHANGED <<lockVars, pc, at, emitVars, subs, closed, crash, winVars, quit,
                 uiVars, pageVars>>

PumpChecks(w) ==
  /\ Running /\ pump[w] = "push"
  /\ IF alive[w] THEN pump' = [pump EXCEPT ![w] = "dispatch"] /\ UNCHANGED pmsg
     ELSE pump' = [pump EXCEPT ![w] = "wait"] /\ pmsg' = [pmsg EXCEPT ![w] = Answer]
  /\ UNCHANGED <<lockVars, pc, at, emitVars, subVars, crash, winVars, quit, uiVars,
                 pageVars>>

PumpDispatches(w) ==
  /\ Running /\ pump[w] = "dispatch"
  /\ Dispatch(w, pmsg[w])
  /\ pump' = [pump EXCEPT ![w] = "wait"] /\ pmsg' = [pmsg EXCEPT ![w] = Answer]
  /\ UNCHANGED <<lockVars, pc, at, emitVars, subVars, crash, winVars, quit, uipc,
                 pageVars>>

\* case <-done, case <-app.ctx.Done(), or the subscription is closed and empty.
PumpReturns(w) ==
  /\ Running /\ pump[w] = "wait"
  /\ done[w] \/ quit \/ (closed[w] /\ sub[w] = <<>>)
  /\ pump' = [pump EXCEPT ![w] = "returned"]
  /\ UNCHANGED <<lockVars, pc, at, emitVars, subVars, crash, winVars, quit, pmsg,
                 uiVars, pageVars>>

(***************************************************************************)
(* A window's life.                                                        *)
(***************************************************************************)

\* NewWebviewWindow with nativeOnInit's session; startEventPump calls Subscribe.
OpenWindow(w) ==
  /\ Running /\ win[w] = "none"
  /\ win' = [win EXCEPT ![w] = "open"] /\ alive' = [alive EXCEPT ![w] = TRUE]
  /\ opener' = [opener EXCEPT ![w] = "subscribing"]
  /\ UNCHANGED <<lockVars, pc, at, emitVars, subVars, crash, userClosed, done, quit,
                 pumpVars, uiVars, pageVars>>

\* Subscribe returns and the pump starts.
Subscribe(w) ==
  /\ Running /\ opener[w] = "subscribing" /\ Locked(w)
  /\ subs' = subs \cup {w}
  /\ pump' = [pump EXCEPT ![w] = "wait"]
  /\ opener' = [opener EXCEPT ![w] = "open"]
  /\ UNCHANGED <<readers, pc, at, emitVars, sub, closed, crash, win, alive, userClosed,
                 done, quit, pmsg, uiVars, pageVars>>

\* The pump's stop: by mainLoopWindowManager.Close while the window is there,
\* or deferred by a goroutine whose run loop has ended. It closes done first.
StopBegins(w) ==
  /\ Running /\ opener[w] = "open"
  /\ done' = [done EXCEPT ![w] = TRUE]
  /\ opener' = [opener EXCEPT ![w] = "unsubscribing"]
  /\ UNCHANGED <<lockVars, pc, at, emitVars, subVars, crash, win, alive, userClosed,
                 quit, pumpVars, uiVars, pageVars>>

Unsubscribe_underReadLock(w) ==
  /\ Running /\ opener[w] = "unsubscribing" /\ pending \subseteq {w} /\ pending' = {}
  /\ subs' = subs \ {w} /\ closed' = [closed EXCEPT ![w] = TRUE]
  /\ opener' = [opener EXCEPT ![w] = "marking"]
  /\ UNCHANGED <<readers, pc, at, emitVars, sub, crash, win, alive, userClosed, done,
                 quit, pumpVars, uiVars, pageVars>>

Unsubscribe(w) ==
  /\ Running /\ opener[w] = "unsubscribing" /\ Locked(w)
  /\ subs' = subs \ {w} /\ closed' = [closed EXCEPT ![w] = TRUE]
  /\ opener' = [opener EXCEPT ![w] = "marking"]
  /\ UNCHANGED <<readers, pc, at, emitVars, sub, crash, win, alive, userClosed, done,
                 quit, pumpVars, uiVars, pageVars>>

StopMarks(w) ==
  /\ Running /\ opener[w] = "marking"
  /\ alive' = [alive EXCEPT ![w] = FALSE]
  /\ opener' = [opener EXCEPT ![w] = "destroying"]
  /\ UNCHANGED <<lockVars, pc, at, emitVars, subVars, crash, win, userClosed, done,
                 quit, pumpVars, uiVars, pageVars>>

\* primary.Dispatch(func() { mw.win.Destroy() })
CloseDispatches(w) ==
  /\ Running /\ opener[w] = "destroying"
  /\ Dispatch(w, Destroy)
  /\ opener' = [opener EXCEPT ![w] = "closed"]
  /\ UNCHANGED <<lockVars, pc, at, emitVars, subVars, crash, win, alive, userClosed,
                 done, quit, pumpVars, uipc, pageVars>>

\* A window with a run loop of its own: the loop ends (Terminate, or the user)
\* and the window is destroyed, before the deferred stop. Closures are dropped.
RunReturns(w) ==
  /\ Running /\ win[w] = "open" /\ opener[w] # "subscribing" /\ uipc[w] = "loop"
  /\ win' = [win EXCEPT ![w] = "gone"] /\ ui' = [ui EXCEPT ![w] = <<>>]
  /\ UNCHANGED <<lockVars, pc, at, emitVars, subVars, crash, opener, alive, userClosed,
                 done, quit, pumpVars, uipc, pageVars>>

\* The user closes a window that shares the main loop: nothing tells its session.
UserCloses(w) ==
  /\ Running /\ win[w] = "open" /\ uipc[w] = "loop"
  /\ win' = [win EXCEPT ![w] = "gone"] /\ userClosed' = [userClosed EXCEPT ![w] = TRUE]
  /\ UNCHANGED <<lockVars, pc, at, emitVars, subVars, crash, opener, alive, done,
                 quit, pumpVars, uiVars, pageVars>>

Quit ==
  /\ Running /\ ~quit /\ quit' = TRUE
  /\ UNCHANGED <<lockVars, pc, at, emitVars, subVars, crash, winVars, pumpVars,
                 uiVars, pageVars>>

(***************************************************************************)
(* The UI thread runs closures in order; the page handles frames.          *)
(***************************************************************************)

UiCheck_trusting(w) ==
  /\ Running /\ uipc[w] = "loop" /\ ui[w] # <<>> /\ Head(ui[w]).kind # "destroy"
  /\ uipc' = [uipc EXCEPT ![w] = "eval"]
  /\ UNCHANGED <<lockVars, pc, at, emitVars, subVars, crash, winVars, quit, pumpVars,
                 ui, pageVars>>

\* The closure of evalRecv reads alive again, on the UI thread.
UiCheck(w) ==
  /\ Running /\ uipc[w] = "loop" /\ ui[w] # <<>> /\ Head(ui[w]).kind # "destroy"
  /\ IF alive[w] THEN uipc' = [uipc EXCEPT ![w] = "eval"] /\ UNCHANGED ui
     ELSE ui' = [ui EXCEPT ![w] = Tail(@)] /\ UNCHANGED uipc
  /\ UNCHANGED <<lockVars, pc, at, emitVars, subVars, crash, winVars, quit, pumpVars,
                 pageVars>>

\* The last event of t in a sequence of frames, or the last one already handled.
LastOf(t, w, s) ==
  LET mine == {i \in DOMAIN s : s[i].kind = "event" /\ s[i].from = t}
  IN IF mine = {} THEN lastEvent[t][w]
     ELSE s[CHOOSE i \in mine : \A j \in mine : j <= i].n

\* handleMessage for each frame, in order.
PageHandles(w, s) ==
  lastEvent' = [t \in Thread |-> [lastEvent[t] EXCEPT ![w] = LastOf(t, w, s)]]

\* ev.Eval(js): __goleoRecv hands the frame to the bridge or keeps it.
UiEval(w) ==
  /\ Running /\ uipc[w] = "eval"
  /\ uipc' = [uipc EXCEPT ![w] = "loop"] /\ ui' = [ui EXCEPT ![w] = Tail(@)]
  /\ IF win[w] # "open" THEN UNCHANGED pageVars
     ELSE IF attached[w]
          THEN PageHandles(w, <<Head(ui[w])>>) /\ UNCHANGED <<inbox, attached>>
          ELSE /\ inbox' = [inbox EXCEPT ![w] = Append(@, Head(ui[w]))]
               /\ UNCHANGED <<attached, lastEvent>>
  /\ UNCHANGED <<lockVars, pc, at, emitVars, subVars, crash, winVars, quit, pumpVars>>

UiDestroys(w) ==
  /\ Running /\ uipc[w] = "loop" /\ ui[w] # <<>> /\ Head(ui[w]).kind = "destroy"
  /\ ui' = [ui EXCEPT ![w] = Tail(@)]
  /\ win' = [win EXCEPT ![w] = "gone"]
  /\ UNCHANGED <<lockVars, pc, at, emitVars, subVars, crash, opener, alive, userClosed,
                 done, quit, pumpVars, uipc, pageVars>>

\* setupNative: register for frames, then drain those the shim kept.
Attach(w) ==
  /\ Running /\ win[w] = "open" /\ ~attached[w]
  /\ attached' = [attached EXCEPT ![w] = TRUE]
  /\ inbox' = [inbox EXCEPT ![w] = <<>>]
  /\ PageHandles(w, inbox[w])
  /\ UNCHANGED <<lockVars, pc, at, emitVars, subVars, crash, winVars, quit, pumpVars, uiVars>>

-----------------------------------------------------------------------------

Calls(t) ==
  \/ Lookup(t) \/ InvokeReturns(t) \/ InvokeRegisters(t) \/ Registered(t)
  \/ DispatchEvent(t) \/ HandlerReenters(t) \/ HandlerEmits(t) \/ HandlerReturns(t)
  \/ PushChecks(t) \/ PushDispatches(t)
  \/ \E w \in Window : OnMessage(t, w)

Emits(t) == Emit(t) \/ EmitReturns(t) \/ \E w \in Window : EmitSends(t, w)

Pump(w) == PumpTakes(w) \/ PumpChecks(w) \/ PumpDispatches(w) \/ PumpReturns(w)

Lives(w) ==
  \/ OpenWindow(w) \/ Subscribe(w) \/ StopBegins(w) \/ Unsubscribe(w) \/ StopMarks(w)
  \/ CloseDispatches(w) \/ RunReturns(w) \/ UserCloses(w)

UI(w) == UiCheck(w) \/ UiEval(w) \/ UiDestroys(w) \/ Attach(w)

Next ==
  \/ Quit
  \/ \E x \in Thread \cup Window : Announce(x)
  \/ \E t \in Thread : Calls(t) \/ Emits(t)
  \/ \E w \in Window : Pump(w) \/ Lives(w) \/ UI(w)

Spec == Init /\ [][Next]_vars

(***************************************************************************)
(* Fairness: goroutines run, an event handler returns unless it re-enters  *)
(* the bridge, and a goroutine that wants mu gets its turn among the       *)
(* others (RWMutex queues writers in order and lets waiting readers in     *)
(* between two of them). Nothing is assumed of windows, users, pages, or   *)
(* of the handlers of invokes.                                             *)
(***************************************************************************)
Fairness ==
  /\ \A t \in Thread :
       /\ WF_vars(Registered(t)) /\ WF_vars(HandlerReturns(t)) /\ WF_vars(Emits(t) /\ pc[t] # "idle")
       /\ SF_vars(HandlerEmits(t))
  /\ \A w \in Window :
       /\ SF_vars(Announce(w))
       /\ WF_vars(Subscribe(w) \/ Unsubscribe(w) \/ StopMarks(w) \/ CloseDispatches(w))
       /\ WF_vars(PumpChecks(w)) /\ WF_vars(PumpDispatches(w)) /\ SF_vars(PumpReturns(w))

FairSpec == Spec /\ Fairness
-----------------------------------------------------------------------------
(***************************************************************************)
(* Properties.                                                             *)
(***************************************************************************)

ThreadStates ==
  {"idle", "emitting", "lookup", "invoked", "registering", "dispatch", "handler",
   "handlerWantsEmit", "handlerEmitting", "handlerRegistering", "push", "pushing", "ended"}

TypeOK ==
  /\ pending \subseteq Thread \cup Window /\ readers \subseteq Thread
  /\ pc \in [Thread -> ThreadStates] /\ at \in [Thread -> SUBSET Window]
  /\ todo \in [Thread -> SUBSET Window] /\ emitted \in [Thread -> Nat]
  /\ subs \subseteq Window
  /\ sub \in [Window -> Seq(Event)] /\ \A w \in Window : Len(sub[w]) <= SubCap
  /\ closed \in [Window -> BOOLEAN] /\ crash \in BOOLEAN
  /\ win \in [Window -> {"none", "open", "gone"}]
  /\ opener \in [Window -> {"none", "subscribing", "open", "unsubscribing", "marking",
                            "destroying", "closed"}]
  /\ alive \in [Window -> BOOLEAN] /\ userClosed \in [Window -> BOOLEAN]
  /\ done \in [Window -> BOOLEAN] /\ quit \in BOOLEAN
  /\ pump \in [Window -> {"none", "wait", "push", "dispatch", "returned"}]
  /\ pmsg \in [Window -> Event \cup {Answer}]
  /\ ui \in [Window -> Seq(Event \cup {Answer, Destroy})]
  /\ uipc \in [Window -> {"loop", "eval"}]
  /\ inbox \in [Window -> Seq(Event \cup {Answer, Destroy})]
  /\ attached \in [Window -> BOOLEAN]
  /\ lastEvent \in [Thread -> [Window -> Nat]]

(***************************************************************************)
(* A window that closes while events are being emitted never makes Emit    *)
(* send on its closed subscription: Emit sends under the read lock and     *)
(* Unsubscribe closes under the write lock (bridge.go).                    *)
(***************************************************************************)
NeverSendsOnClosed == ~crash

(***************************************************************************)
(* No frame is evaluated in a window the program has destroyed, whatever   *)
(* was queued for it: the closure reads alive again, on the thread that    *)
(* destroys the window. Only a window the user closed escapes the guard,   *)
(* since nothing stops its session (nativeipc.go, evalRecv).               *)
(***************************************************************************)
EvalsLiveWindow ==
  \A w \in Window : uipc[w] = "eval" => win[w] = "open" \/ userClosed[w]

(***************************************************************************)
(* Each page handles what one goroutine emits in order, each event at most *)
(* once and never before it was emitted: subscription, pump, dispatch      *)
(* queue and inbox implement EventFeed, for each goroutine. (Events of two *)
(* goroutines may reach two windows in different orders.)                  *)
(***************************************************************************)
Feed(t) == INSTANCE EventFeed
             WITH Client <- Window, emitted <- emitted[t], lastEvent <- lastEvent[t]
EventsInOrder ==        \* \A t \in Thread : Feed(t)!Spec, in a form TLC takes
  /\ \A t \in Thread : Feed(t)!Init
  /\ [][\A t \in Thread : [Feed(t)!Next]_<<emitted[t], lastEvent[t]>>]_vars

\* An event handler, under its read lock, waits for a lock that waits for it.
Stuck ==
  \E t \in readers : \/ pc[t] = "handlerWantsEmit" /\ pending # {}
                     \/ pc[t] = "handlerRegistering"

(***************************************************************************)
(* Closing a window comes to an end, with its pump and its subscription,   *)
(* whatever invokes, emits and registrations go on: only an event handler  *)
(* that calls back into the bridge can keep the lock from it.              *)
(***************************************************************************)
StopCompletes ==
  \A w \in Window :
    opener[w] = "unsubscribing"
      ~> \/ opener[w] = "closed" /\ pump[w] = "returned" /\ w \notin subs
         \/ Stuck \/ crash
=============================================================================

------------------------------ MODULE Windows ------------------------------
(***************************************************************************)
(* The life of a desktop application and of the windows it opens: App.Run  *)
(* from the moment the window manager exists, Quit and shutdown (app.go),  *)
(* and the three window managers (windowmanager.go, one child process per  *)
(* window, or on Windows one thread per window; windowmanager_mainloop.go, *)
(* all windows on the main thread). The actors are the main goroutine,     *)
(* one OpenWindow call per window, the goroutine that waits for a window   *)
(* to end, any goroutine that calls CloseWindow or Quit, the user, and the *)
(* loop of the main thread.                                                *)
(*                                                                         *)
(* What the toolkit does when the user closes a window is modelled from    *)
(* the vendored glaze library: with threads of their own, only the window  *)
(* that is closed last has its loop ended; on macOS the shared loop ends   *)
(* with the last window, on Linux with the primary one.                    *)
(***************************************************************************)
EXTENDS Naturals, Sequences, FiniteSets

CONSTANTS
  Window,      \* the windows the application opens, one per call of OpenWindow
  ExitOnClose  \* those it opens with WindowOptions.ExitOnClose

ASSUME WindowsAssumption == ExitOnClose \subseteq Window

VARIABLES
  kind,        \* the manager Run selects
  opener,      \* where the window's Open is
  native,      \* the window itself: its process, or the native window
  loopEnd,     \* the loop of a window's own thread was told to end
  wins,        \* the manager's map
  reaper,      \* where the goroutine that waits for the window's end is
  closer,      \* where the manager's Close of the window is (main-loop manager)
  userClosed,  \* the user closed the window
  said,        \* window:opened and window:closed events emitted for it
  queue,       \* closures dispatched to the loop of the main thread
  quit,        \* App.ctx is cancelled
  main,        \* where Run is
  primary,     \* the primary window
  mainEnd,     \* the loop of the main thread was told to end
  toClose,     \* windows CloseAll has yet to close
  mine,        \* the windows shutdown's CloseAll has removed itself
  missed       \* windows that were not in the map when CloseAll read it

winVars  == <<native, loopEnd, userClosed>>
mgrVars  == <<opener, wins, reaper, closer, said>>
mainVars == <<main, primary, mainEnd, toClose, mine, missed>>
vars == <<kind, winVars, mgrVars, queue, quit, mainVars>>

\* A child process per window; a thread per window (Windows, with
\* InProcessWindows); the main thread for all (the same, elsewhere).
MainLoop == {"linux", "darwin"}
Kind == {"process", "thread"} \cup MainLoop

Init ==
  /\ kind \in Kind
  /\ opener = [w \in Window |-> "none"] /\ native = [w \in Window |-> "none"]
  /\ loopEnd = [w \in Window |-> FALSE] /\ wins = {}
  /\ reaper = [w \in Window |-> "none"] /\ closer = [w \in Window |-> "none"]
  /\ userClosed = [w \in Window |-> FALSE]
  /\ said = [w \in Window |-> <<>>] /\ queue = <<>> /\ quit = FALSE
  /\ main = "starting" /\ primary = "none" /\ mainEnd = FALSE
  /\ toClose = {} /\ mine = {} /\ missed = {}

\* The process of the application exists.
Running == main # "stopped"

Say(w, what) == said' = [said EXCEPT ![w] = Append(@, what)]

(***************************************************************************)
(* Open.                                                                   *)
(***************************************************************************)

\* cmd.Start: the window's process exists before the map knows it.
OpenStartsProcess(w) ==
  /\ Running /\ kind = "process" /\ opener[w] = "none"
  /\ native' = [native EXCEPT ![w] = "up"]
  /\ opener' = [opener EXCEPT ![w] = "made"]
  /\ UNCHANGED <<kind, loopEnd, userClosed, wins, reaper, closer, said, queue, quit, mainVars>>

\* go func() { LockOSThread ... }: Open waits on ready.
OpenStartsThread(w) ==
  /\ Running /\ kind = "thread" /\ opener[w] = "none"
  /\ reaper' = [reaper EXCEPT ![w] = "creating"]
  /\ opener' = [opener EXCEPT ![w] = "waiting"]
  /\ UNCHANGED <<kind, winVars, wins, closer, said, queue, quit, mainVars>>

\* The thread has made its window, and ready hands it back; or it could not, and
\* the Run of a window without a backend returns at once.
ThreadCreates(w) ==
  /\ Running /\ reaper[w] = "creating"
  /\ \/ native' = [native EXCEPT ![w] = "up"] /\ UNCHANGED loopEnd
     \/ native' = [native EXCEPT ![w] = "gone"] /\ loopEnd' = [loopEnd EXCEPT ![w] = TRUE]
  /\ reaper' = [reaper EXCEPT ![w] = "running"]
  /\ UNCHANGED <<kind, userClosed, opener, wins, closer, said, queue, quit, mainVars>>

OpenDispatches_inserting(w) ==
  /\ Running /\ kind \in MainLoop /\ opener[w] = "none" /\ primary # "none"
  /\ queue' = Append(queue, [op |-> "create", win |-> w])
  /\ opener' = [opener EXCEPT ![w] = "waiting"] /\ wins' = wins \cup {w}
  /\ UNCHANGED <<kind, winVars, reaper, closer, said, quit, mainVars>>

\* The main-loop manager has waited for the primary window, and dispatches.
OpenDispatches(w) ==
  /\ Running /\ kind \in MainLoop /\ opener[w] = "none" /\ primary # "none"
  /\ queue' = Append(queue, [op |-> "create", win |-> w])
  /\ opener' = [opener EXCEPT ![w] = "waiting"]
  /\ UNCHANGED <<kind, winVars, wins, reaper, closer, said, quit, mainVars>>

\* time.After(10 s), before the primary window exists or before this one does;
\* or the window was not made. The closure that makes the window stays queued.
OpenFails(w) ==
  /\ Running /\ kind \in MainLoop
  /\ \/ opener[w] = "none" /\ primary = "none"
     \/ opener[w] = "waiting" /\ native[w] = "none"
  /\ opener' = [opener EXCEPT ![w] = "failed"]
  /\ UNCHANGED <<kind, winVars, wins, reaper, closer, said, queue, quit, mainVars>>

\* win := <-ready, or win = <-done
OpenReceives(w) ==
  /\ Running /\ opener[w] = "waiting" /\ native[w] # "none"
  /\ opener' = [opener EXCEPT ![w] = "made"]
  /\ UNCHANGED <<kind, winVars, wins, reaper, closer, said, queue, quit, mainVars>>

\* wins[id] = ...; a process gets its reaper now, a thread is its own.
OpenInserts(w) ==
  /\ Running /\ opener[w] = "made"
  /\ wins' = wins \cup {w}
  /\ opener' = [opener EXCEPT ![w] = "inserted"]
  /\ reaper' = IF kind = "process" THEN [reaper EXCEPT ![w] = "running"] ELSE reaper
  /\ UNCHANGED <<kind, winVars, closer, said, queue, quit, mainVars>>

OpenAnnounces(w) ==
  /\ Running /\ opener[w] = "inserted"
  /\ Say(w, "opened")
  /\ opener' = [opener EXCEPT ![w] = "opened"]
  /\ UNCHANGED <<kind, winVars, wins, reaper, closer, queue, quit, mainVars>>

(***************************************************************************)
(* The end of a window that has a process or a thread of its own.          *)
(***************************************************************************)

\* The user closes it. Of several threads' windows the toolkit ends the loop of
\* the last one only.
UserCloses(w) ==
  /\ native[w] = "up"
  /\ native' = [native EXCEPT ![w] = "gone"]
  /\ userClosed' = [userClosed EXCEPT ![w] = TRUE]
  /\ LET last == primary # "up" /\ \A v \in Window \ {w} : native[v] # "up"
     IN /\ loopEnd' = IF kind = "thread" /\ last
                      THEN [loopEnd EXCEPT ![w] = TRUE] ELSE loopEnd
        /\ mainEnd' = (mainEnd \/ (kind = "darwin" /\ last))
  /\ UNCHANGED <<kind, mgrVars, queue, quit, main, primary, toClose, mine, missed>>

\* cmd.Wait returns, or Run returns and the thread destroys its window; the map
\* forgets the window.
ReaperRemoves(w) ==
  /\ Running /\ reaper[w] = "running"
  /\ IF kind = "process" THEN native[w] = "gone" ELSE loopEnd[w]
  /\ native' = [native EXCEPT ![w] = "gone"]
  /\ wins' = wins \ {w}
  /\ reaper' = [reaper EXCEPT ![w] = "removed"]
  /\ UNCHANGED <<kind, loopEnd, userClosed, opener, closer, said, queue, quit, mainVars>>

ReaperAnnounces(w) ==
  /\ Running /\ reaper[w] = "removed"
  /\ Say(w, "closed")
  /\ reaper' = [reaper EXCEPT ![w] = "announced"]
  /\ UNCHANGED <<kind, winVars, opener, wins, closer, queue, quit, mainVars>>

ReaperQuits_never(w) ==
  /\ Running /\ reaper[w] = "announced"
  /\ reaper' = [reaper EXCEPT ![w] = "done"]
  /\ UNCHANGED <<kind, winVars, opener, wins, closer, said, queue, quit, mainVars>>

ReaperQuits(w) ==
  /\ Running /\ reaper[w] = "announced"
  /\ quit' = (quit \/ w \in ExitOnClose)
  /\ reaper' = [reaper EXCEPT ![w] = "done"]
  /\ UNCHANGED <<kind, winVars, opener, wins, closer, said, queue, mainVars>>

(***************************************************************************)
(* Close.                                                                  *)
(***************************************************************************)

\* WindowManager.Close: Process.Kill. inProcWindowManager.Close: Terminate is
\* dispatched to the window, which takes no message when it is gone.
Ends(w) ==
  /\ native' = IF kind = "process" THEN [native EXCEPT ![w] = "gone"] ELSE native
  /\ loopEnd' = IF kind = "thread" /\ native[w] = "up"
                THEN [loopEnd EXCEPT ![w] = TRUE] ELSE loopEnd
  /\ UNCHANGED userClosed

CloseEnds(w) ==
  /\ Running /\ kind \notin MainLoop /\ w \in wins
  /\ Ends(w)
  /\ UNCHANGED <<kind, mgrVars, queue, quit, mainVars>>

Removes_notYet(w) ==
  /\ kind \in MainLoop /\ w \in wins
  /\ closer' = [closer EXCEPT ![w] = "removed"]
  /\ UNCHANGED wins

\* mainLoopWindowManager.Close takes the entry out first, then stops the pump.
Removes(w) ==
  /\ kind \in MainLoop /\ w \in wins
  /\ wins' = wins \ {w}
  /\ closer' = [closer EXCEPT ![w] = "removed"]

CloseRemoves(w) ==
  /\ Running /\ Removes(w)
  /\ UNCHANGED <<kind, winVars, opener, reaper, said, queue, quit, mainVars>>

CloseDispatches_nothing(w) ==
  /\ Running /\ closer[w] = "removed"
  /\ closer' = [closer EXCEPT ![w] = "dispatched"]
  /\ UNCHANGED <<kind, winVars, opener, wins, reaper, said, queue, quit, mainVars>>

\* primary.Dispatch(func() { mw.win.Destroy() })
CloseDispatches(w) ==
  /\ Running /\ closer[w] = "removed"
  /\ queue' = Append(queue, [op |-> "destroy", win |-> w])
  /\ closer' = [closer EXCEPT ![w] = "dispatched"]
  /\ UNCHANGED <<kind, winVars, opener, wins, reaper, said, quit, mainVars>>

CloseAnnounces(w) ==
  /\ Running /\ closer[w] = "dispatched"
  /\ Say(w, "closed")
  /\ closer' = [closer EXCEPT ![w] = "announced"]
  /\ UNCHANGED <<kind, winVars, opener, wins, reaper, queue, quit, mainVars>>

CloseQuits(w) ==
  /\ Running /\ closer[w] = "announced"
  /\ quit' = (quit \/ w \in ExitOnClose)
  /\ closer' = [closer EXCEPT ![w] = "done"]
  /\ UNCHANGED <<kind, winVars, opener, wins, reaper, said, queue, mainVars>>

(***************************************************************************)
(* App.Run and the loop of the main thread.                                *)
(***************************************************************************)

\* runWebview: the primary window, and setPrimary.
RunWebview ==
  /\ main = "starting" /\ main' = "run" /\ primary' = "up"
  /\ UNCHANGED <<kind, winVars, mgrVars, queue, quit, mainEnd, toClose, mine, missed>>

\* Config.Background: no primary window, only a wait for the context or a signal.
RunBackground ==
  /\ main = "starting" /\ main' = "run"
  /\ UNCHANGED <<kind, winVars, mgrVars, queue, quit, primary, mainEnd, toClose, mine, missed>>

\* The loop runs the closure at the head of its queue; a window may fail to be made.
LoopRuns ==
  /\ main = "run" /\ primary # "none" /\ queue # <<>>
  /\ LET c == Head(queue)
     IN \/ native' = [native EXCEPT ![c.win] = IF c.op = "create" THEN "up" ELSE "gone"]
        \/ c.op = "create" /\ UNCHANGED native
  /\ queue' = Tail(queue)
  /\ UNCHANGED <<kind, loopEnd, userClosed, mgrVars, quit, mainVars>>

UserClosesPrimary ==
  /\ Running /\ primary = "up" /\ primary' = "gone"
  /\ LET last == \A w \in Window : native[w] # "up"
     IN mainEnd' = (mainEnd \/ kind \in {"process", "linux"} \/ last)
  /\ UNCHANGED <<kind, winVars, mgrVars, queue, quit, main, toClose, mine, missed>>

\* App.Quit: by a handler, a goroutine, or a signal that has the same effect.
Quit ==
  /\ Running /\ ~quit /\ quit' = TRUE
  /\ UNCHANGED <<kind, winVars, mgrVars, queue, mainVars>>

EndRunLoop_ofWindow ==
  /\ main = "run" /\ quit /\ ~mainEnd /\ primary = "up"
  /\ mainEnd' = TRUE
  /\ UNCHANGED <<kind, winVars, mgrVars, queue, quit, main, primary, toClose, mine, missed>>

\* The goroutine of runWebview that waits for the context ends the loop (in the
\* background mode Run itself waits); on Windows its message is lost if the
\* primary window is gone.
EndRunLoop ==
  /\ main = "run" /\ quit /\ ~mainEnd
  /\ kind = "thread" => primary # "gone"
  /\ mainEnd' = TRUE
  /\ UNCHANGED <<kind, winVars, mgrVars, queue, quit, main, primary, toClose, mine, missed>>

\* Run returns; shutdown's CloseAll reads the map.
RunReturns ==
  /\ main = "run" /\ mainEnd
  /\ main' = "closing" /\ toClose' = wins /\ missed' = Window \ wins
  /\ UNCHANGED <<kind, winVars, mgrVars, queue, quit, primary, mainEnd, mine>>

\* The windows CloseAll has begun to close are closed.
CloseAllFree == \A w \in mine : closer[w] = "done"

CloseAllCloses_first(w) ==
  /\ main = "closing" /\ w \in toClose
  /\ toClose' = {}
  /\ Ends(w)
  /\ UNCHANGED <<kind, mgrVars, queue, quit, main, primary, mainEnd, mine, missed>>

\* CloseAll closes the next window of the list it has read.
CloseAllCloses(w) ==
  /\ main = "closing" /\ w \in toClose /\ CloseAllFree
  /\ toClose' = toClose \ {w}
  /\ IF kind \in MainLoop /\ w \in wins
     THEN Removes(w) /\ mine' = mine \cup {w} /\ UNCHANGED winVars
     ELSE IF kind = "process" \/ w \in wins
     THEN Ends(w) /\ UNCHANGED <<mine, wins, closer>>
     ELSE UNCHANGED <<winVars, mine, wins, closer>>
  /\ UNCHANGED <<kind, opener, reaper, said, queue, quit, main, primary, mainEnd, missed>>

\* app:shutdown, jsr.Stop, server.Stop; the process ends and so do its windows,
\* but not its child processes.
ShutdownEnds ==
  /\ main = "closing" /\ toClose = {} /\ CloseAllFree
  /\ main' = "stopped" /\ primary' = "gone"
  /\ native' = IF kind = "process" THEN native
               ELSE [w \in Window |-> IF native[w] = "none" THEN "none" ELSE "gone"]
  /\ UNCHANGED <<kind, loopEnd, userClosed, mgrVars, queue, quit, mainEnd, toClose, mine, missed>>

-----------------------------------------------------------------------------

Open(w) ==
  \/ OpenStartsProcess(w) \/ OpenStartsThread(w) \/ OpenDispatches(w)
  \/ OpenFails(w) \/ OpenReceives(w) \/ OpenInserts(w) \/ OpenAnnounces(w)

Reaper(w) ==
  ThreadCreates(w) \/ ReaperRemoves(w) \/ ReaperAnnounces(w) \/ ReaperQuits(w)

CloseRest(w) == CloseDispatches(w) \/ CloseAnnounces(w) \/ CloseQuits(w)

Close(w) == CloseEnds(w) \/ CloseRemoves(w) \/ CloseRest(w)

Main ==
  \/ RunWebview \/ RunBackground \/ LoopRuns \/ EndRunLoop \/ RunReturns
  \/ (\E w \in Window : CloseAllCloses(w)) \/ ShutdownEnds

Next ==
  \/ UserClosesPrimary \/ Quit \/ Main
  \/ \E w \in Window : Open(w) \/ UserCloses(w) \/ Reaper(w) \/ Close(w)

Spec == Init /\ [][Next]_vars

(***************************************************************************)
(* Fairness: goroutines go on, and so does the main thread. Nothing is     *)
(* assumed of users, of the application's calls, or of timeouts.           *)
(***************************************************************************)
Fairness ==
  /\ WF_vars(Main)
  /\ \A w \in Window : WF_vars(Reaper(w)) /\ WF_vars(CloseRest(w))

FairSpec == Spec /\ Fairness
-----------------------------------------------------------------------------
(***************************************************************************)
(* Properties.                                                             *)
(***************************************************************************)

TypeOK ==
  /\ kind \in Kind
  /\ opener \in [Window -> {"none", "waiting", "made", "inserted", "opened", "failed"}]
  /\ native \in [Window -> {"none", "up", "gone"}]
  /\ loopEnd \in [Window -> BOOLEAN] /\ userClosed \in [Window -> BOOLEAN]
  /\ wins \subseteq {w \in Window : opener[w] \in {"inserted", "opened"}}
  /\ reaper \in [Window -> {"none", "creating", "running", "removed", "announced", "done"}]
  /\ closer \in [Window -> {"none", "removed", "dispatched", "announced", "done"}]
  /\ said \in [Window -> Seq({"opened", "closed"})]
  /\ queue \in Seq([op : {"create", "destroy"}, win : Window])
  /\ quit \in BOOLEAN /\ main \in {"starting", "run", "closing", "stopped"}
  /\ primary \in {"none", "up", "gone"} /\ mainEnd \in BOOLEAN
  /\ toClose \subseteq Window /\ mine \subseteq Window /\ missed \subseteq Window

(***************************************************************************)
(* The application can always reach a window that is on the screen: it is  *)
(* in the map, or its Open or its Close is still going on, or a goroutine  *)
(* waits for its end. The one exception is a window whose Open gave up     *)
(* after ten seconds while the closure that makes it stayed queued         *)
(* (windowmanager_mainloop.go:95).                                         *)
(***************************************************************************)
UpIsManaged ==
  \A w \in Window : native[w] = "up" /\ Running =>
    \/ w \in wins
    \/ opener[w] \in {"waiting", "made", "failed"}
    \/ closer[w] = "removed"
    \/ \E i \in DOMAIN queue : queue[i] = [op |-> "destroy", win |-> w]

(***************************************************************************)
(* However Close, CloseAll and the end of a window meet, each window is    *)
(* announced opened at most once and closed at most once. (Closed may come *)
(* first: windowmanager.go:142 does not wait for line 148.)                *)
(***************************************************************************)
AnnouncedOnce ==
  \A w \in Window : \A i, j \in DOMAIN said[w] : said[w][i] = said[w][j] => i = j

(***************************************************************************)
(* A child process outlives the application only if its Open had not yet   *)
(* entered it in the map when shutdown read it: CloseAll kills all others. *)
(***************************************************************************)
OnlyLateChildOutlives ==
  \A w \in Window : main = "stopped" /\ native[w] = "up" => kind = "process" /\ w \in missed

\* On Windows, with a thread per window, a user who closes a window that is not
\* the last one leaves its thread in a loop that nothing ends any more.
LoopAbandoned(w) == kind = "thread" /\ userClosed[w] /\ ~loopEnd[w]

(***************************************************************************)
(* A window with ExitOnClose that ends makes the application quit. It      *)
(* fails where nothing observes the end: the main-loop manager does not    *)
(* see the user close a window, the thread manager only if it was last.    *)
(***************************************************************************)
ExitOnCloseQuits ==
  \A w \in Window :
    w \in ExitOnClose /\ native[w] = "gone" /\ opener[w] = "opened"
      ~> \/ quit \/ main = "stopped"
         \/ userClosed[w] /\ kind \in MainLoop
         \/ LoopAbandoned(w)

(***************************************************************************)
(* Quit stops the application: the loop returns, every window is closed    *)
(* and Run returns, whatever windows open and close meanwhile; unless, on  *)
(* Windows, the user had closed the primary window with others still open. *)
(***************************************************************************)
QuitStops == quit ~> main = "stopped" \/ (kind = "thread" /\ primary = "gone")
=============================================================================

--------------------------- MODULE Windows_proofs ---------------------------
(***************************************************************************)
(* Proofs about Windows, for any number of windows and each of the         *)
(* managers: types, no window out of reach, each announcement made once,   *)
(* and which child processes may outlive the application. Then the end of  *)
(* a window: when the map has it, who notices, what shutdown may wait for, *)
(* and the two cases that nothing repairs.                                 *)
(***************************************************************************)
EXTENDS Windows, SequenceTheorems, TLAPS

(* How far Open, the reaper and Close of a window can be from each other.  *)
Ordered(w) ==
  /\ reaper[w] # "none" => kind \notin MainLoop
  /\ closer[w] # "none" => /\ kind \in MainLoop /\ w \notin wins
                           /\ opener[w] \in {"inserted", "opened"}
  /\ reaper[w] = "creating" => kind = "thread" /\ opener[w] = "waiting" /\ native[w] = "none"
  /\ opener[w] = "none" => native[w] = "none" /\ reaper[w] = "none"
  /\ opener[w] = "waiting" => kind # "process"
  /\ opener[w] \in {"made", "inserted", "opened"} => native[w] # "none"
  /\ opener[w] = "made" /\ kind = "process" => reaper[w] = "none"
  /\ w \in toClose => opener[w] \in {"inserted", "opened"}

(* The main thread has at most one closure that makes a window, and the    *)
(* window does not exist before it has run.                                *)
Queued ==
  /\ queue # <<>> => kind \in MainLoop
  /\ \A i \in 1 .. Len(queue) : queue[i].op = "create" =>
       opener[queue[i].win] \in {"waiting", "failed"} /\ native[queue[i].win] = "none"
  /\ \A i \in 1 .. Len(queue) : queue[i].op = "destroy" =>
       opener[queue[i].win] \in {"inserted", "opened"}
  /\ \A i, j \in 1 .. Len(queue) :
       queue[i].op = "create" /\ queue[j].op = "create" /\ queue[i].win = queue[j].win => i = j

(* What was said of a window is what its Open, and its reaper or its       *)
(* Close, have got to, and was said once.                                  *)
ClosedSaid(w) == reaper[w] \in {"announced", "done"} \/ closer[w] \in {"announced", "done"}

SaidInStep(w) ==
  /\ \A i \in 1 .. Len(said[w]) : /\ said[w][i] = "opened" => opener[w] = "opened"
                                  /\ said[w][i] = "closed" => ClosedSaid(w)
  /\ \A i, j \in 1 .. Len(said[w]) : said[w][i] = said[w][j] => i = j

(* CloseAll has ended, or will end, every child process it knows of.       *)
AllKnownClosed ==
  main \in {"closing", "stopped"} /\ kind = "process" =>
    \A w \in Window \ missed : /\ opener[w] \in {"inserted", "opened"}
                               /\ w \in toClose \/ native[w] = "gone"

(* What is up once the application has stopped.                            *)
StoppedEmpty == main = "stopped" =>
  toClose = {} /\ (kind # "process" => \A w \in Window : native[w] # "up")

IInv ==
  /\ TypeOK /\ (\A w \in Window : Ordered(w)) /\ Queued /\ UpIsManaged
  /\ (\A w \in Window : SaidInStep(w)) /\ AllKnownClosed /\ StoppedEmpty

-----------------------------------------------------------------------------

LEMMA InitIInv == Init => IInv
<1> SUFFICES ASSUME Init PROVE IInv
  OBVIOUS
<1>1. TypeOK
  <2>1. said \in [Window -> Seq({"opened", "closed"})]
    BY DEF Init
  <2>2. queue \in Seq([op : {"create", "destroy"}, win : Window])
    BY DEF Init
  <2> QED BY <2>1, <2>2 DEF Init, TypeOK
<1>2. \A w \in Window : Ordered(w)
  BY DEF Init, Ordered
<1>3. Queued /\ UpIsManaged /\ AllKnownClosed /\ StoppedEmpty
  BY DEF Init, Queued, UpIsManaged, AllKnownClosed, StoppedEmpty
<1>4. \A w \in Window : SaidInStep(w)
  BY DEF Init, SaidInStep
<1> QED BY <1>1, <1>2, <1>3, <1>4 DEF IInv

(***************************************************************************)
(* Types.                                                                  *)
(***************************************************************************)
LEMMA SayType ==
  ASSUME TypeOK, NEW w \in Window, NEW what \in {"opened", "closed"}, Say(w, what)
  PROVE  said' \in [Window -> Seq({"opened", "closed"})]
<1>1. Append(said[w], what) \in Seq({"opened", "closed"})
  BY DEF TypeOK
<1> QED BY <1>1 DEF TypeOK, Say

LEMMA TypeStep == TypeOK /\ [Next]_vars => TypeOK'
<1> SUFFICES ASSUME TypeOK, [Next]_vars PROVE TypeOK'
  OBVIOUS
<1> USE DEF TypeOK, winVars, mgrVars, mainVars
<1>1. CASE UNCHANGED vars
  BY <1>1 DEF vars
<1>2. CASE UserClosesPrimary \/ Quit
  BY <1>2 DEF UserClosesPrimary, Quit
<1>3. CASE RunWebview \/ RunBackground \/ EndRunLoop \/ RunReturns
  BY <1>3 DEF RunWebview, RunBackground, EndRunLoop, RunReturns
<1>4. CASE LoopRuns
  <2>1. Head(queue) \in [op : {"create", "destroy"}, win : Window]
    BY <1>4, HeadTailProperties DEF LoopRuns
  <2>2. Tail(queue) \in Seq([op : {"create", "destroy"}, win : Window])
    BY <1>4 DEF LoopRuns
  <2>3. Head(queue).win \in Window
    BY <2>1
  <2>4. \/ native' = native
        \/ native' = [native EXCEPT ![Head(queue).win] = "up"]
        \/ native' = [native EXCEPT ![Head(queue).win] = "gone"]
    <3> HIDE DEF TypeOK
    <3> QED BY <1>4, Zenon DEF LoopRuns
  <2>5. native' \in [Window -> {"none", "up", "gone"}]
    BY <2>3, <2>4
  <2> QED BY <1>4, <2>2, <2>5 DEF LoopRuns
<1>5. CASE ShutdownEnds
  BY <1>5 DEF ShutdownEnds
<1>6. ASSUME NEW w \in Window, CloseAllCloses(w) PROVE TypeOK'
  <2>1. CASE Removes(w) /\ mine' = mine \cup {w} /\ UNCHANGED winVars
    BY <1>6, <2>1 DEF CloseAllCloses, Removes
  <2>2. CASE Ends(w) /\ UNCHANGED <<mine, wins, closer>>
    BY <1>6, <2>2 DEF CloseAllCloses, Ends
  <2>3. CASE UNCHANGED <<winVars, mine, wins, closer>>
    BY <1>6, <2>3 DEF CloseAllCloses
  <2> QED BY <1>6, <2>1, <2>2, <2>3 DEF CloseAllCloses
<1>7. ASSUME NEW w \in Window, Open(w) PROVE TypeOK'
  <2>1. CASE OpenStartsProcess(w) \/ OpenStartsThread(w) \/ OpenFails(w)
    BY <2>1 DEF OpenStartsProcess, OpenStartsThread, OpenFails
  <2>2. CASE OpenDispatches(w)
    <3>1. [op |-> "create", win |-> w] \in [op : {"create", "destroy"}, win : Window]
      OBVIOUS
    <3> QED BY <2>2, <3>1 DEF OpenDispatches
  <2>3. CASE OpenReceives(w)
    BY <2>3 DEF OpenReceives
  <2>5. CASE OpenInserts(w)
    <3>1. opener' \in [Window -> {"none", "waiting", "made", "inserted", "opened", "failed"}]
      BY <2>5 DEF OpenInserts
    <3>2. wins' \subseteq {v \in Window : opener'[v] \in {"inserted", "opened"}}
      BY <2>5 DEF OpenInserts
    <3>3. reaper' \in [Window -> {"none", "creating", "running", "removed", "announced", "done"}]
      BY <2>5 DEF OpenInserts
    <3> QED BY <2>5, <3>1, <3>2, <3>3 DEF OpenInserts
  <2>4. CASE OpenAnnounces(w)
    BY <2>4, SayType DEF OpenAnnounces
  <2> QED BY <1>7, <2>1, <2>2, <2>3, <2>4, <2>5 DEF Open
<1>8. ASSUME NEW w \in Window, UserCloses(w) PROVE TypeOK'
  BY <1>8 DEF UserCloses
<1>9. ASSUME NEW w \in Window, Reaper(w) PROVE TypeOK'
  <2>1. CASE ThreadCreates(w)
    BY <2>1 DEF ThreadCreates
  <2>2. CASE ReaperRemoves(w) \/ ReaperQuits(w)
    BY <2>2 DEF ReaperRemoves, ReaperQuits
  <2>3. CASE ReaperAnnounces(w)
    BY <2>3, SayType DEF ReaperAnnounces
  <2> QED BY <1>9, <2>1, <2>2, <2>3 DEF Reaper
<1>10. ASSUME NEW w \in Window, Close(w) PROVE TypeOK'
  <2>1. CASE CloseEnds(w)
    BY <2>1 DEF CloseEnds, Ends
  <2>4. CASE CloseRemoves(w)
    BY <2>4 DEF CloseRemoves, Removes
  <2>2. CASE CloseDispatches(w)
    <3>1. [op |-> "destroy", win |-> w] \in [op : {"create", "destroy"}, win : Window]
      OBVIOUS
    <3> QED BY <2>2, <3>1 DEF CloseDispatches
  <2>3. CASE CloseAnnounces(w) \/ CloseQuits(w)
    BY <2>3, SayType DEF CloseAnnounces, CloseQuits
  <2> QED BY <1>10, <2>1, <2>2, <2>3, <2>4 DEF Close, CloseRest
<1> QED BY <1>1, <1>2, <1>3, <1>4, <1>5, <1>6, <1>7, <1>8, <1>9, <1>10 DEF Next, Main

(***************************************************************************)
(* Order.                                                                  *)
(***************************************************************************)
LEMMA LoopCreates ==
  ASSUME TypeOK, Queued, LoopRuns
  PROVE  /\ kind \in MainLoop /\ Head(queue).win \in Window
         /\ \A w \in Window : native'[w] # native[w] =>
              /\ w = Head(queue).win
              /\ native'[w] = IF Head(queue).op = "create" THEN "up" ELSE "gone"
         /\ opener[Head(queue).win] \in
              IF Head(queue).op = "create" THEN {"waiting", "failed"} ELSE {"inserted", "opened"}
         /\ \A i \in 1 .. Len(queue') :
              /\ i + 1 \in 1 .. Len(queue) /\ queue'[i] = queue[i + 1]
              /\ Head(queue).op = "create" /\ queue'[i].op = "create" =>
                   queue'[i].win # Head(queue).win
<1> DEFINE Entry == [op : {"create", "destroy"}, win : Window]
<1>1. queue # <<>> /\ Head(queue) = queue[1] /\ 1 \in 1 .. Len(queue) /\ queue \in Seq(Entry)
  BY DEF LoopRuns, TypeOK
<1>2. queue[1] \in Entry
  BY <1>1, ElementOfSeq
<1>3. \A i \in 1 .. Len(queue') : i + 1 \in 1 .. Len(queue) /\ queue'[i] = queue[i + 1]
  BY <1>1 DEF LoopRuns, TypeOK
<1>4. \A w \in Window : native'[w] # native[w] =>
        /\ w = Head(queue).win
        /\ native'[w] = IF Head(queue).op = "create" THEN "up" ELSE "gone"
  BY <1>1, <1>2 DEF LoopRuns, TypeOK
<1>5. opener[Head(queue).win] \in
        IF Head(queue).op = "create" THEN {"waiting", "failed"} ELSE {"inserted", "opened"}
  BY <1>1, <1>2 DEF Queued
<1>6. \A i \in 1 .. Len(queue') : Head(queue).op = "create" /\ queue'[i].op = "create" =>
        queue'[i].win # Head(queue).win
  BY <1>1, <1>3 DEF Queued
<1> QED BY <1>1, <1>2, <1>3, <1>4, <1>5, <1>6 DEF Queued

LEMMA OrderStep ==
  TypeOK /\ (\A w \in Window : Ordered(w)) /\ Queued /\ [Next]_vars => \A w \in Window : Ordered(w)'
<1> SUFFICES ASSUME TypeOK, \A v \in Window : Ordered(v), Queued, [Next]_vars, NEW v \in Window
             PROVE  Ordered(v)'
  OBVIOUS
<1> USE DEF TypeOK, Ordered, MainLoop, winVars, mgrVars, mainVars
<1>1. CASE UNCHANGED vars
  BY <1>1 DEF vars
<1>2. CASE UserClosesPrimary \/ Quit \/ RunWebview \/ RunBackground \/ EndRunLoop \/ RunReturns
  BY <1>2 DEF UserClosesPrimary, Quit, RunWebview, RunBackground, EndRunLoop, RunReturns
<1>3. CASE LoopRuns
  <2>1. UNCHANGED <<kind, opener, wins, reaper, closer>>
    BY <1>3 DEF LoopRuns
  <2>2. native'[v] # native[v] => /\ opener[v] # "none" /\ kind \in MainLoop
                                  /\ native'[v] # "none"
    BY <1>3, LoopCreates
  <2> QED BY <1>3, <2>1, <2>2 DEF LoopRuns
<1>4. CASE ShutdownEnds
  BY <1>4 DEF ShutdownEnds
<1>5. ASSUME NEW w \in Window, CloseAllCloses(w) PROVE Ordered(v)'
  <2>1. CASE Removes(w) /\ UNCHANGED winVars
    BY <1>5, <2>1 DEF CloseAllCloses, Removes
  <2>2. CASE Ends(w) /\ UNCHANGED <<wins, closer>>
    BY <1>5, <2>2 DEF CloseAllCloses, Ends
  <2>3. CASE UNCHANGED <<winVars, wins, closer>>
    BY <1>5, <2>3 DEF CloseAllCloses
  <2> QED BY <1>5, <2>1, <2>2, <2>3 DEF CloseAllCloses
<1>6. ASSUME NEW w \in Window, Open(w) PROVE Ordered(v)'
  <2>1. CASE OpenStartsProcess(w)
    BY <2>1 DEF OpenStartsProcess
  <2>2. CASE OpenStartsThread(w)
    BY <2>2 DEF OpenStartsThread
  <2>5. CASE OpenDispatches(w)
    BY <2>5 DEF OpenDispatches
  <2>6. CASE OpenFails(w)
    BY <2>6 DEF OpenFails
  <2>7. CASE OpenReceives(w)
    BY <2>7 DEF OpenReceives
  <2>3. CASE OpenInserts(w)
    BY <2>3 DEF OpenInserts
  <2>4. CASE OpenAnnounces(w)
    BY <2>4 DEF OpenAnnounces
  <2> QED BY <1>6, <2>1, <2>2, <2>3, <2>4, <2>5, <2>6, <2>7 DEF Open
<1>7. ASSUME NEW w \in Window, UserCloses(w) PROVE Ordered(v)'
  BY <1>7 DEF UserCloses
<1>8. ASSUME NEW w \in Window, Reaper(w) PROVE Ordered(v)'
  BY <1>8 DEF Reaper, ThreadCreates, ReaperRemoves, ReaperAnnounces, ReaperQuits
<1>9. ASSUME NEW w \in Window, Close(w) PROVE Ordered(v)'
  BY <1>9 DEF Close, CloseRest, CloseEnds, CloseRemoves, CloseDispatches, CloseAnnounces,
     CloseQuits, Removes, Ends
<1> QED BY <1>1, <1>2, <1>3, <1>4, <1>5, <1>6, <1>7, <1>8, <1>9 DEF Next, Main

(***************************************************************************)
(* The queue of the main thread.                                           *)
(***************************************************************************)
Before == TypeOK /\ (\A w \in Window : Ordered(w)) /\ Queued

LEMMA Entries ==
  ASSUME TypeOK, NEW i \in 1 .. Len(queue)
  PROVE  /\ queue[i] \in [op : {"create", "destroy"}, win : Window]
         /\ queue[i].win \in Window /\ queue[i].op \in {"create", "destroy"}
<1>1. queue \in Seq([op : {"create", "destroy"}, win : Window])
  BY DEF TypeOK
<1>2. queue[i] \in [op : {"create", "destroy"}, win : Window]
  BY <1>1, ElementOfSeq
<1> QED BY <1>2

LEMMA AppendEntry ==
  ASSUME Before, NEW op \in {"create", "destroy"}, NEW w \in Window,
         queue' = Append(queue, [op |-> op, win |-> w])
  PROVE  /\ Len(queue') = Len(queue) + 1 /\ Len(queue) \in Nat
         /\ \A i \in 1 .. Len(queue) : queue'[i] = queue[i]
         /\ queue'[Len(queue) + 1] = [op |-> op, win |-> w]
<1>1. [op |-> op, win |-> w] \in [op : {"create", "destroy"}, win : Window]
  OBVIOUS
<1> QED BY <1>1, AppendProperties DEF Before, TypeOK

LEMMA QueueStep == Before /\ [Next]_vars => Queued'
<1> SUFFICES ASSUME Before, [Next]_vars PROVE Queued'
  OBVIOUS
<1> USE DEF Before, Queued, winVars, mgrVars, mainVars
<1>1. CASE UNCHANGED vars
  BY <1>1 DEF vars
<1>2. CASE UserClosesPrimary \/ Quit \/ RunWebview \/ RunBackground \/ EndRunLoop \/ RunReturns
  BY <1>2 DEF UserClosesPrimary, Quit, RunWebview, RunBackground, EndRunLoop, RunReturns
<1>3. CASE LoopRuns
  <2>1. UNCHANGED <<kind, opener>>
    BY <1>3 DEF LoopRuns
  <2>2. \A i \in 1 .. Len(queue') : i + 1 \in 1 .. Len(queue) /\ queue'[i] = queue[i + 1]
    BY <1>3, LoopCreates
  <2>3. \A i \in 1 .. Len(queue') : queue'[i].op = "create" =>
          native'[queue'[i].win] = native[queue'[i].win]
    <3> SUFFICES ASSUME NEW i \in 1 .. Len(queue'), queue'[i].op = "create",
                        native'[queue'[i].win] # native[queue'[i].win]
                 PROVE  FALSE
      OBVIOUS
    <3>1. queue[i + 1].win \in Window
      BY <2>2, Entries
    <3>2. queue'[i].win = Head(queue).win
      BY <1>3, <2>2, <3>1, LoopCreates
    <3>3. Head(queue).op # "create"
      BY <1>3, <3>2, LoopCreates
    <3>4. opener[Head(queue).win] \in {"inserted", "opened"}
      BY <1>3, <3>3, LoopCreates
    <3>5. opener[queue[i + 1].win] \in {"waiting", "failed"}
      BY <2>2
    <3> QED BY <2>2, <3>2, <3>4, <3>5
  <2>4. kind \in MainLoop
    BY <1>3, LoopCreates
  <2>5. \A i, j \in 1 .. Len(queue') : i + 1 = j + 1 => i = j
    BY DEF TypeOK
  <2>6. \A i \in 1 .. Len(queue') : queue'[i].op = "create" =>
          opener[queue'[i].win] \in {"waiting", "failed"} /\ native'[queue'[i].win] = "none"
    BY <2>2, <2>3
  <2>7. \A i \in 1 .. Len(queue') : queue'[i].op = "destroy" =>
          opener[queue'[i].win] \in {"inserted", "opened"}
    BY <2>2
  <2>8. \A i, j \in 1 .. Len(queue') :
          queue'[i].op = "create" /\ queue'[j].op = "create" /\ queue'[i].win = queue'[j].win => i = j
    <3> SUFFICES ASSUME NEW i \in 1 .. Len(queue'), NEW j \in 1 .. Len(queue'),
                        queue'[i].op = "create", queue'[j].op = "create",
                        queue'[i].win = queue'[j].win
                 PROVE  i = j
      OBVIOUS
    <3>1. i + 1 = j + 1
      BY <2>2
    <3> QED BY <2>5, <3>1
  <2> QED BY <2>1, <2>4, <2>6, <2>7, <2>8
<1>4. CASE ShutdownEnds
  <2>1. \A i \in 1 .. Len(queue) : queue[i].win \in Window
    BY Entries
  <2> QED BY <1>4, <2>1 DEF ShutdownEnds
<1>5. ASSUME NEW w \in Window,
             CloseAllCloses(w) \/ UserCloses(w) \/ Reaper(w) \/ CloseEnds(w) \/ CloseRemoves(w)
      PROVE  Queued'
  <2>1. UNCHANGED <<kind, opener, queue>>
    BY <1>5 DEF CloseAllCloses, UserCloses, Reaper, ThreadCreates, ReaperRemoves, ReaperAnnounces,
       ReaperQuits, CloseEnds, CloseRemoves
  <2>2. \A v \in Window : native'[v] # native[v] => kind \notin MainLoop \/ native[v] = "up"
    BY <1>5 DEF CloseAllCloses, Removes, Ends, UserCloses, Reaper, ThreadCreates, ReaperRemoves,
       ReaperAnnounces, ReaperQuits, CloseEnds, CloseRemoves, Ordered, TypeOK, MainLoop
  <2>3. \A i \in 1 .. Len(queue) : queue[i].win \in Window /\ kind \in MainLoop
    BY Entries DEF TypeOK
  <2> QED BY <2>1, <2>2, <2>3
<1>6. ASSUME NEW w \in Window, OpenDispatches(w) PROVE Queued'
  <2>1. UNCHANGED <<kind, native>> /\ kind \in MainLoop /\ opener[w] = "none"
        /\ native[w] = "none" /\ opener' = [opener EXCEPT ![w] = "waiting"]
    BY <1>6 DEF OpenDispatches, Ordered
  <2>2. queue' = Append(queue, [op |-> "create", win |-> w])
    BY <1>6 DEF OpenDispatches
  <2>3. /\ Len(queue') = Len(queue) + 1 /\ Len(queue) \in Nat
        /\ \A i \in 1 .. Len(queue) : queue'[i] = queue[i]
        /\ queue'[Len(queue) + 1] = [op |-> "create", win |-> w]
    BY <2>2, AppendEntry
  <2>4. \A i \in 1 .. Len(queue) :
          /\ queue[i].win \in Window /\ queue[i].op \in {"create", "destroy"}
          /\ queue[i].win # w
    BY <2>1, Entries
  <2>5. \A i \in 1 .. Len(queue) : opener'[queue[i].win] = opener[queue[i].win]
    BY <2>1, <2>4 DEF TypeOK
  <2>6. \A i \in 1 .. Len(queue') : i \in 1 .. Len(queue) \/ i = Len(queue) + 1
    BY <2>3
  <2>7. opener'[w] = "waiting"
    BY <2>1 DEF TypeOK
  <2> QED BY <2>1, <2>3, <2>4, <2>5, <2>6, <2>7
<1>7. ASSUME NEW w \in Window, CloseDispatches(w) PROVE Queued'
  <2>1. UNCHANGED <<kind, native, opener>> /\ kind \in MainLoop
        /\ opener[w] \in {"inserted", "opened"}
    BY <1>7 DEF CloseDispatches, Ordered
  <2>2. queue' = Append(queue, [op |-> "destroy", win |-> w])
    BY <1>7 DEF CloseDispatches
  <2>3. /\ Len(queue') = Len(queue) + 1 /\ Len(queue) \in Nat
        /\ \A i \in 1 .. Len(queue) : queue'[i] = queue[i]
        /\ queue'[Len(queue) + 1] = [op |-> "destroy", win |-> w]
    BY <2>2, AppendEntry
  <2>4. \A i \in 1 .. Len(queue') : i \in 1 .. Len(queue) \/ i = Len(queue) + 1
    BY <2>3
  <2> QED BY <2>1, <2>3, <2>4
<1>8. ASSUME NEW w \in Window,
             \/ OpenStartsProcess(w) \/ OpenStartsThread(w) \/ OpenFails(w) \/ OpenReceives(w)
             \/ OpenInserts(w) \/ OpenAnnounces(w)
      PROVE  Queued'
  <2>1. UNCHANGED <<kind, queue>>
    BY <1>8 DEF OpenStartsProcess, OpenStartsThread, OpenFails, OpenReceives, OpenInserts,
       OpenAnnounces
  <2>2. \A i \in 1 .. Len(queue) :
          /\ queue[i].win \in Window /\ kind \in MainLoop
          /\ queue[i].op \in {"create", "destroy"}
    BY Entries DEF TypeOK
  <2>3. \A v \in Window : kind \in MainLoop /\ opener[v] \in {"waiting", "failed"}
                            /\ native[v] = "none" =>
          opener'[v] \in {"waiting", "failed"} /\ native'[v] = "none"
    BY <1>8 DEF OpenStartsProcess, OpenStartsThread, OpenFails, OpenReceives, OpenInserts,
       OpenAnnounces, TypeOK, MainLoop
  <2>4. \A v \in Window : opener[v] \in {"inserted", "opened"} =>
          opener'[v] \in {"inserted", "opened"}
    BY <1>8 DEF OpenStartsProcess, OpenStartsThread, OpenFails, OpenReceives, OpenInserts,
       OpenAnnounces, TypeOK
  <2> QED BY <2>1, <2>2, <2>3, <2>4
<1>9. ASSUME NEW w \in Window, CloseAnnounces(w) \/ CloseQuits(w) PROVE Queued'
  BY <1>9 DEF CloseAnnounces, CloseQuits
<1> QED BY <1>1, <1>2, <1>3, <1>4, <1>5, <1>6, <1>7, <1>8, <1>9
        DEF Next, Main, Open, Close, CloseRest

(***************************************************************************)
(* No window is out of reach.                                              *)
(***************************************************************************)
Doomed(w) == \E i \in DOMAIN queue : queue[i] = [op |-> "destroy", win |-> w]

LEMMA DoomedStays ==
  ASSUME Before, [Next]_vars, NEW v \in Window, Doomed(v)
  PROVE  Doomed(v)' \/ native'[v] = "gone"
<1> USE DEF Before
<1>1. PICK i \in 1 .. Len(queue) : queue[i] = [op |-> "destroy", win |-> v]
  BY DEF Doomed, TypeOK
<1>2. CASE UNCHANGED queue
  BY <1>1, <1>2 DEF Doomed, TypeOK
<1>3. ASSUME NEW w \in Window, NEW op \in {"create", "destroy"},
             queue' = Append(queue, [op |-> op, win |-> w])
      PROVE  Doomed(v)'
  <2>1. i \in DOMAIN queue' /\ queue'[i] = queue[i]
    <3>1. [op |-> op, win |-> w] \in [op : {"create", "destroy"}, win : Window]
      OBVIOUS
    <3> QED BY <1>3, <3>1, AppendEntry DEF TypeOK
  <2> QED BY <1>1, <2>1 DEF Doomed
<1>4. CASE LoopRuns
  <2>1. CASE i = 1
    BY <1>1, <1>4, <2>1 DEF LoopRuns, TypeOK
  <2>2. CASE i # 1
    <3>1. i - 1 \in DOMAIN queue' /\ queue'[i - 1] = queue[i]
      BY <1>4, <2>2 DEF LoopRuns, TypeOK
    <3> QED BY <1>1, <3>1 DEF Doomed
  <2> QED BY <2>1, <2>2
<1>5. \/ UNCHANGED queue \/ LoopRuns
      \/ \E w \in Window : OpenDispatches(w) \/ CloseDispatches(w)
  BY DEF vars, Next, UserClosesPrimary, Quit, Main, RunWebview, RunBackground, EndRunLoop,
     RunReturns, CloseAllCloses, ShutdownEnds, Open, OpenStartsProcess, OpenStartsThread, OpenFails,
     OpenReceives, OpenInserts, OpenAnnounces, UserCloses, Reaper, ThreadCreates, ReaperRemoves,
     ReaperAnnounces, ReaperQuits, Close, CloseRest, CloseEnds, CloseRemoves, CloseAnnounces,
     CloseQuits
<1>6. (\E w \in Window : OpenDispatches(w) \/ CloseDispatches(w)) => Doomed(v)'
  BY <1>3 DEF OpenDispatches, CloseDispatches
<1> QED BY <1>2, <1>4, <1>5, <1>6

LEMMA UpStep == Before /\ UpIsManaged /\ [Next]_vars => UpIsManaged'
<1> SUFFICES ASSUME Before, UpIsManaged, [Next]_vars, NEW v \in Window,
                    native'[v] = "up", Running'
             PROVE  \/ v \in wins' \/ opener'[v] \in {"waiting", "made", "failed"}
                    \/ closer'[v] = "removed" \/ Doomed(v)'
  BY DEF UpIsManaged, Doomed
<1> DEFINE Managed == v \in wins \/ opener[v] \in {"waiting", "made", "failed"}
                      \/ closer[v] = "removed" \/ Doomed(v)
<1>1. native[v] = "up" /\ Running => Managed
  BY DEF UpIsManaged, Doomed
<1>2. Doomed(v) => Doomed(v)'
  BY DoomedStays
<1> USE DEF Before, TypeOK, Ordered, MainLoop, Running, winVars, mgrVars, mainVars
<1>3. CASE UNCHANGED vars
  BY <1>1, <1>2, <1>3 DEF vars
<1>4. CASE UserClosesPrimary \/ Quit \/ RunWebview \/ RunBackground \/ EndRunLoop \/ RunReturns
  BY <1>1, <1>2, <1>4 DEF UserClosesPrimary, Quit, RunWebview, RunBackground, EndRunLoop, RunReturns
<1>5. CASE LoopRuns
  <2>1. UNCHANGED <<wins, opener, closer, main>>
    BY <1>5 DEF LoopRuns
  <2>2. native'[v] # native[v] => opener[v] \in {"waiting", "failed"}
    BY <1>5, LoopCreates
  <2> QED BY <1>1, <1>2, <2>1, <2>2
<1>6. CASE ShutdownEnds
  BY <1>6 DEF ShutdownEnds
<1>7. ASSUME NEW w \in Window, CloseAllCloses(w) PROVE Managed' \/ v \in wins'
  <2>1. main = "closing" /\ UNCHANGED opener
    BY <1>7 DEF CloseAllCloses
  <2>2. CASE Removes(w) /\ UNCHANGED winVars
    BY <1>1, <1>2, <2>1, <2>2 DEF Removes
  <2>3. CASE Ends(w) /\ UNCHANGED <<wins, closer>>
    BY <1>1, <1>2, <2>1, <2>3 DEF Ends
  <2>4. CASE UNCHANGED <<winVars, wins, closer>>
    BY <1>1, <1>2, <2>1, <2>4
  <2> QED BY <1>7, <2>2, <2>3, <2>4 DEF CloseAllCloses
<1>8. ASSUME NEW w \in Window, OpenStartsProcess(w) \/ OpenStartsThread(w) \/ OpenDispatches(w)
      PROVE  Managed'
  BY <1>1, <1>2, <1>8 DEF OpenStartsProcess, OpenStartsThread, OpenDispatches
<1>9. ASSUME NEW w \in Window, OpenFails(w) \/ OpenReceives(w) PROVE Managed'
  BY <1>1, <1>2, <1>9 DEF OpenFails, OpenReceives
<1>10. ASSUME NEW w \in Window, OpenInserts(w) PROVE Managed'
  BY <1>1, <1>2, <1>10 DEF OpenInserts
<1>11. ASSUME NEW w \in Window, OpenAnnounces(w) PROVE Managed'
  BY <1>1, <1>2, <1>11 DEF OpenAnnounces
<1>12. ASSUME NEW w \in Window, UserCloses(w) PROVE Managed'
  BY <1>1, <1>2, <1>12 DEF UserCloses
<1>13. ASSUME NEW w \in Window, Reaper(w) PROVE Managed'
  BY <1>1, <1>2, <1>13 DEF Reaper, ThreadCreates, ReaperRemoves, ReaperAnnounces, ReaperQuits
<1>14. ASSUME NEW w \in Window, CloseEnds(w) \/ CloseRemoves(w) PROVE Managed'
  BY <1>1, <1>2, <1>14 DEF CloseEnds, CloseRemoves, Removes, Ends
<1>15. ASSUME NEW w \in Window, CloseDispatches(w) PROVE Managed'
  <2>1. v = w => Doomed(v)'
    <3>1. queue' = Append(queue, [op |-> "destroy", win |-> w])
      BY <1>15 DEF CloseDispatches
    <3>2. Len(queue') = Len(queue) + 1 /\ queue'[Len(queue) + 1] = [op |-> "destroy", win |-> w]
          /\ Len(queue) \in Nat
      BY <3>1, AppendEntry
    <3>3. [op |-> "destroy", win |-> w] \in [op : {"create", "destroy"}, win : Window]
      OBVIOUS
    <3>4. DOMAIN queue' = 1 .. Len(queue')
      BY <3>1, <3>3
    <3>5. Len(queue) + 1 \in DOMAIN queue'
      BY <3>2, <3>4
    <3> QED BY <3>2, <3>5 DEF Doomed
  <2> QED BY <1>1, <1>2, <1>15, <2>1 DEF CloseDispatches
<1>16. ASSUME NEW w \in Window, CloseAnnounces(w) \/ CloseQuits(w) PROVE Managed'
  BY <1>1, <1>2, <1>16 DEF CloseAnnounces, CloseQuits
<1> QED BY <1>3, <1>4, <1>5, <1>6, <1>7, <1>8, <1>9, <1>10, <1>11, <1>12, <1>13, <1>14, <1>15, <1>16
        DEF Next, Main, Open, Close, CloseRest

(***************************************************************************)
(* What is said.                                                           *)
(***************************************************************************)
LEMMA SaysInStep ==
  ASSUME NEW w \in Window, TypeOK, SaidInStep(w), NEW what \in {"opened", "closed"}, Say(w, what),
         \A i \in 1 .. Len(said[w]) : said[w][i] # what,
         opener[w] = "opened" => opener'[w] = "opened", ClosedSaid(w) => ClosedSaid(w)',
         what = "opened" => opener'[w] = "opened", what = "closed" => ClosedSaid(w)'
  PROVE  SaidInStep(w)'
<1>1. said'[w] = Append(said[w], what) /\ said[w] \in Seq({"opened", "closed"})
  BY DEF Say, TypeOK
<1>2. /\ Len(said'[w]) = Len(said[w]) + 1 /\ Len(said[w]) \in Nat
      /\ \A i \in 1 .. Len(said[w]) : said'[w][i] = said[w][i]
      /\ said'[w][Len(said[w]) + 1] = what
  BY <1>1, AppendProperties
<1>3. \A i \in 1 .. Len(said'[w]) : i \in 1 .. Len(said[w]) \/ i = Len(said[w]) + 1
  BY <1>2
<1>4. \A i \in 1 .. Len(said'[w]) : /\ said'[w][i] = "opened" => opener'[w] = "opened"
                                    /\ said'[w][i] = "closed" => ClosedSaid(w)'
  BY <1>2, <1>3 DEF SaidInStep
<1>5. \A i, j \in 1 .. Len(said'[w]) : said'[w][i] = said'[w][j] => i = j
  BY <1>2, <1>3 DEF SaidInStep
<1> QED BY <1>4, <1>5 DEF SaidInStep

LEMMA AnnounceStep ==
  Before /\ (\A w \in Window : SaidInStep(w)) /\ [Next]_vars => \A w \in Window : SaidInStep(w)'
<1> SUFFICES ASSUME Before, \A w \in Window : SaidInStep(w), [Next]_vars, NEW v \in Window
             PROVE  SaidInStep(v)'
  OBVIOUS
<1>1. /\ opener[v] # "opened" => \A i \in 1 .. Len(said[v]) : said[v][i] # "opened"
      /\ ~ClosedSaid(v) => \A i \in 1 .. Len(said[v]) : said[v][i] # "closed"
  <2>1. \A i \in 1 .. Len(said[v]) : /\ said[v][i] = "opened" => opener[v] = "opened"
                                     /\ said[v][i] = "closed" => ClosedSaid(v)
    BY Zenon DEF SaidInStep
  <2> QED BY <2>1
<1>2. (opener'[v] = "opened" <=> opener[v] = "opened") /\ (ClosedSaid(v)' <=> ClosedSaid(v))
      /\ said'[v] = said[v] => SaidInStep(v)'
  BY DEF SaidInStep
<1> USE DEF Before, TypeOK, Ordered, MainLoop, winVars, mgrVars, mainVars
<1>3. ASSUME NEW w \in Window, OpenAnnounces(w) PROVE SaidInStep(v)'
  <2>1. CASE v = w
    <3>1. opener[v] # "opened" /\ opener'[v] = "opened" /\ Say(v, "opened")
          /\ (ClosedSaid(v)' <=> ClosedSaid(v))
      BY <1>3, <2>1 DEF OpenAnnounces, ClosedSaid
    <3>2. \A i \in 1 .. Len(said[v]) : said[v][i] # "opened"
      BY <1>1, <3>1
    <3> QED BY <3>1, <3>2, SaysInStep
  <2>2. CASE v # w
    BY <1>2, <1>3, <2>2 DEF OpenAnnounces, Say, ClosedSaid
  <2> QED BY <2>1, <2>2
<1>4. ASSUME NEW w \in Window, ReaperAnnounces(w) \/ CloseAnnounces(w)
      PROVE  SaidInStep(v)'
  <2>1. CASE v = w
    <3>0. Say(v, "closed") /\ opener'[v] = opener[v]
      BY <1>4, <2>1 DEF ReaperAnnounces, CloseAnnounces
    <3>1. ~ClosedSaid(v) /\ ClosedSaid(v)'
      <4>1. CASE ReaperAnnounces(v)
        BY <4>1 DEF ReaperAnnounces, ClosedSaid
      <4>2. CASE CloseAnnounces(v)
        BY <4>2 DEF CloseAnnounces, ClosedSaid
      <4> QED BY <1>4, <2>1, <4>1, <4>2
    <3>2. \A i \in 1 .. Len(said[v]) : said[v][i] # "closed"
      BY <1>1, <3>1
    <3> QED BY <3>0, <3>1, <3>2, SaysInStep
  <2>2. CASE v # w
    BY <1>2, <1>4, <2>2 DEF ReaperAnnounces, CloseAnnounces, Say, ClosedSaid
  <2> QED BY <2>1, <2>2
<1>5. CASE UNCHANGED vars
  BY <1>2, <1>5 DEF vars, ClosedSaid
<1>6. CASE UserClosesPrimary \/ Quit \/ RunWebview \/ RunBackground \/ LoopRuns \/ EndRunLoop
           \/ RunReturns \/ ShutdownEnds
  BY <1>2, <1>6 DEF UserClosesPrimary, Quit, RunWebview, RunBackground, LoopRuns, EndRunLoop,
     RunReturns, ShutdownEnds, ClosedSaid
<1>7. ASSUME NEW w \in Window, CloseAllCloses(w) \/ UserCloses(w) \/ CloseEnds(w)
             \/ CloseRemoves(w) \/ CloseDispatches(w) \/ CloseQuits(w)
      PROVE  SaidInStep(v)'
  <2>1. UNCHANGED <<opener, said, reaper>>
    BY <1>7 DEF CloseAllCloses, UserCloses, CloseEnds, CloseRemoves, CloseDispatches, CloseQuits
  <2>2. closer'[v] \in {"announced", "done"} <=> closer[v] \in {"announced", "done"}
    BY <1>7 DEF CloseAllCloses, Removes, UserCloses, CloseEnds, CloseRemoves, CloseDispatches,
       CloseQuits
  <2> QED BY <1>2, <2>1, <2>2 DEF ClosedSaid
<1>8. ASSUME NEW w \in Window, OpenStartsProcess(w) \/ OpenStartsThread(w) \/ OpenDispatches(w)
             \/ OpenFails(w) \/ OpenReceives(w) \/ OpenInserts(w)
      PROVE  SaidInStep(v)'
  <2>1. UNCHANGED <<said, closer>>
    BY <1>8 DEF OpenStartsProcess, OpenStartsThread, OpenDispatches, OpenFails, OpenReceives,
       OpenInserts
  <2>2. opener'[v] = "opened" <=> opener[v] = "opened"
    BY <1>8 DEF OpenStartsProcess, OpenStartsThread, OpenDispatches, OpenFails, OpenReceives,
       OpenInserts
  <2>3. reaper'[v] \in {"announced", "done"} <=> reaper[v] \in {"announced", "done"}
    BY <1>8 DEF OpenStartsProcess, OpenStartsThread, OpenDispatches, OpenFails, OpenReceives,
       OpenInserts
  <2> QED BY <1>2, <2>1, <2>2, <2>3 DEF ClosedSaid
<1>9. ASSUME NEW w \in Window, ThreadCreates(w) \/ ReaperRemoves(w) \/ ReaperQuits(w)
      PROVE  SaidInStep(v)'
  BY <1>2, <1>9 DEF ThreadCreates, ReaperRemoves, ReaperQuits, ClosedSaid
<1> QED BY <1>3, <1>4, <1>5, <1>6, <1>7, <1>8, <1>9 DEF Next, Main, Open, Close, CloseRest, Reaper

(***************************************************************************)
(* The end of the child processes.                                         *)
(***************************************************************************)
LEMMA KnownStep == Before /\ AllKnownClosed /\ [Next]_vars => AllKnownClosed'
<1> SUFFICES ASSUME Before, AllKnownClosed, [Next]_vars PROVE AllKnownClosed'
  OBVIOUS
<1> USE DEF Before, TypeOK, AllKnownClosed, MainLoop, winVars, mgrVars, mainVars
<1>1. CASE UNCHANGED vars
  BY <1>1 DEF vars
<1>2. CASE UserClosesPrimary \/ Quit \/ RunWebview \/ RunBackground \/ EndRunLoop
  BY <1>2 DEF UserClosesPrimary, Quit, RunWebview, RunBackground, EndRunLoop
<1>3. CASE RunReturns
  BY <1>3 DEF RunReturns
<1>4. CASE LoopRuns
  BY <1>4, LoopCreates DEF LoopRuns
<1>5. CASE ShutdownEnds
  BY <1>5 DEF ShutdownEnds
<1>6. ASSUME NEW w \in Window, CloseAllCloses(w) PROVE AllKnownClosed'
  BY <1>6 DEF CloseAllCloses, Removes, Ends
<1>7. ASSUME NEW w \in Window, Open(w) PROVE AllKnownClosed'
  <2>1. UNCHANGED <<kind, main, missed, toClose>>
    BY <1>7 DEF Open, OpenStartsProcess, OpenStartsThread, OpenDispatches, OpenFails, OpenReceives,
       OpenInserts, OpenAnnounces
  <2>2. \A v \in Window : opener[v] \in {"inserted", "opened"} =>
          opener'[v] \in {"inserted", "opened"} /\ native'[v] = native[v]
    BY <1>7 DEF Open, OpenStartsProcess, OpenStartsThread, OpenDispatches, OpenFails, OpenReceives,
       OpenInserts, OpenAnnounces
  <2> QED BY <2>1, <2>2
<1>8. ASSUME NEW w \in Window, UserCloses(w) PROVE AllKnownClosed'
  BY <1>8 DEF UserCloses
<1>9. ASSUME NEW w \in Window, Reaper(w) PROVE AllKnownClosed'
  BY <1>9 DEF Reaper, ThreadCreates, ReaperRemoves, ReaperAnnounces, ReaperQuits, Ordered
<1>10. ASSUME NEW w \in Window, Close(w) PROVE AllKnownClosed'
  BY <1>10 DEF Close, CloseRest, CloseEnds, CloseRemoves, CloseDispatches, CloseAnnounces,
     CloseQuits, Removes, Ends
<1> QED BY <1>1, <1>2, <1>3, <1>4, <1>5, <1>6, <1>7, <1>8, <1>9, <1>10 DEF Next, Main

LEMMA StoppedStep == Before /\ StoppedEmpty /\ [Next]_vars => StoppedEmpty'
<1> SUFFICES ASSUME Before, StoppedEmpty, [Next]_vars PROVE StoppedEmpty'
  OBVIOUS
<1> USE DEF Before, TypeOK, StoppedEmpty, Running, winVars, mgrVars, mainVars
<1>1. CASE UNCHANGED vars
  BY <1>1 DEF vars
<1>2. CASE UserClosesPrimary \/ Quit \/ Main
  BY <1>2 DEF UserClosesPrimary, Quit, Main, RunWebview, RunBackground, EndRunLoop, RunReturns,
     LoopRuns, CloseAllCloses, ShutdownEnds
<1>3. ASSUME NEW w \in Window, UserCloses(w) PROVE StoppedEmpty'
  BY <1>3 DEF UserCloses
<1>4. ASSUME NEW w \in Window, Open(w) \/ Reaper(w) \/ Close(w) PROVE StoppedEmpty'
  BY <1>4 DEF Open, OpenStartsProcess, OpenStartsThread, OpenDispatches, OpenFails, OpenReceives,
     OpenInserts, OpenAnnounces, Reaper, ThreadCreates, ReaperRemoves, ReaperAnnounces,
     ReaperQuits, Close, CloseRest, CloseEnds, CloseRemoves, CloseDispatches, CloseAnnounces,
     CloseQuits, Removes
<1> QED BY <1>1, <1>2, <1>3, <1>4 DEF Next

-----------------------------------------------------------------------------

LEMMA StepIInv == IInv /\ [Next]_vars => IInv'
BY TypeStep, OrderStep, QueueStep, UpStep, AnnounceStep, KnownStep, StoppedStep DEF IInv, Before

LEMMA Invariance == Spec => []IInv
BY InitIInv, StepIInv, PTL DEF Spec

(***************************************************************************)
(* Every variable keeps its type; the map holds only windows whose Open    *)
(* has entered them.                                                       *)
(***************************************************************************)
THEOREM TypeCorrect == Spec => []TypeOK
<1>1. IInv => TypeOK
  BY DEF IInv
<1> QED BY <1>1, Invariance, PTL

(***************************************************************************)
(* A window on the screen is in the map or in the hands of its Open or its *)
(* Close (windowmanager.go, windowmanager_mainloop.go), but for the one    *)
(* whose Open has timed out.                                               *)
(***************************************************************************)
THEOREM NoWindowOutOfReach == Spec => []UpIsManaged
<1>1. IInv => UpIsManaged
  BY DEF IInv
<1> QED BY <1>1, Invariance, PTL

(***************************************************************************)
(* window:opened and window:closed are emitted at most once for a window,  *)
(* whoever ends it (windowmanager.go:142, windowmanager_mainloop.go:116).  *)
(***************************************************************************)
THEOREM EachAnnouncedOnce == Spec => []AnnouncedOnce
<1>1. IInv => AnnouncedOnce
  <2> SUFFICES ASSUME IInv, NEW w \in Window PROVE
        \A i, j \in DOMAIN said[w] : said[w][i] = said[w][j] => i = j
    BY DEF AnnouncedOnce
  <2>1. DOMAIN said[w] = 1 .. Len(said[w])
    BY DEF IInv, TypeOK
  <2> QED BY <2>1 DEF IInv, SaidInStep
<1> QED BY <1>1, Invariance, PTL

(***************************************************************************)
(* A child process outlives the application only if shutdown's CloseAll    *)
(* read the map before its Open had entered it (windowmanager.go:179).     *)
(***************************************************************************)
THEOREM ChildrenAreClosed == Spec => []OnlyLateChildOutlives
<1>1. IInv => OnlyLateChildOutlives
  BY DEF IInv, AllKnownClosed, StoppedEmpty, OnlyLateChildOutlives, TypeOK
<1> QED BY <1>1, Invariance, PTL

-----------------------------------------------------------------------------

(***************************************************************************)
(* What the map knows.                                                     *)
(***************************************************************************)

(* The map holds a window exactly while someone is to see it end: its      *)
(* reaper, or, with one loop for all, its Close. Only a thread that ends   *)
(* before its Open has entered the window leaves an entry behind.          *)
Mapped(w) ==
  /\ kind = "process" => (w \in wins <=> reaper[w] = "running")
  /\ kind \in MainLoop => (w \in wins <=> /\ opener[w] \in {"inserted", "opened"}
                                         /\ closer[w] = "none")
  /\ kind = "thread" /\ reaper[w] \in {"creating", "running"} =>
       (w \in wins <=> opener[w] \in {"inserted", "opened"})

MapIsExact == \A w \in Window : Mapped(w)

(* A closure that destroys a window was dispatched by its Close.           *)
DestroysOwned ==
  \A i \in 1 .. Len(queue) : queue[i].op = "destroy" => closer[queue[i].win] # "none"

(* How each manager comes to know that a window is gone.                   *)
EndKnown(w) ==
  /\ userClosed[w] => native[w] = "gone"
  /\ loopEnd[w] => kind = "thread" /\ native[w] # "none"
  /\ kind = "process" /\ opener[w] \in {"inserted", "opened"} => reaper[w] # "none"
  /\ kind = "thread" /\ native[w] # "none" => reaper[w] \notin {"none", "creating"}
  /\ kind = "thread" /\ native[w] = "gone" /\ reaper[w] = "running" /\ Running =>
       loopEnd[w] \/ userClosed[w]
  /\ kind = "thread" /\ reaper[w] \in {"removed", "announced", "done"} => loopEnd[w]
  /\ kind \in MainLoop /\ native[w] = "gone" /\ Running => userClosed[w] \/ closer[w] # "none"
  /\ w \in ExitOnClose /\ (reaper[w] = "done" \/ closer[w] = "done") => quit

(* CloseAll waits only for a Close that goes on, and the loop has ended.   *)
ClosesOwned ==
  /\ \A w \in mine : closer[w] # "none"
  /\ main \in {"closing", "stopped"} => mainEnd
  /\ primary # "none" => main # "starting"

LEMMA InitEnds == Init => MapIsExact /\ DestroysOwned /\ ClosesOwned /\ (\A w \in Window : EndKnown(w))
BY DEF Init, MapIsExact, Mapped, DestroysOwned, ClosesOwned, EndKnown, MainLoop, Kind

LEMMA MapStep == Before /\ MapIsExact /\ [Next]_vars => MapIsExact'
<1> SUFFICES ASSUME Before, MapIsExact, [Next]_vars, NEW v \in Window PROVE Mapped(v)'
  BY DEF MapIsExact
<1>1. Mapped(v) /\ Ordered(v)
  BY DEF MapIsExact, Before
<1> USE DEF Before, TypeOK, Ordered, Mapped, MainLoop, winVars, mgrVars, mainVars
<1>2. CASE UNCHANGED vars
  BY <1>1, <1>2 DEF vars
<1>3. CASE UserClosesPrimary \/ Quit \/ RunWebview \/ RunBackground \/ LoopRuns \/ EndRunLoop
           \/ RunReturns \/ ShutdownEnds
  BY <1>1, <1>3 DEF UserClosesPrimary, Quit, RunWebview, RunBackground, LoopRuns, EndRunLoop,
     RunReturns, ShutdownEnds
<1>4. ASSUME NEW w \in Window, CloseAllCloses(w) PROVE Mapped(v)'
  <2>1. UNCHANGED <<kind, opener, reaper>>
    BY <1>4 DEF CloseAllCloses
  <2>2. CASE Removes(w)
    BY <1>1, <2>1, <2>2 DEF Removes
  <2>3. CASE UNCHANGED <<wins, closer>>
    BY <1>1, <2>1, <2>3
  <2> QED BY <1>4, <2>2, <2>3 DEF CloseAllCloses
<1>5. ASSUME NEW w \in Window, OpenStartsProcess(w) \/ OpenStartsThread(w) \/ OpenDispatches(w)
             \/ OpenFails(w) \/ OpenReceives(w)
      PROVE  Mapped(v)'
  BY <1>1, <1>5 DEF OpenStartsProcess, OpenStartsThread, OpenDispatches, OpenFails, OpenReceives
<1>6. ASSUME NEW w \in Window, OpenInserts(w) PROVE Mapped(v)'
  BY <1>1, <1>6 DEF OpenInserts
<1>7. ASSUME NEW w \in Window, OpenAnnounces(w) \/ UserCloses(w) PROVE Mapped(v)'
  BY <1>1, <1>7 DEF OpenAnnounces, UserCloses
<1>8. ASSUME NEW w \in Window, Reaper(w) PROVE Mapped(v)'
  BY <1>1, <1>8 DEF Reaper, ThreadCreates, ReaperRemoves, ReaperAnnounces, ReaperQuits
<1>9. ASSUME NEW w \in Window, Close(w) PROVE Mapped(v)'
  BY <1>1, <1>9 DEF Close, CloseRest, CloseEnds, CloseRemoves, CloseDispatches, CloseAnnounces,
     CloseQuits, Removes
<1> QED BY <1>2, <1>3, <1>4, <1>5, <1>6, <1>7, <1>8, <1>9 DEF Next, Main, Open

LEMMA ClosesStep == Before /\ ClosesOwned /\ [Next]_vars => ClosesOwned'
<1> SUFFICES ASSUME Before, ClosesOwned, [Next]_vars PROVE ClosesOwned'
  OBVIOUS
<1> USE DEF Before, TypeOK, ClosesOwned, winVars, mgrVars, mainVars
<1>1. CASE UNCHANGED vars
  BY <1>1 DEF vars
<1>2. CASE UserClosesPrimary \/ Quit \/ RunWebview \/ RunBackground \/ LoopRuns \/ EndRunLoop
           \/ RunReturns \/ ShutdownEnds
  BY <1>2 DEF UserClosesPrimary, Quit, RunWebview, RunBackground, LoopRuns, EndRunLoop,
     RunReturns, ShutdownEnds, Running
<1>3. ASSUME NEW w \in Window, CloseAllCloses(w) PROVE ClosesOwned'
  BY <1>3 DEF CloseAllCloses, Removes
<1>4. ASSUME NEW w \in Window, UserCloses(w) PROVE ClosesOwned'
  BY <1>4 DEF UserCloses
<1>5. ASSUME NEW w \in Window, Open(w) \/ Reaper(w) PROVE ClosesOwned'
  BY <1>5 DEF Open, OpenStartsProcess, OpenStartsThread, OpenDispatches, OpenFails, OpenReceives,
     OpenInserts, OpenAnnounces, Reaper, ThreadCreates, ReaperRemoves, ReaperAnnounces, ReaperQuits
<1>6. ASSUME NEW w \in Window, Close(w) PROVE ClosesOwned'
  BY <1>6 DEF Close, CloseRest, CloseEnds, CloseRemoves, CloseDispatches, CloseAnnounces,
     CloseQuits, Removes
<1> QED BY <1>1, <1>2, <1>3, <1>4, <1>5, <1>6 DEF Next, Main

(* A Close, once begun, is never undone.                                   *)
LEMMA CloserStays ==
  Before /\ [Next]_vars => \A v \in Window : closer[v] # "none" => closer'[v] # "none"
<1> SUFFICES ASSUME Before, [Next]_vars, NEW v \in Window, closer[v] # "none"
             PROVE  closer'[v] # "none"
  OBVIOUS
<1> USE DEF Before, TypeOK, winVars, mgrVars, mainVars
<1>1. CASE UNCHANGED vars
  BY <1>1 DEF vars
<1>2. CASE UserClosesPrimary \/ Quit \/ Main
  BY <1>2 DEF UserClosesPrimary, Quit, Main, RunWebview, RunBackground, LoopRuns, EndRunLoop,
     RunReturns, CloseAllCloses, Removes, ShutdownEnds
<1>3. ASSUME NEW w \in Window, Open(w) \/ UserCloses(w) \/ Reaper(w) PROVE closer'[v] # "none"
  BY <1>3 DEF UserCloses, Open, OpenStartsProcess, OpenStartsThread, OpenDispatches, OpenFails,
     OpenReceives, OpenInserts, OpenAnnounces, Reaper, ThreadCreates, ReaperRemoves,
     ReaperAnnounces, ReaperQuits
<1>4. ASSUME NEW w \in Window, Close(w) PROVE closer'[v] # "none"
  BY <1>4 DEF Close, CloseRest, CloseEnds, CloseRemoves, CloseDispatches, CloseAnnounces,
     CloseQuits, Removes
<1> QED BY <1>1, <1>2, <1>3, <1>4 DEF Next

LEMMA DestroysStep == Before /\ DestroysOwned /\ [Next]_vars => DestroysOwned'
<1> SUFFICES ASSUME Before, DestroysOwned, [Next]_vars PROVE DestroysOwned'
  OBVIOUS
<1>1. \A v \in Window : closer[v] # "none" => closer'[v] # "none"
  BY CloserStays
<1>2. \A i \in 1 .. Len(queue) : queue[i].win \in Window
  BY Entries DEF Before
<1>3. CASE UNCHANGED queue
  BY <1>1, <1>2, <1>3 DEF DestroysOwned
<1>4. CASE LoopRuns
  <2>1. \A i \in 1 .. Len(queue') : i + 1 \in 1 .. Len(queue) /\ queue'[i] = queue[i + 1]
    BY <1>4, LoopCreates DEF Before
  <2> QED BY <1>1, <1>2, <2>1 DEF DestroysOwned
<1>5. ASSUME NEW w \in Window, OpenDispatches(w) \/ CloseDispatches(w) PROVE DestroysOwned'
  <2>1. PICK op \in {"create", "destroy"} :
          /\ queue' = Append(queue, [op |-> op, win |-> w])
          /\ op = "destroy" => closer[w] # "none"
    BY <1>5 DEF OpenDispatches, CloseDispatches
  <2>2. /\ Len(queue') = Len(queue) + 1 /\ Len(queue) \in Nat
        /\ \A i \in 1 .. Len(queue) : queue'[i] = queue[i]
        /\ queue'[Len(queue) + 1] = [op |-> op, win |-> w]
    BY <2>1, AppendEntry
  <2>3. \A i \in 1 .. Len(queue') : i \in 1 .. Len(queue) \/ i = Len(queue) + 1
    BY <2>2
  <2> QED BY <1>1, <1>2, <2>1, <2>2, <2>3 DEF DestroysOwned
<1>6. UNCHANGED vars => UNCHANGED queue
  BY DEF vars
<1>7. UserClosesPrimary \/ Quit \/ RunWebview \/ RunBackground \/ EndRunLoop \/ RunReturns
        \/ ShutdownEnds => UNCHANGED queue
  BY DEF UserClosesPrimary, Quit, RunWebview, RunBackground, EndRunLoop, RunReturns, ShutdownEnds,
     mgrVars, mainVars, winVars
<1>8. ASSUME NEW w \in Window, CloseAllCloses(w) \/ UserCloses(w) \/ Reaper(w) \/ CloseEnds(w)
             \/ CloseRemoves(w) \/ CloseAnnounces(w) \/ CloseQuits(w) \/ OpenStartsProcess(w)
             \/ OpenStartsThread(w) \/ OpenFails(w) \/ OpenReceives(w) \/ OpenInserts(w)
             \/ OpenAnnounces(w)
      PROVE  UNCHANGED queue
  BY <1>8, Zenon DEF CloseAllCloses, UserCloses, Reaper, ThreadCreates, ReaperRemoves,
     ReaperAnnounces, ReaperQuits, CloseEnds, CloseRemoves, CloseAnnounces, CloseQuits,
     OpenStartsProcess, OpenStartsThread, OpenFails, OpenReceives, OpenInserts, OpenAnnounces
<1> QED BY <1>3, <1>4, <1>5, <1>6, <1>7, <1>8 DEF Next, Main, Open, Close, CloseRest

LEMMA EndsStep ==
  Before /\ DestroysOwned /\ (\A w \in Window : EndKnown(w)) /\ [Next]_vars =>
    \A w \in Window : EndKnown(w)'
<1> SUFFICES ASSUME Before, DestroysOwned, \A w \in Window : EndKnown(w), [Next]_vars,
                    NEW v \in Window
             PROVE  EndKnown(v)'
  OBVIOUS
<1>1. EndKnown(v) /\ Ordered(v) /\ TypeOK
  BY DEF Before
<1> USE DEF TypeOK, Ordered, EndKnown, MainLoop, Running, winVars, mgrVars, mainVars
<1>2. CASE UNCHANGED vars
  BY <1>1, <1>2 DEF vars
<1>3. CASE UserClosesPrimary \/ Quit \/ RunWebview \/ RunBackground \/ EndRunLoop \/ RunReturns
  BY <1>1, <1>3 DEF UserClosesPrimary, Quit, RunWebview, RunBackground, EndRunLoop, RunReturns
<1>4. CASE LoopRuns
  <2>1. UNCHANGED <<kind, loopEnd, userClosed, opener, reaper, closer, quit, main>>
        /\ kind \in MainLoop
    BY <1>4, LoopCreates DEF LoopRuns, Before
  <2>2. CASE native'[v] = native[v]
    BY <1>1, <2>1, <2>2
  <2>3. CASE native'[v] # native[v] /\ Head(queue).op = "create"
    <3>1. v = Head(queue).win /\ opener[v] \in {"waiting", "failed"} /\ native'[v] = "up"
      BY <1>4, <2>3, LoopCreates DEF Before
    <3>2. queue # <<>> /\ Head(queue) = queue[1] /\ 1 \in 1 .. Len(queue)
      BY <1>1, <1>4 DEF LoopRuns
    <3>3. native[v] = "none"
      BY <2>3, <3>1, <3>2 DEF Before, Queued
    <3> QED BY <1>1, <2>1, <3>1, <3>3
  <2>4. CASE native'[v] # native[v] /\ Head(queue).op # "create"
    <3>1. v = Head(queue).win /\ native'[v] = "gone"
      BY <1>4, <2>4, LoopCreates DEF Before
    <3>2. queue # <<>> /\ Head(queue) = queue[1] /\ 1 \in 1 .. Len(queue)
      BY <1>1, <1>4 DEF LoopRuns
    <3>3. queue[1].op = "destroy"
      BY <1>1, <2>4, <3>2, Entries
    <3>4. closer[v] # "none"
      BY <3>1, <3>2, <3>3 DEF DestroysOwned
    <3> QED BY <1>1, <2>1, <3>1, <3>4
  <2> QED BY <2>2, <2>3, <2>4
<1>5. CASE ShutdownEnds
  BY <1>1, <1>5 DEF ShutdownEnds
<1>6. ASSUME NEW w \in Window, CloseAllCloses(w) PROVE EndKnown(v)'
  <2>1. UNCHANGED <<kind, opener, reaper, quit, main>>
    BY <1>6 DEF CloseAllCloses
  <2>2. CASE Removes(w) /\ UNCHANGED winVars
    BY <1>1, <2>1, <2>2 DEF Removes
  <2>3. CASE Ends(w) /\ UNCHANGED closer
    BY <1>1, <2>1, <2>3 DEF Ends
  <2>4. CASE UNCHANGED <<winVars, closer>>
    BY <1>1, <2>1, <2>4
  <2> QED BY <1>6, <2>2, <2>3, <2>4 DEF CloseAllCloses
<1>7. ASSUME NEW w \in Window, OpenStartsProcess(w) \/ OpenStartsThread(w) \/ OpenDispatches(w)
             \/ OpenFails(w) \/ OpenReceives(w)
      PROVE  EndKnown(v)'
  BY <1>1, <1>7 DEF OpenStartsProcess, OpenStartsThread, OpenDispatches, OpenFails, OpenReceives
<1>8. ASSUME NEW w \in Window, OpenInserts(w) \/ OpenAnnounces(w) PROVE EndKnown(v)'
  BY <1>1, <1>8 DEF OpenInserts, OpenAnnounces
<1>9. ASSUME NEW w \in Window, UserCloses(w) PROVE EndKnown(v)'
  BY <1>1, <1>9 DEF UserCloses
<1>10. ASSUME NEW w \in Window, Reaper(w) PROVE EndKnown(v)'
  <2>1. CASE ThreadCreates(w)
    BY <1>1, <2>1 DEF ThreadCreates
  <2>2. CASE ReaperRemoves(w)
    BY <1>1, <2>2 DEF ReaperRemoves
  <2>3. CASE ReaperAnnounces(w)
    BY <1>1, <2>3 DEF ReaperAnnounces
  <2>4. CASE ReaperQuits(w)
    BY <1>1, <2>4 DEF ReaperQuits
  <2> QED BY <1>10, <2>1, <2>2, <2>3, <2>4 DEF Reaper
<1>11. ASSUME NEW w \in Window, Close(w) PROVE EndKnown(v)'
  <2>1. CASE CloseEnds(w)
    BY <1>1, <2>1 DEF CloseEnds, Ends
  <2>2. CASE CloseRemoves(w) \/ CloseDispatches(w) \/ CloseAnnounces(w)
    BY <1>1, <2>2 DEF CloseRemoves, Removes, CloseDispatches, CloseAnnounces
  <2>3. CASE CloseQuits(w)
    BY <1>1, <2>3 DEF CloseQuits
  <2> QED BY <1>11, <2>1, <2>2, <2>3 DEF Close, CloseRest
<1> QED BY <1>2, <1>3, <1>4, <1>5, <1>6, <1>7, <1>8, <1>9, <1>10, <1>11 DEF Next, Main, Open

EndInv ==
  /\ IInv /\ MapIsExact /\ DestroysOwned /\ ClosesOwned
  /\ \A w \in Window : EndKnown(w)

LEMMA EndInvariance == Spec => []EndInv
<1>1. Init => EndInv
  BY InitIInv, InitEnds DEF EndInv
<1>2. EndInv /\ [Next]_vars => EndInv'
  <2>1. EndInv => Before /\ IInv /\ MapIsExact /\ DestroysOwned /\ ClosesOwned
                  /\ (\A w \in Window : EndKnown(w))
    BY DEF EndInv, IInv, Before
  <2> QED BY <2>1, StepIInv, MapStep, DestroysStep, ClosesStep, EndsStep DEF EndInv
<1> QED BY <1>1, <1>2, PTL DEF Spec


(***************************************************************************)
(* While a window lives, the manager's map is exact: with a child process  *)
(* for each it holds a window exactly while a goroutine waits for its end  *)
(* (windowmanager.go:134), with one loop for all exactly from the entry by *)
(* Open to the removal by Close (windowmanager_mainloop.go:120), and with  *)
(* a thread for each, as long as its thread runs, from the entry by Open.  *)
(***************************************************************************)
THEOREM MapFollowsWindows == Spec => []MapIsExact
<1>1. EndInv => MapIsExact
  BY DEF EndInv
<1> QED BY <1>1, EndInvariance, PTL

(* Somebody is still to act on the end of the window, or has.              *)
EndIsObserved ==
  \A w \in Window :
    w \in ExitOnClose /\ native[w] = "gone" /\ opener[w] = "opened" /\ Running =>
      \/ quit
      \/ reaper[w] = "running" /\ (kind = "process" \/ loopEnd[w])
      \/ reaper[w] \in {"removed", "announced"}
      \/ closer[w] \in {"removed", "dispatched", "announced"}
      \/ userClosed[w] /\ kind \in MainLoop
      \/ LoopAbandoned(w)

(***************************************************************************)
(* When a window with ExitOnClose is gone, the application has been told   *)
(* to quit, or a step that will tell it can be taken: its reaper's or its  *)
(* Close's. The end goes unseen only where the user closed the window: of  *)
(* the main-loop manager always, of a thread when its loop was left on     *)
(* (windowmanager.go:142, windowmanager_mainloop.go:116).                  *)
(***************************************************************************)
THEOREM EndsAreObserved == Spec => []EndIsObserved
<1>1. EndInv => EndIsObserved
  <2> SUFFICES ASSUME EndInv, NEW w \in Window, w \in ExitOnClose, native[w] = "gone",
                      opener[w] = "opened", Running, ~quit
               PROVE  \/ reaper[w] = "running" /\ (kind = "process" \/ loopEnd[w])
                      \/ reaper[w] \in {"removed", "announced"}
                      \/ closer[w] \in {"removed", "dispatched", "announced"}
                      \/ userClosed[w] /\ kind \in MainLoop
                      \/ LoopAbandoned(w)
    BY DEF EndIsObserved
  <2>1. EndKnown(w) /\ Ordered(w) /\ kind \in Kind
        /\ reaper[w] \in {"none", "creating", "running", "removed", "announced", "done"}
        /\ closer[w] \in {"none", "removed", "dispatched", "announced", "done"}
    BY DEF EndInv, IInv, TypeOK
  <2>2. reaper[w] # "done" /\ closer[w] # "done"
    BY <2>1 DEF EndKnown
  <2>3. CASE kind = "process"
    BY <2>1, <2>2, <2>3 DEF EndKnown, Ordered
  <2>4. CASE kind = "thread"
    BY <2>1, <2>2, <2>4 DEF EndKnown, LoopAbandoned
  <2>5. CASE kind \in MainLoop
    BY <2>1, <2>2, <2>5 DEF EndKnown
  <2> QED BY <2>1, <2>3, <2>4, <2>5 DEF Kind
<1> QED BY <1>1, EndInvariance, PTL

(* What CloseAll waits for is a Close that is under way.                   *)
ShutdownGoesOn ==
  main = "closing" =>
    /\ mainEnd
    /\ CloseAllFree \/ \E w \in mine : closer[w] \in {"removed", "dispatched", "announced"}

(***************************************************************************)
(* shutdown's CloseAll never waits for a window that nobody is closing: it *)
(* is free, or one of the windows it has taken out of the map is between   *)
(* the removal and the last step of its Close                              *)
(* (windowmanager_mainloop.go:120).                                        *)
(***************************************************************************)
THEOREM ShutdownIsNeverStuck == Spec => []ShutdownGoesOn
<1>1. EndInv => ShutdownGoesOn
  <2> SUFFICES ASSUME EndInv, main = "closing" PROVE ShutdownGoesOn
    BY DEF ShutdownGoesOn
  <2>1. mainEnd /\ \A w \in mine :
          closer[w] \in {"removed", "dispatched", "announced", "done"}
    BY DEF EndInv, ClosesOwned, IInv, TypeOK
  <2> QED BY <2>1 DEF ShutdownGoesOn, CloseAllFree
<1> QED BY <1>1, EndInvariance, PTL

(* The manager goes on counting the window as open.                        *)
AbandonedStaysOpen ==
  \A w \in Window : LoopAbandoned(w) =>
    /\ reaper[w] = "running"
    /\ opener[w] \in {"inserted", "opened"} => w \in wins
    /\ \A i \in DOMAIN said[w] : said[w][i] # "closed"

(***************************************************************************)
(* With a thread for each window, one that the user closed before others   *)
(* is still in the map, and window:closed was not emitted for it, as long  *)
(* as its loop was not ended (windowmanager.go:247).                       *)
(***************************************************************************)
THEOREM AbandonedLooksOpen == Spec => []AbandonedStaysOpen
<1>1. EndInv => AbandonedStaysOpen
  <2> SUFFICES ASSUME EndInv, NEW w \in Window, LoopAbandoned(w)
               PROVE  /\ reaper[w] = "running"
                      /\ opener[w] \in {"inserted", "opened"} => w \in wins
                      /\ \A i \in DOMAIN said[w] : said[w][i] # "closed"
    BY DEF AbandonedStaysOpen
  <2>1. /\ EndKnown(w) /\ Ordered(w) /\ Mapped(w) /\ SaidInStep(w) /\ DOMAIN said[w] = 1 .. Len(said[w])
        /\ reaper[w] \in {"none", "creating", "running", "removed", "announced", "done"}
    BY DEF EndInv, IInv, TypeOK, MapIsExact
  <2>2. kind = "thread" /\ native[w] = "gone" /\ ~loopEnd[w] /\ kind \notin MainLoop
    BY <2>1 DEF LoopAbandoned, EndKnown, MainLoop
  <2>3. reaper[w] = "running"
    BY <2>1, <2>2 DEF EndKnown
  <2>4. ~ClosedSaid(w)
    BY <2>1, <2>2, <2>3 DEF ClosedSaid, Ordered
  <2> QED BY <2>1, <2>2, <2>3, <2>4 DEF Mapped, SaidInStep
<1> QED BY <1>1, EndInvariance, PTL

(* Two states nothing leads out of.                                        *)
AbandonedStays == \A w \in Window : LoopAbandoned(w) => LoopAbandoned(w)'

Orphaned == kind = "thread" /\ primary = "gone" /\ ~mainEnd

OrphanedStays == Orphaned => Orphaned' /\ main' = main

(***************************************************************************)
(* The exceptions of ExitOnCloseQuits and QuitStops are for ever. The loop *)
(* of a thread whose window the user closed before others is never told to *)
(* end: Terminate is dispatched to a window that is gone. And once the     *)
(* user has closed the primary window with others open, neither Quit nor   *)
(* the end of any other window lets Run return (app.go, runWebview).       *)
(***************************************************************************)
THEOREM NothingFreesALostLoop == Spec => [][AbandonedStays /\ OrphanedStays]_vars
<1>1. EndInv /\ [Next]_vars => [AbandonedStays /\ OrphanedStays]_vars
  <2> SUFFICES ASSUME EndInv, Next PROVE AbandonedStays /\ OrphanedStays
    BY DEF EndInv
  <2>0. TypeOK /\ ClosesOwned /\ \A v \in Window : EndKnown(v) /\ Ordered(v)
    BY DEF EndInv, IInv
  <2>1. AbandonedStays
    <3> SUFFICES ASSUME NEW v \in Window, LoopAbandoned(v) PROVE LoopAbandoned(v)'
      BY DEF AbandonedStays
    <3>0. native[v] = "gone"
      BY <2>0 DEF EndKnown, LoopAbandoned
    <3> USE <2>0, <3>0 DEF TypeOK, LoopAbandoned, winVars, mgrVars, mainVars
    <3>1. CASE UserClosesPrimary \/ Quit \/ Main
      BY <3>1 DEF UserClosesPrimary, Quit, Main, RunWebview, RunBackground, LoopRuns, EndRunLoop,
         RunReturns, CloseAllCloses, Removes, Ends, ShutdownEnds
    <3>2. ASSUME NEW w \in Window, Open(w) \/ UserCloses(w) PROVE LoopAbandoned(v)'
      BY <3>2 DEF UserCloses, Open, OpenStartsProcess, OpenStartsThread, OpenDispatches, OpenFails,
         OpenReceives, OpenInserts, OpenAnnounces
    <3>3. ASSUME NEW w \in Window, Reaper(w) PROVE LoopAbandoned(v)'
      BY <3>3 DEF Reaper, ThreadCreates, ReaperRemoves, ReaperAnnounces, ReaperQuits, Ordered
    <3>4. ASSUME NEW w \in Window, Close(w) PROVE LoopAbandoned(v)'
      BY <3>4 DEF Close, CloseRest, CloseEnds, CloseRemoves, CloseDispatches, CloseAnnounces,
         CloseQuits, Removes, Ends
    <3> QED BY <3>1, <3>2, <3>3, <3>4 DEF Next
  <2>2. OrphanedStays
    <3> SUFFICES ASSUME Orphaned PROVE Orphaned' /\ main' = main
      BY DEF OrphanedStays
    <3>0. main \notin {"starting", "closing", "stopped"}
      BY <2>0 DEF ClosesOwned, Orphaned
    <3> USE <2>0, <3>0 DEF Orphaned, winVars, mgrVars, mainVars
    <3>1. CASE UserClosesPrimary \/ Quit \/ Main
      BY <3>1 DEF UserClosesPrimary, Quit, Main, RunWebview, RunBackground, LoopRuns, EndRunLoop,
         RunReturns, CloseAllCloses, ShutdownEnds
    <3>4. ASSUME NEW w \in Window, UserCloses(w) PROVE Orphaned' /\ main' = main
      <4>1. UNCHANGED <<kind, main, primary>> /\ kind # "darwin"
        BY <3>4 DEF UserCloses
      <4>2. \E last \in BOOLEAN : mainEnd' = (mainEnd \/ (kind = "darwin" /\ last))
        BY <3>4, Zenon DEF UserCloses
      <4> QED BY <4>1, <4>2
    <3>2. ASSUME NEW w \in Window, Open(w) PROVE Orphaned' /\ main' = main
      BY <3>2 DEF Open, OpenStartsProcess, OpenStartsThread, OpenDispatches, OpenFails,
         OpenReceives, OpenInserts, OpenAnnounces
    <3>3. ASSUME NEW w \in Window, Reaper(w) \/ Close(w) PROVE Orphaned' /\ main' = main
      BY <3>3 DEF Reaper, ThreadCreates, ReaperRemoves, ReaperAnnounces, ReaperQuits, Close,
         CloseRest, CloseEnds, CloseRemoves, CloseDispatches, CloseAnnounces, CloseQuits
    <3> QED BY <3>1, <3>2, <3>3, <3>4 DEF Next
  <2> QED BY <2>1, <2>2
<1> QED BY <1>1, EndInvariance, PTL DEF Spec
=============================================================================

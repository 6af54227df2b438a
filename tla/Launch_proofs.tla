---------------------------- MODULE Launch_proofs ----------------------------
(***************************************************************************)
(* Proofs about Launch, for any number of processes and versions: types    *)
(* and the single listener, a forwarded launch is heard, nobody runs       *)
(* without having asked for the lock, an update installs only what is      *)
(* newer, the executable survives every replacement, nobody disturbs one,  *)
(* and one that was cut short is never repaired.                           *)
(***************************************************************************)
EXTENDS Launch, FiniteSetTheorems, TLAPS

UpdState == {"idle", "checked", "downloaded", "aside", "failed", "stranded",
             "installed", "relaunched"}

AtMostOne(S) == \A x, y \in S : x = y

(* TypeOK, with the listener counted without Cardinality.                  *)
Types ==
  /\ single \in BOOLEAN /\ windows \in BOOLEAN
  /\ pc \in [Process -> {"none", "acquire", "forwarding", "forwarded", "running",
                         "closing", "ended"}]
  /\ port \in SUBSET Process /\ AtMostOne(port)
  /\ peer \in [Process -> SUBSET Process]
  /\ handler \in [Process -> {"none", "begin", "refused", "acked", "done"}]
  /\ notified \in SUBSET Process
  /\ version \in [Process -> 0 .. MaxVersion] /\ image \in [Process -> {"exe", "old"}]
  /\ upd \in [Process -> UpdState]
  /\ rel \in [Process -> 0 .. MaxVersion]
  /\ exe \in 0 .. MaxVersion /\ old \in 0 .. MaxVersion

(* A launch is connected to one process; an answer "ok" is one from its    *)
(* own application, and what is done with a connection has been notified.  *)
AnswersMeanIt ==
  \A s \in Process :
    /\ AtMostOne(peer[s])
    /\ handler[s] \in {"acked", "done"} => \A p \in peer[s] : SameApp(p, s)
    /\ handler[s] = "done" => s \in notified
    /\ pc[s] = "forwarded" => handler[s] \in {"acked", "done"}

(* What is being installed is newer than the process that installs it,     *)
(* and a process that does not run yet installs nothing.                   *)
UpdatesForward ==
  \A p \in Process :
    /\ upd[p] # "idle" => rel[p] > version[p]
    /\ pc[p] \in {"none", "acquire", "forwarding"} => upd[p] = "idle"

(* While the executable is missing, its previous version is run by all who *)
(* run it, so that nobody can remove it; and a process between the two     *)
(* renames, which may be shutting down meanwhile, is on Windows, is the    *)
(* only one, and the executable is missing.                                *)
Between(p) == upd[p] \in {"aside", "failed"} /\ pc[p] \in {"running", "closing"}

Aside ==
  /\ exe = 0 => \A p \in Process \ Foreign : Live(p) => image[p] = "old"
  /\ \A p \in Process : Between(p) => windows /\ exe = 0
  /\ \A p, q \in Process : Between(p) /\ Between(q) => p = q

IInv == Types /\ AnswersMeanIt /\ UpdatesForward /\ ExecutableSurvives /\ Aside

-----------------------------------------------------------------------------

LEMMA TypesSuffice == Types => TypeOK
<1> SUFFICES ASSUME Types PROVE TypeOK
  OBVIOUS
<1>1. Cardinality(port) <= 1
  <2>1. CASE port = {}
    BY <2>1, FS_EmptySet
  <2>2. CASE port # {}
    <3>1. PICK p \in port : TRUE
      BY <2>2
    <3>2. port = {p}
      BY <3>1 DEF Types, AtMostOne
    <3>3. Cardinality({p}) = 1
      BY FS_Singleton
    <3> QED BY <3>2, <3>3
  <2> QED BY <2>1, <2>2
<1> QED BY <1>1 DEF Types, TypeOK, UpdState

LEMMA InitIInv == Init => IInv
BY LaunchAssumption DEF Init, IInv, Types, UpdState, AtMostOne, AnswersMeanIt, UpdatesForward,
   ExecutableSurvives, Aside, Between, Live

(* The start of a process, by the user or by relaunch, from a state in     *)
(* which it has no update in hand.                                         *)
LEMMA StartsKeeps ==
  ASSUME IInv, NEW q \in Process, Starts(q)
  PROVE  /\ pc' \in [Process -> {"none", "acquire", "forwarding", "forwarded", "running",
                                 "closing", "ended"}]
         /\ version' \in [Process -> 0 .. MaxVersion] /\ image' \in [Process -> {"exe", "old"}]
         /\ AnswersMeanIt'
         /\ upd[q] = "idle"
         /\ \A p \in Process : p # q => version'[p] = version[p] /\ pc'[p] = pc[p]
         /\ exe = 0 => \A p \in Process \ Foreign : Live(p)' => image'[p] = "old"
<1> USE DEF IInv, Types, Starts, netVars, cfgVars, diskVars
<1>1. pc' \in [Process -> {"none", "acquire", "forwarding", "forwarded", "running",
                           "closing", "ended"}]
  OBVIOUS
<1>2. version' \in [Process -> 0 .. MaxVersion] /\ image' \in [Process -> {"exe", "old"}]
  BY LaunchAssumption
<1>3. AnswersMeanIt'
  BY DEF AnswersMeanIt, SameApp
<1>4. upd[q] = "idle"
  BY DEF UpdatesForward
<1>5. \A p \in Process : p # q => version'[p] = version[p] /\ pc'[p] = pc[p]
  OBVIOUS
<1>6. exe = 0 => \A p \in Process \ Foreign : Live(p)' => image'[p] = "old"
  BY DEF Aside, Between, Live
<1> QED BY <1>1, <1>2, <1>3, <1>4, <1>5, <1>6

LEMMA StepIInv == IInv /\ [Next]_vars => IInv'
<1> SUFFICES ASSUME IInv, [Next]_vars PROVE IInv'
  OBVIOUS
<1> USE LaunchAssumption DEF IInv
<1>1. CASE UNCHANGED vars
  BY <1>1 DEF vars, netVars, imgVars, diskVars, updVars, Types, AnswersMeanIt, SameApp,
     UpdatesForward, ExecutableSurvives, Aside, Between, Live
<1>2. ASSUME NEW p \in Process, UserStarts(p) PROVE IInv'
  <2>1. Starts(p) /\ UNCHANGED updVars
    BY <1>2 DEF UserStarts
  <2>2. Types' /\ AnswersMeanIt'
    BY <2>1, StartsKeeps DEF Types, Starts, updVars, netVars, cfgVars, diskVars
  <2>3. UpdatesForward'
    BY <2>1, StartsKeeps DEF UpdatesForward, updVars, Types, Starts
  <2>4. ExecutableSurvives' /\ Aside'
    <3>1. UNCHANGED <<windows, exe, old, upd>>
      BY <2>1 DEF updVars, Starts, cfgVars, diskVars
    <3>2. upd[p] = "idle"
      BY <2>1, StartsKeeps
    <3>3. \A r \in Process : Between(r)' => Between(r)
      BY <2>1, <3>1, <3>2, StartsKeeps DEF Between
    <3>4. ExecutableSurvives'
      BY <3>1 DEF ExecutableSurvives
    <3>5. Aside'
      BY <2>1, <3>1, <3>3, StartsKeeps DEF Aside
    <3> QED BY <3>4, <3>5
  <2> QED BY <2>2, <2>3, <2>4
<1>3. ASSUME NEW p \in Process, Acquire(p) PROVE IInv'
  <2> USE DEF Types, AnswersMeanIt, SameApp, UpdatesForward, ExecutableSurvives, Aside, Between, Live,
              cfgVars, netVars, imgVars, diskVars, updVars
  <2>1. CASE Binds(p)
    BY <2>1 DEF Binds, AtMostOne
  <2>2. CASE Forwards(p)
    BY <2>2 DEF Forwards, AtMostOne
  <2>3. CASE ForwardFails(p)
    BY <2>3 DEF ForwardFails
  <2>4. CASE ForwardReturns(p)
    BY <2>4 DEF ForwardReturns
  <2> QED BY <1>3, <2>1, <2>2, <2>3, <2>4 DEF Acquire
<1>4. ASSUME NEW s \in Process, Handle(s) PROVE IInv'
  <2> USE DEF Types, UpdatesForward, ExecutableSurvives, Aside, Between, Live,
              cfgVars, netVars, imgVars, diskVars, updVars
  <2>1. CASE Answers(s)
    <3>1. PICK p \in peer[s] :
            handler' = [handler EXCEPT ![s] = IF SameApp(p, s) THEN "acked" ELSE "refused"]
      BY <2>1 DEF Answers
    <3>2. \A q \in peer[s] : q = p
      BY <3>1 DEF AnswersMeanIt, AtMostOne
    <3>3. AnswersMeanIt'
      BY <2>1, <3>1, <3>2 DEF Answers, AnswersMeanIt, SameApp, AtMostOne
    <3> QED BY <2>1, <3>1, <3>3 DEF Answers
  <2>2. CASE Notifies(s)
    <3>1. notified' = notified \cup {s}
      BY <2>2 DEF Notifies, AnswersMeanIt
    <3>2. AnswersMeanIt'
      BY <2>2, <3>1 DEF Notifies, AnswersMeanIt, SameApp
    <3> QED BY <2>2, <3>1, <3>2 DEF Notifies
  <2> QED BY <1>4, <2>1, <2>2 DEF Handle
<1>5. ASSUME NEW p \in Process, Shutdown(p) \/ Ends(p) PROVE IInv'
  BY <1>5 DEF Shutdown, Ends, Types, AtMostOne, AnswersMeanIt, SameApp, UpdatesForward,
     ExecutableSurvives, Aside, Between, Live, cfgVars, netVars, imgVars, diskVars, updVars
<1>6. ASSUME NEW p \in Process, Update(p) PROVE IInv'
  <2> USE DEF Updates
  <2>1. CASE Check(p) \/ Download(p)
    BY <2>1 DEF Check, Download, Version, Types, UpdState, AnswersMeanIt, SameApp, UpdatesForward,
       ExecutableSurvives, Aside, Between, Live, cfgVars, netVars, imgVars, diskVars
  <2>2. CASE Replaces(p)
    BY <2>2 DEF Replaces, Types, UpdState, AnswersMeanIt, SameApp, UpdatesForward,
       ExecutableSurvives, Aside, Between, Live, cfgVars, netVars, imgVars
  <2>3. CASE MovesAside(p)
    <3>1. Types' /\ AnswersMeanIt' /\ UpdatesForward'
      BY <2>3 DEF MovesAside, Moved, Types, UpdState, AnswersMeanIt, SameApp, UpdatesForward,
         cfgVars, netVars
    <3>2. exe = 0 => InUse("old")
      BY <2>3 DEF MovesAside, InUse, Aside, Between, Live
    <3>3. ExecutableSurvives'
      BY <2>3, <3>2 DEF MovesAside, Types, UpdState, ExecutableSurvives, cfgVars, netVars
    <3>4. Aside'
      BY <2>3 DEF MovesAside, Moved, Types, UpdState, Aside, Between, Live, cfgVars, netVars
    <3> QED BY <3>1, <3>3, <3>4
  <2>4. CASE Installs(p)
    <3>1. Types' /\ AnswersMeanIt' /\ UpdatesForward'
      BY <2>4 DEF Installs, Types, UpdState, AnswersMeanIt, SameApp, UpdatesForward,
         cfgVars, netVars, imgVars
    <3>2. ExecutableSurvives' /\ Aside'
      <4>1. CASE exe' = rel[p] /\ upd' = [upd EXCEPT ![p] = "installed"]
        <5>1. exe' # 0
          BY <2>4, <4>1 DEF Installs, Types, UpdatesForward
        <5> QED BY <2>4, <4>1, <5>1 DEF Installs, Types, UpdState, ExecutableSurvives, Aside, Between,
               Live, cfgVars, netVars, imgVars
      <4>2. CASE upd' = [upd EXCEPT ![p] = "failed"] /\ UNCHANGED exe
        BY <2>4, <4>2 DEF Installs, Types, UpdState, ExecutableSurvives, Aside, Between,
           Live, cfgVars, netVars, imgVars
      <4> QED BY <2>4, <4>1, <4>2 DEF Installs
    <3> QED BY <3>1, <3>2
  <2>5. CASE RollsBack(p)
    <3>1. Types' /\ AnswersMeanIt' /\ UpdatesForward'
      BY <2>5 DEF RollsBack, Moved, Types, UpdState, AnswersMeanIt, SameApp, UpdatesForward,
         cfgVars, netVars, diskVars
    <3>2. ExecutableSurvives' /\ Aside'
      BY <2>5 DEF RollsBack, Moved, Types, UpdState, ExecutableSurvives, Aside, Between, Live,
         cfgVars, netVars, diskVars
    <3> QED BY <3>1, <3>2
  <2>6. CASE Relaunches(p)
    <3>1. CASE /\ upd' = [upd EXCEPT ![p] = "idle"]
               /\ UNCHANGED <<cfgVars, pc, netVars, imgVars, diskVars, rel>>
      BY <2>6, <3>1 DEF Relaunches, Types, UpdState, AnswersMeanIt, SameApp, UpdatesForward,
         ExecutableSurvives, Aside, Between, Live, cfgVars, netVars, imgVars, diskVars
    <3>2. ASSUME NEW q \in Process, Starts(q), upd' = [upd EXCEPT ![p] = "relaunched"],
                 UNCHANGED rel
          PROVE  IInv'
      <4>1. q # p
        BY <2>6, <3>2 DEF Relaunches, Starts
      <4>2. Types' /\ AnswersMeanIt'
        BY <3>2, StartsKeeps DEF Types, UpdState, Starts, netVars, cfgVars, diskVars
      <4>3. UpdatesForward'
        BY <2>6, <3>2, <4>1, StartsKeeps DEF Relaunches, UpdatesForward, Types, UpdState
      <4>4. ExecutableSurvives' /\ Aside'
        <5>1. upd[q] = "idle" /\ upd[p] = "installed"
          BY <2>6, <3>2, StartsKeeps DEF Relaunches
        <5>2. \A r \in Process : Between(r)' => Between(r)
          BY <2>6, <3>2, <4>1, <5>1, StartsKeeps DEF Between, Types
        <5>3. \A r \in Process : upd[r] # "installed" => upd'[r] = upd[r]
          BY <3>2, <5>1 DEF Types
        <5>4. UNCHANGED <<windows, exe, old>>
          BY <3>2 DEF Starts, cfgVars, diskVars
        <5>5. ExecutableSurvives'
          BY <5>3, <5>4 DEF ExecutableSurvives
        <5>6. Aside'
          BY <3>2, <5>2, <5>4, StartsKeeps DEF Aside
        <5> QED BY <5>5, <5>6
      <4> QED BY <4>2, <4>3, <4>4
    <3> QED BY <2>6, <3>1, <3>2 DEF Relaunches
  <2> QED BY <1>6, <2>1, <2>2, <2>3, <2>4, <2>5, <2>6 DEF Update
<1> QED BY <1>1, <1>2, <1>3, <1>4, <1>5, <1>6 DEF Next

LEMMA Invariance == Spec => []IInv
BY InitIInv, StepIInv, PTL DEF Spec

(***************************************************************************)
(* Every variable keeps its type; the port never has two listeners, so an  *)
(* application has one primary.                                            *)
(***************************************************************************)
THEOREM TypeCorrect == Spec => []TypeOK
<1>1. IInv => TypeOK
  BY TypesSuffice DEF IInv
<1> QED BY <1>1, Invariance, PTL

(***************************************************************************)
(* A launch that exits as forwarded was answered by its own application,   *)
(* which has its arguments or is about to (singleinstance.go, handle).     *)
(***************************************************************************)
THEOREM ForwardedLaunchIsHeard == Spec => []ForwardedIsHeard
<1>1. IInv => ForwardedIsHeard
  BY DEF IInv, AnswersMeanIt, ForwardedIsHeard
<1> QED BY <1>1, Invariance, PTL

(***************************************************************************)
(* The executable, or its previous version under another name, survives    *)
(* every interleaving of updates, rollbacks and crashes (updater.go,       *)
(* ApplyAndRelaunch).                                                      *)
(***************************************************************************)
THEOREM ExecutableAlwaysSurvives == Spec => []ExecutableSurvives
<1>1. IInv => ExecutableSurvives
  BY DEF IInv
<1> QED BY <1>1, Invariance, PTL

(***************************************************************************)
(* What an update installs is what it checked, and newer than the process  *)
(* that installs it (updater.go, Check and ApplyAndRelaunch).              *)
(***************************************************************************)
THEOREM UpdateInstallsNewer == Spec => InstallsNewer
<1> DEFINE Newer == \A p \in Process : upd'[p] = "installed" /\ upd[p] # "installed" =>
                      exe' = rel[p] /\ rel[p] > version[p]
<1>1. IInv /\ [Next]_vars => [Newer]_vars
  <2> SUFFICES ASSUME IInv, Next, NEW p \in Process, upd'[p] = "installed", upd[p] # "installed"
               PROVE  exe' = rel[p] /\ rel[p] > version[p]
    BY DEF vars
  <2>1. PICK q \in Process :
          UserStarts(q) \/ Acquire(q) \/ Handle(q) \/ Shutdown(q) \/ Ends(q) \/ Update(q)
    BY DEF Next
  <2>2. upd' # upd
    OBVIOUS
  <2>3. ~(UserStarts(q) \/ Acquire(q) \/ Handle(q) \/ Shutdown(q) \/ Ends(q))
    BY <2>2 DEF UserStarts, Acquire, Binds, Forwards, ForwardFails, ForwardReturns, Handle,
       Answers, Notifies, Shutdown, Ends, updVars
  <2>4. Replaces(q) \/ Installs(q)
    BY <2>1, <2>3 DEF Update, Check, Download, MovesAside, RollsBack, Relaunches, IInv, Types
  <2>5. p = q /\ exe' = rel[p]
    BY <2>4 DEF Replaces, Installs, IInv, Types
  <2>6. upd[p] # "idle"
    BY <2>4, <2>5 DEF Replaces, Installs
  <2> QED BY <2>5, <2>6 DEF IInv, UpdatesForward
<1>2. Spec => [][Newer]_vars
  BY <1>1, Invariance, PTL DEF Spec
<1> QED BY <1>2 DEF InstallsNewer

-----------------------------------------------------------------------------
(***************************************************************************)
(* The lock.                                                               *)
(***************************************************************************)

(* Who runs without the port has asked its owner, which was another one.   *)
AskedFirst(p) == peer[p] # {} /\ p \notin peer[p] /\ handler[p] # "none"

LockOrAsked ==
  single => \A p \in Process : pc[p] = "running" /\ p \notin port => AskedFirst(p)

LockInv ==
  /\ LockOrAsked
  /\ \A p \in port : pc[p] = "running"
  /\ \A p \in Process : pc[p] = "forwarding" => AskedFirst(p)

LEMMA LockStep == IInv /\ LockInv /\ [Next]_vars => LockInv'
<1> SUFFICES ASSUME IInv, LockInv, [Next]_vars PROVE LockInv'
  OBVIOUS
<1> USE DEF IInv, Types, LockInv, LockOrAsked, AskedFirst, cfgVars, netVars, imgVars, diskVars, updVars
<1>1. CASE UNCHANGED vars
  BY <1>1 DEF vars
<1>2. ASSUME NEW p \in Process, Starts(p) PROVE LockInv'
  BY <1>2 DEF Starts
<1>3. ASSUME NEW p \in Process, Acquire(p) PROVE LockInv'
  <2>1. CASE Binds(p)
    BY <2>1 DEF Binds
  <2>2. CASE Forwards(p)
    BY <2>2 DEF Forwards
  <2>3. CASE ForwardFails(p) \/ ForwardReturns(p)
    BY <2>3 DEF ForwardFails, ForwardReturns
  <2> QED BY <1>3, <2>1, <2>2, <2>3 DEF Acquire
<1>4. ASSUME NEW s \in Process, Handle(s) PROVE LockInv'
  BY <1>4 DEF Handle, Answers, Notifies
<1>5. ASSUME NEW p \in Process, Shutdown(p) \/ Ends(p) PROVE LockInv'
  BY <1>5 DEF Shutdown, Ends
<1>6. ASSUME NEW p \in Process, Update(p), \A q \in Process : ~Starts(q) PROVE LockInv'
  <2>1. UNCHANGED <<single, pc, port, peer, handler>>
    BY <1>6 DEF Update, Check, Download, Replaces, MovesAside, Installs, RollsBack, Relaunches
  <2> QED BY <2>1
<1> QED BY <1>1, <1>2, <1>3, <1>4, <1>5, <1>6 DEF Next, UserStarts

(***************************************************************************)
(* With SingleInstance, a process runs without the lock only after it has  *)
(* connected to another process that held it, and got no answer: however   *)
(* launches and exits interleave, no process runs without having asked     *)
(* (singleinstance.go, Acquire; app.go, Run).                              *)
(***************************************************************************)
THEOREM NobodyRunsUnasked == Spec => []LockOrAsked
<1>1. Init => IInv /\ LockInv
  BY InitIInv DEF Init, LockInv, LockOrAsked
<1>2. IInv /\ LockInv /\ [Next]_vars => IInv' /\ LockInv'
  BY StepIInv, LockStep
<1>3. Spec => []LockInv
  BY <1>1, <1>2, PTL DEF Spec
<1>4. LockInv => LockOrAsked
  BY DEF LockInv
<1> QED BY <1>3, <1>4, PTL

(***************************************************************************)
(* The replacement of the executable on Windows.                           *)
(***************************************************************************)

(* Other applications on the port update nothing.                          *)
ForeignIdle == \A p \in Foreign : upd[p] = "idle"

LEMMA ForeignInvariance == Spec => []ForeignIdle
<1>1. Init => ForeignIdle
  BY LaunchAssumption DEF Init, ForeignIdle
<1>2. IInv /\ ForeignIdle /\ [Next]_vars => ForeignIdle'
  BY LaunchAssumption DEF IInv, Types, ForeignIdle, vars, updVars, Next, UserStarts, Acquire, Binds,
     Forwards, ForwardFails, ForwardReturns, Handle, Answers, Notifies, Shutdown, Ends, Update,
     Updates, Check, Download, Replaces, MovesAside, Installs, RollsBack, Relaunches
<1> QED BY <1>1, <1>2, Invariance, PTL DEF Spec

LEMMA AsideInUse ==
  ASSUME IInv, NEW p \in Process, Updates(p), exe = 0
  PROVE  InUse("old") /\ windows
BY DEF IInv, Aside, ExecutableSurvives, InUse, Updates, Live

(* A missing executable returns only by the one that moved it.             *)
LEMMA MissingStep ==
  ASSUME IInv, Next, exe = 0
  PROVE  \/ UNCHANGED <<exe, old>>
         \/ \E p \in Process : Between(p) /\ ~Between(p)'
<1>1. PICK p \in Process :
        UserStarts(p) \/ Acquire(p) \/ Handle(p) \/ Shutdown(p) \/ Ends(p) \/ Update(p)
  BY DEF Next
<1> USE DEF cfgVars, netVars, imgVars, diskVars, updVars, IInv, Types
<1>2. CASE UserStarts(p) \/ Acquire(p) \/ Handle(p) \/ Shutdown(p) \/ Ends(p)
  BY <1>2 DEF UserStarts, Starts, Acquire, Binds, Forwards, ForwardFails, ForwardReturns,
     Handle, Answers, Notifies, Shutdown, Ends
<1>3. CASE Check(p) \/ Download(p) \/ Replaces(p)
  BY <1>3, AsideInUse DEF Check, Download, Replaces
<1>4. CASE Relaunches(p)
  BY <1>4 DEF Relaunches, Starts
<1>5. CASE MovesAside(p)
  BY <1>5, AsideInUse DEF MovesAside
<1>6. CASE Installs(p)
  <2>1. Between(p)
    BY <1>6 DEF Installs, Updates, Between
  <2>2. CASE exe' = rel[p] /\ upd' = [upd EXCEPT ![p] = "installed"]
    BY <2>1, <2>2 DEF Between
  <2>3. CASE UNCHANGED exe
    BY <1>6, <2>3 DEF Installs
  <2> QED BY <1>6, <2>2, <2>3 DEF Installs
<1>7. CASE RollsBack(p)
  <2>1. Between(p)
    BY <1>7 DEF RollsBack, Updates, Between
  <2>2. ~Between(p)'
    BY <1>7 DEF RollsBack, Between, UpdState
  <2> QED BY <2>1, <2>2
<1> QED BY <1>1, <1>2, <1>3, <1>4, <1>5, <1>6, <1>7 DEF Update

(* Both names stay as they are until the process between its two renames   *)
(* moves on.                                                               *)
ReplacesAlone ==
  \A p \in Process : Between(p) /\ Between(p)' => UNCHANGED <<exe, old>>

(***************************************************************************)
(* While a process is between the two renames of ApplyAndRelaunch, no      *)
(* other - launched, updating, exiting or killed - touches the executable  *)
(* or its .old file: what its rollback puts back is the version it moved   *)
(* aside (updater.go, ApplyAndRelaunch).                                   *)
(***************************************************************************)
THEOREM NobodyDisturbsReplacement == Spec => [][ReplacesAlone]_vars
<1>1. IInv /\ [Next]_vars => [ReplacesAlone]_vars
  <2> SUFFICES ASSUME IInv, Next, NEW p \in Process, Between(p), Between(p)'
               PROVE  UNCHANGED <<exe, old>>
    BY DEF ReplacesAlone
  <2>1. exe = 0 /\ \A q \in Process : Between(q) => q = p
    BY DEF IInv, Aside
  <2> QED BY <2>1, MissingStep
<1> QED BY <1>1, Invariance, PTL DEF Spec

(* Nothing on disk to start, and nobody who could put it back.             *)
Stranded == exe = 0 /\ \A p \in Process : ~Between(p)

StrandedStays ==
  Stranded => /\ Stranded' /\ UNCHANGED <<exe, old>>
              /\ \A p \in Process \ Foreign : pc[p] = "none" => pc'[p] = "none"

(***************************************************************************)
(* A replacement that was cut short, by the end of its process or because  *)
(* the rollback failed too, is never repaired: the previous version stays  *)
(* under its .old name, no launch starts any more, and no process that     *)
(* still runs can install a release (updater.go, ApplyAndRelaunch). A      *)
(* process that is shutting down meanwhile is not cut short: its update    *)
(* goes on until the process ends.                                         *)
(***************************************************************************)
THEOREM CutShortIsForEver == Spec => [][StrandedStays]_vars
<1>1. IInv /\ ForeignIdle /\ [Next]_vars => [StrandedStays]_vars
  <2> SUFFICES ASSUME IInv, ForeignIdle, Next, Stranded
               PROVE  /\ Stranded' /\ UNCHANGED <<exe, old>>
                      /\ \A p \in Process \ Foreign : pc[p] = "none" => pc'[p] = "none"
    BY DEF StrandedStays
  <2>1. UNCHANGED <<exe, old>>
    BY MissingStep DEF Stranded
  <2>2. PICK p \in Process :
          UserStarts(p) \/ Acquire(p) \/ Handle(p) \/ Shutdown(p) \/ Ends(p) \/ Update(p)
    BY DEF Next
  <2>3. \A q \in Process : Starts(q) => q \in Foreign
    BY DEF Starts, Stranded
  <2> USE DEF cfgVars, netVars, imgVars, diskVars, updVars, IInv, Types
  <2>4. CASE UserStarts(p)
    <3>1. p \in Foreign /\ upd[p] = "idle" /\ UNCHANGED upd
      BY <2>3, <2>4 DEF UserStarts, ForeignIdle
    <3>2. \A q \in Process : q # p => pc'[q] = pc[q]
      BY <2>4 DEF UserStarts, Starts
    <3> QED BY <2>1, <3>1, <3>2 DEF Stranded, Between
  <2>5. CASE Acquire(p)
    <3>1. UNCHANGED upd /\ \A q \in Process : pc'[q] # pc[q] =>
            q = p /\ pc[p] \in {"acquire", "forwarding"}
      BY <2>5 DEF Acquire, Binds, Forwards, ForwardFails, ForwardReturns
    <3>2. \A q \in Process : Between(q)' => Between(q)
      BY <3>1 DEF Between, UpdatesForward
    <3> QED BY <2>1, <3>1, <3>2 DEF Stranded
  <2>6. CASE Handle(p)
    <3>1. UNCHANGED <<pc, upd>>
      BY <2>6 DEF Handle, Answers, Notifies
    <3> QED BY <2>1, <3>1 DEF Stranded, Between
  <2>10. CASE Shutdown(p) \/ Ends(p)
    <3>1. UNCHANGED upd /\ \A q \in Process : pc'[q] # pc[q] =>
            /\ pc[q] # "none"
            /\ pc'[q] = "ended" \/ (pc'[q] = "closing" /\ pc[q] = "running")
      BY <2>10 DEF Shutdown, Ends, Live
    <3>2. \A q \in Process : Between(q)' => Between(q)
      BY <3>1 DEF Between
    <3> QED BY <2>1, <3>1, <3>2 DEF Stranded
  <2>7. CASE Check(p) \/ Download(p) \/ Replaces(p) \/ Installs(p) \/ RollsBack(p)
    BY <2>1, <2>7 DEF Check, Download, Replaces, Installs, RollsBack, Updates, Stranded, Between,
       UpdState
  <2>8. CASE MovesAside(p)
    BY <2>1, <2>8 DEF MovesAside, Updates, Stranded, Between, UpdState
  <2>9. CASE Relaunches(p)
    <3>1. CASE upd' = [upd EXCEPT ![p] = "idle"] /\ UNCHANGED pc
      BY <2>1, <3>1 DEF Stranded, Between
    <3>2. ASSUME NEW q \in Process \ Foreign, Starts(q) PROVE FALSE
      BY <2>3, <3>2
    <3> QED BY <2>9, <3>1, <3>2 DEF Relaunches
  <2> QED BY <2>2, <2>4, <2>5, <2>6, <2>7, <2>8, <2>9, <2>10 DEF Update
<1> QED BY <1>1, Invariance, ForeignInvariance, PTL DEF Spec
=============================================================================

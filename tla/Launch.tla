------------------------------- MODULE Launch -------------------------------
(***************************************************************************)
(* The processes of an application across launches and updates: the single *)
(* instance lock (runtime/singleinstance), taken by App.Run before the     *)
(* server starts and released by shutdown (app.go), and the updater        *)
(* (runtime/updater, reached through goleo:updaterApply), which replaces   *)
(* the executable and relaunches it. Processes start, are terminated by    *)
(* the user or the system at any point, and share a loopback port and the  *)
(* executable on disk.                                                     *)
(*                                                                         *)
(* The loopback port and TCP, the file system's renames and the signature  *)
(* scheme are external: the port has one listener, is free when its        *)
(* process ends, and a connection is refused or broken when its listener   *)
(* is gone; a rename happens or fails as a whole; Windows does not replace *)
(* the file that a process runs.                                           *)
(***************************************************************************)
EXTENDS Naturals, FiniteSets

CONSTANTS
  Process,     \* launches of the application
  Foreign,     \* those of Process that run another application on the same port
  MaxVersion   \* bound of the model: the last version ever published

ASSUME LaunchAssumption == Foreign \subseteq Process /\ MaxVersion \in Nat \ {0}

VARIABLES
  single,      \* Config.SingleInstance
  windows,     \* runtime.GOOS = "windows"
  pc,          \* where a process is
  port,        \* the process that listens on the port: {} or one
  peer,        \* the process a launch is connected to: {} or one
  handler,     \* where the primary's goroutine for that connection is
  notified,    \* launches whose arguments a primary has been given
  version,     \* version of the executable a process runs
  image,       \* the file it runs, "exe" or "old"
  upd,         \* where its goleo:updaterApply is
  rel,         \* the version it is installing
  exe,         \* version of the executable on disk, 0 for none
  old          \* version of the .old file beside it, 0 for none

netVars  == <<port, peer, handler, notified>>
imgVars  == <<version, image>>
diskVars == <<exe, old>>
updVars  == <<upd, rel>>
vars == <<single, windows, pc, netVars, imgVars, diskVars, updVars>>
cfgVars == <<single, windows>>

Version == 1 .. MaxVersion
Live(p) == pc[p] \notin {"none", "ended"}

Init ==
  /\ single \in BOOLEAN /\ windows \in BOOLEAN
  /\ pc = [p \in Process |-> "none"]
  /\ port = {} /\ peer = [p \in Process |-> {}]
  /\ handler = [p \in Process |-> "none"] /\ notified = {}
  /\ version = [p \in Process |-> 0] /\ image = [p \in Process |-> "exe"]
  /\ upd = [p \in Process |-> "idle"] /\ rel = [p \in Process |-> 0]
  /\ exe = 1 /\ old = 0

(***************************************************************************)
(* Launches, and singleinstance.Acquire.                                   *)
(***************************************************************************)

\* The executable on disk is started; App.Run looks for another instance.
Starts(p) ==
  /\ pc[p] = "none" /\ (p \in Foreign \/ exe # 0)
  /\ pc' = [pc EXCEPT ![p] = IF single \/ p \in Foreign THEN "acquire" ELSE "running"]
  /\ version' = [version EXCEPT ![p] = IF p \in Foreign THEN 0 ELSE exe]
  /\ image' = [image EXCEPT ![p] = "exe"]
  /\ UNCHANGED <<cfgVars, netVars, diskVars>>

UserStarts(p) == Starts(p) /\ UNCHANGED updVars

Binds_shared(p) ==
  /\ pc[p] = "acquire"
  /\ port' = port \cup {p}
  /\ pc' = [pc EXCEPT ![p] = "running"]
  /\ UNCHANGED <<cfgVars, peer, handler, notified, imgVars, diskVars, updVars>>

\* net.Listen succeeds: p is the primary.
Binds(p) ==
  /\ pc[p] = "acquire" /\ port = {}
  /\ port' = {p}
  /\ pc' = [pc EXCEPT ![p] = "running"]
  /\ UNCHANGED <<cfgVars, peer, handler, notified, imgVars, diskVars, updVars>>

\* net.Listen fails, forward dials and sends the arguments.
Forwards(p) ==
  /\ pc[p] = "acquire" /\ port # {}
  /\ pc' = [pc EXCEPT ![p] = "forwarding"]
  /\ peer' = [peer EXCEPT ![p] = port]
  /\ handler' = [handler EXCEPT ![p] = "begin"]
  /\ UNCHANGED <<cfgVars, port, notified, imgVars, diskVars, updVars>>

\* The dial was refused, the connection broke, or 3 s passed without an answer:
\* Acquire returns an error and Run goes on without the lock.
ForwardFails_never(p) ==
  /\ pc[p] = "forwarding" /\ handler[p] = "refused"
  /\ pc' = [pc EXCEPT ![p] = "running"]
  /\ UNCHANGED <<cfgVars, netVars, imgVars, diskVars, updVars>>

ForwardFails(p) ==
  /\ pc[p] = "forwarding"
  /\ pc' = [pc EXCEPT ![p] = "running"]
  /\ UNCHANGED <<cfgVars, netVars, imgVars, diskVars, updVars>>

\* The answer "ok" arrives: p was forwarded, and Run returns.
ForwardReturns(p) ==
  /\ pc[p] = "forwarding" /\ handler[p] \in {"acked", "done"}
  /\ pc' = [pc EXCEPT ![p] = "forwarded"]
  /\ UNCHANGED <<cfgVars, netVars, imgVars, diskVars, updVars>>

(***************************************************************************)
(* Instance.handle, on a goroutine of the process it was sent to.          *)
(***************************************************************************)

SameApp(p, q) == p \in Foreign <=> q \in Foreign

Answers_anyApp(s) ==
  /\ handler[s] = "begin" /\ \E p \in peer[s] : Live(p)
  /\ handler' = [handler EXCEPT ![s] = "acked"]
  /\ UNCHANGED <<cfgVars, pc, port, peer, notified, imgVars, diskVars, updVars>>

\* It answers its own application's launches only; others get no "ok".
Answers(s) ==
  /\ handler[s] = "begin"
  /\ \E p \in peer[s] :
       /\ Live(p)
       /\ handler' = [handler EXCEPT ![s] = IF SameApp(p, s) THEN "acked" ELSE "refused"]
  /\ UNCHANGED <<cfgVars, pc, port, peer, notified, imgVars, diskVars, updVars>>

\* onSecondary: the application emits app:secondInstance and app:openURL.
Notifies(s) ==
  /\ handler[s] = "acked" /\ \E p \in peer[s] : Live(p)
  /\ handler' = [handler EXCEPT ![s] = "done"]
  /\ notified' = IF \E p \in peer[s] : SameApp(p, s) THEN notified \cup {s} ELSE notified
  /\ UNCHANGED <<cfgVars, pc, port, peer, imgVars, diskVars, updVars>>

(***************************************************************************)
(* The end of a process.                                                   *)
(***************************************************************************)

\* shutdown: instance.Close; the accept loop returns, connections in hand go on.
Shutdown(p) ==
  /\ pc[p] = "running"
  /\ pc' = [pc EXCEPT ![p] = "closing"]
  /\ port' = port \ {p}
  /\ UNCHANGED <<cfgVars, peer, handler, notified, imgVars, diskVars, updVars>>

\* The process ends: Run returned, os.Exit, or it is killed.
Ends(p) ==
  /\ Live(p)
  /\ pc' = [pc EXCEPT ![p] = "ended"]
  /\ port' = port \ {p}
  /\ UNCHANGED <<cfgVars, peer, handler, notified, imgVars, diskVars, updVars>>

(***************************************************************************)
(* goleo:updaterApply: Check, Download, ApplyAndRelaunch.                  *)
(***************************************************************************)

\* The invoke has a goroutine of its own, which goes on while shutdown emits,
\* stops the script runtime and waits in Server.Stop.
Updates(p) == pc[p] \in {"running", "closing"} /\ p \notin Foreign

Check_anyVersion(p) ==
  /\ Updates(p) /\ upd[p] = "idle"
  /\ \E v \in Version : rel' = [rel EXCEPT ![p] = v]
  /\ upd' = [upd EXCEPT ![p] = "checked"]
  /\ UNCHANGED <<cfgVars, pc, netVars, imgVars, diskVars>>

\* A manifest whose signature holds offers a version newer than p's own. Every
\* other manifest is an error or no update, and leaves all as it was.
Check(p) ==
  /\ Updates(p) /\ upd[p] = "idle"
  /\ \E v \in Version : v > version[p] /\ rel' = [rel EXCEPT ![p] = v]
  /\ upd' = [upd EXCEPT ![p] = "checked"]
  /\ UNCHANGED <<cfgVars, pc, netVars, imgVars, diskVars>>

\* The artifact is in a temporary file and its digest is the manifest's; or the
\* download fails, or the digest differs.
Download(p) ==
  /\ Updates(p) /\ upd[p] = "checked"
  /\ upd' = [upd EXCEPT ![p] = "downloaded"] \/ upd' = [upd EXCEPT ![p] = "idle"]
  /\ UNCHANGED <<cfgVars, pc, netVars, imgVars, diskVars, rel>>

\* Elsewhere than on Windows one rename replaces the executable; or it fails.
Replaces(p) ==
  /\ Updates(p) /\ ~windows /\ upd[p] = "downloaded"
  /\ \/ exe' = rel[p] /\ upd' = [upd EXCEPT ![p] = "installed"]
     \/ upd' = [upd EXCEPT ![p] = "idle"] /\ UNCHANGED exe
  /\ UNCHANGED <<cfgVars, pc, netVars, imgVars, old, rel>>

\* A process runs the file f.
InUse(f) == \E p \in Process \ Foreign : Live(p) /\ image[p] = f

Moved(from, to) == [p \in Process |-> IF image[p] = from THEN to ELSE image[p]]

\* On Windows, os.Remove(old), then exe is renamed to old; those who run it go on.
\* Either may fail; a failed Remove is ignored.
MovesAside(p) ==
  /\ Updates(p) /\ windows /\ upd[p] = "downloaded"
  /\ \/ /\ exe # 0 /\ ~InUse("old")
        /\ old' = exe /\ exe' = 0
        /\ image' = Moved("exe", "old")
        /\ upd' = [upd EXCEPT ![p] = "aside"]
     \/ /\ upd' = [upd EXCEPT ![p] = "idle"]
        /\ old' = IF InUse("old") THEN old ELSE 0
        /\ UNCHANGED <<exe, image>>
  /\ UNCHANGED <<cfgVars, pc, netVars, version, rel>>

\* The second rename, or its failure.
Installs(p) ==
  /\ Updates(p) /\ upd[p] = "aside"
  /\ \/ exe' = rel[p] /\ upd' = [upd EXCEPT ![p] = "installed"]
     \/ upd' = [upd EXCEPT ![p] = "failed"] /\ UNCHANGED exe
  /\ UNCHANGED <<cfgVars, pc, netVars, imgVars, old, rel>>

RollsBack_not(p) ==
  /\ Updates(p) /\ upd[p] = "failed"
  /\ upd' = [upd EXCEPT ![p] = "idle"]
  /\ UNCHANGED <<cfgVars, pc, netVars, imgVars, diskVars, rel>>

\* os.Rename(old, exe), "best-effort": it may fail too.
RollsBack(p) ==
  /\ Updates(p) /\ upd[p] = "failed"
  /\ \/ /\ exe' = old /\ old' = 0 /\ image' = Moved("old", "exe")
        /\ upd' = [upd EXCEPT ![p] = "idle"]
     \/ upd' = [upd EXCEPT ![p] = "stranded"] /\ UNCHANGED <<diskVars, image>>
  /\ UNCHANGED <<cfgVars, pc, netVars, version, rel>>

\* relaunch: cmd.Start runs a fresh copy, then os.Exit; or Start fails.
Relaunches(p) ==
  /\ Updates(p) /\ upd[p] = "installed"
  /\ \/ \E q \in Process \ Foreign :
          Starts(q) /\ upd' = [upd EXCEPT ![p] = "relaunched"]
     \/ /\ upd' = [upd EXCEPT ![p] = "idle"]
        /\ UNCHANGED <<cfgVars, pc, netVars, imgVars, diskVars>>
  /\ UNCHANGED rel

-----------------------------------------------------------------------------

Acquire(p) == Binds(p) \/ Forwards(p) \/ ForwardFails(p) \/ ForwardReturns(p)

Handle(s) == Answers(s) \/ Notifies(s)

Update(p) ==
  \/ Check(p) \/ Download(p) \/ Replaces(p) \/ MovesAside(p) \/ Installs(p)
  \/ RollsBack(p) \/ Relaunches(p)

Next ==
  \E p \in Process :
    UserStarts(p) \/ Acquire(p) \/ Handle(p) \/ Shutdown(p) \/ Ends(p) \/ Update(p)

Spec == Init /\ [][Next]_vars

\* Fairness: a process that looks for another instance goes on with it, since the
\* dial and the connection have deadlines.
FairSpec == Spec /\ \A p \in Process : WF_vars(Acquire(p))
-----------------------------------------------------------------------------
(***************************************************************************)
(* Properties.                                                             *)
(***************************************************************************)

TypeOK ==
  /\ single \in BOOLEAN /\ windows \in BOOLEAN
  /\ pc \in [Process -> {"none", "acquire", "forwarding", "forwarded", "running",
                         "closing", "ended"}]
  /\ port \subseteq Process /\ Cardinality(port) <= 1
  /\ peer \in [Process -> SUBSET Process]
  /\ handler \in [Process -> {"none", "begin", "refused", "acked", "done"}]
  /\ notified \subseteq Process
  /\ version \in [Process -> 0 .. MaxVersion] /\ image \in [Process -> {"exe", "old"}]
  /\ upd \in [Process -> {"idle", "checked", "downloaded", "aside", "failed", "stranded",
                          "installed", "relaunched"}]
  /\ rel \in [Process -> 0 .. MaxVersion]
  /\ exe \in 0 .. MaxVersion /\ old \in 0 .. MaxVersion

(***************************************************************************)
(* A launch that exits because it was forwarded has given its arguments to *)
(* its own application: the primary has them, or its handler is about to,  *)
(* unless that primary ended after its answer. Another application on the  *)
(* same port never swallows a launch (singleinstance.go, handle).          *)
(***************************************************************************)
ForwardedIsHeard ==
  \A s \in Process : pc[s] = "forwarded" =>
    /\ \A p \in peer[s] : SameApp(p, s)
    /\ \/ s \in notified
       \/ handler[s] = "acked"

(***************************************************************************)
(* An update installs nothing older than the process that applies it runs, *)
(* and nothing but what it checked: the executable changes to a newer      *)
(* release, or back when the installation failed. (With two updating       *)
(* processes the version on disk may still go down: each compares with the *)
(* version it runs.)                                                       *)
(***************************************************************************)
InstallsNewer ==
  [][\A p \in Process : upd'[p] = "installed" /\ upd[p] # "installed" =>
       exe' = rel[p] /\ rel[p] > version[p]]_vars

(***************************************************************************)
(* The executable is missing only in the middle of a replacement on        *)
(* Windows: between the two renames of a process, dead or alive, or when   *)
(* its rollback has failed as well; the previous version is then still     *)
(* there under its .old name. Elsewhere it is never missing.               *)
(***************************************************************************)
ExecutableSurvives ==
  exe = 0 => /\ windows /\ old # 0
             /\ \E p \in Process : upd[p] \in {"aside", "failed", "stranded"}

(***************************************************************************)
(* A launch, by the user or by relaunch, does not hang on another          *)
(* instance: it runs, or was forwarded, or was terminated.                 *)
(***************************************************************************)
LaunchSettles ==
  \A p \in Process : pc[p] = "acquire" ~> pc[p] \in {"running", "forwarded", "ended"}
=============================================================================

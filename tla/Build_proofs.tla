---------------------------- MODULE Build_proofs ----------------------------
(***************************************************************************)
(* Proofs about Build, for any number of commands and revisions, wherever  *)
(* the Android tools are at first: types, the clean-up after every         *)
(* command, the freshness of what a successful command delivered, the      *)
(* accumulation of releases.  Then what one command may change of          *)
(* another's results, and the update feed, which never goes back.          *)
(***************************************************************************)
EXTENDS Build, TLAPS

(* Which target a step belongs to.                                         *)
StepsOfTarget ==
    /\ pc \in {"idle", "generate", "frontend", "embed", "jdk", "gomobile", "sdk", "ndk", "adb",
              "emulator", "snapshot", "resolve", "tidy", "vendor", "gobind", "wipe", "bind",
              "native", "compile", "resource", "bundle", "publish", "sign", "deliver", "unwind"}
    /\ pc \in {"vendor", "resource", "bundle", "publish", "sign"} => T \in Desktop
    /\ pc \in {"snapshot", "wipe", "gobind", "bind", "native"} => T \in Mobile
    /\ pc \in {"jdk", "gomobile", "sdk", "ndk", "adb", "emulator"} => T = "android"
    /\ pc \in {"generate", "embed", "resolve", "tidy", "compile"} => T # "pwa"
    /\ pc = "deliver" => T \notin Desktop
    /\ run.bundle \in Bundles(T) /\ (run.publish => T \in Desktop)

(* A mobile build saves go.mod before it changes it, and holds what it     *)
(* saved until it returns.                                                 *)
SavedFirst ==
    T \in Mobile =>
        /\ pc \in {"generate", "frontend", "jdk", "gomobile", "sdk", "ndk", "adb", "emulator",
                  "snapshot"} =>
              saved = NoSave /\ mod = before
        /\ pc \in {"resolve", "tidy", "embed", "wipe", "gobind", "bind", "native", "compile",
                   "deliver"} => saved = before
        /\ pc = "unwind" => saved = before \/ (saved = NoSave /\ mod = before)

ModRestored == Idle /\ T \in Mobile /\ result \in {"ok", "err"} => mod = before

(* A resource there is will be removed by this command, or was left for    *)
(* good.                                                                   *)
Accounted == (syso => wrote \/ spoiled) /\ (Idle => ~wrote)

(* The frontend of the command, on its way into the artifact.              *)
Carried ==
    /\ src # 0
    /\ ~Idle => fresh # 0 /\ fresh <= src
    /\ pc \notin {"idle", "unwind", "generate", "frontend"} => fresh <= dist /\ dist <= src
    /\ T \in Desktop =>
        /\ pc \in {"resource", "resolve", "tidy", "vendor", "compile"} => embed["desktop"] = dist
        /\ pc \in {"bundle", "publish", "sign"} => out[Output(run)].ui = dist
        /\ pc \in {"publish", "sign"} =>
              /\ \A i \in run.bundle \ {"dmg"} : out[i].ui = dist
              /\ "nsis" \in run.bundle /\ run.sign => out[Output(run)].signed
        /\ pc = "sign" => staged[T] = out[Output(run)]
    /\ T \in Mobile =>
        /\ pc \in {"wipe", "gobind", "bind"} => embed["mobile"] = dist
        /\ pc \in {"native", "compile"} => lib[T] = dist

(* Gradle's artifacts: each is the command's own, or outlived its wipe.    *)
OwnOrOutlived ==
    T = "android" /\ pc \in {"gobind", "bind", "native", "compile", "deliver"} =>
        \A a \in Artifact : apk[a] = Nothing \/ a \in survived \/ apk[a].ui = dist

NamedSigned == apk["release.apk"] # Nothing => apk["release.apk"].signed

(* What a command that says "ok" has done.                                 *)
Delivered ==
    result = "ok" =>
        /\ pc \in {"idle", "unwind"}
        /\ dist >= fresh
        /\ T # "ios" /\ ~Outlived => out[Output(run)].ui = dist
        /\ \A i \in run.bundle \ {"dmg"} : out[i].ui = dist
        /\ T = "android" /\ Signs /\ run.format = "apk" => out[Output(run)].signed
        /\ "nsis" \in run.bundle /\ run.sign => out[Output(run)].signed
        /\ run.publish =>
              manifest # Torn /\ manifest[T] = staged[T] /\ staged[T] = out[Output(run)]

(* The manifest is what was published, and that is never the torn one.     *)
Accumulated ==
    /\ ~torn => manifest = published
    /\ \A p \in Desktop : published[p] # Garbage

IInv == /\ TypeOK /\ StepsOfTarget /\ SavedFirst /\ ModRestored /\ Accounted
        /\ Carried /\ OwnOrOutlived /\ NamedSigned /\ Delivered /\ Accumulated

-----------------------------------------------------------------------------

(* The deliverables and the manifest are functions over records, which the *)
(* provers follow best one place at a time.                                *)
LEMMA Constants ==
    /\ Nothing \in File /\ Garbage \in File /\ Nothing # Garbage
    /\ NoSave \notin Mod /\ 0 \in Rev
    /\ \A p \in Desktop : Torn[p] = Garbage
    /\ Torn \in [Desktop -> File]
BY BuildAssumption DEF Nothing, Garbage, File, NoSave, NoVendor, Mod, Rev, Torn

(* A tool is found or installed, or there is none.                         *)
ResolveTool(t) == Finds(t) \/ Installs(t) \/ (t = "ndk" /\ NoNDK)

LEMMA ToolSteps ==
    Tools => \/ \E t \in Tool : ResolveTool(t)
             \/ \E s \in {"gomobile", "adb", "emulator"} : ResolveOther(s)
BY DEF Tools, ResolveJava, InstallJava, ResolveSDK, InstallSDK, ResolveNDK, ResolveGomobile,
   ResolveAdb, ResolveEmulator, ResolveTool, Tool

(* A step of the tools goes to the next one and changes nothing else.      *)
LEMMA ToolMoves ==
    Tools => /\ pc \in {"jdk", "gomobile", "sdk", "ndk", "adb", "emulator"} /\ pc' = After(pc)
             /\ UNCHANGED <<run, result, runs, web, gomod, winres, lib, gradle, out, feed>>
<1>1. ASSUME NEW t \in Tool, ResolveTool(t)
      PROVE  /\ pc = t /\ pc' = After(t)
             /\ UNCHANGED <<run, result, runs, web, gomod, winres, lib, gradle, out, feed>>
  BY <1>1 DEF ResolveTool, Finds, Installs, NoNDK, Resolves, Goto, At
<1>2. ASSUME NEW t \in {"gomobile", "adb", "emulator"}, ResolveOther(t)
      PROVE  /\ pc = t /\ pc' = After(t)
             /\ UNCHANGED <<run, result, runs, web, gomod, winres, lib, gradle, out, feed>>
  BY <1>2 DEF ResolveOther, Goto, At, android
<1> QED BY <1>1, <1>2, ToolSteps DEF Tool

LEMMA OutputIsFile ==
    ASSUME TypeOK
    PROVE  /\ Output(run) \in OutFile /\ Output(run) \notin Installer
           /\ (T = "windows" => Output(run) = "app.exe")
BY DEF TypeOK, Request, Output, OutFile, Installer, Target, Desktop, Mobile, T

(* What runBundle may have made, and that a command without --bundle makes *)
(* nothing.                                                                *)
LEMMA BundleMakes ==
    ASSUME TypeOK, StepsOfTarget, Bundle
    PROVE  \/ run.bundle = {} /\ out' = out
           \/ \E made \in {run.bundle, run.bundle \ {"dmg"}} : out' = Bundled(made)
<1>1. T = "darwin" => run.bundle \ {"dmg"} = {}
  BY DEF StepsOfTarget, Bundles
<1> QED BY <1>1 DEF Bundle, BundleWindows, BundleDarwin, BundleLinux

LEMMA BundledType ==
    ASSUME TypeOK, NEW made \in SUBSET run.bundle
    PROVE  Bundled(made) \in [OutFile \union Installer -> File]
<1> DEFINE o == IF "nsis" \in run.bundle
                THEN [out EXCEPT !["app.exe"].signed = run.sign] ELSE out
<1>1. run.sign \in BOOLEAN /\ run.bundle \subseteq Installer /\ Output(run) \in OutFile
  BY OutputIsFile DEF TypeOK, Request
<1>2. \A p \in OutFile \union Installer : out[p] \in File /\ out[p].ui \in Rev
  BY DEF TypeOK, File
<1>3. [out EXCEPT !["app.exe"].signed = run.sign] \in [OutFile \union Installer -> File]
  BY <1>1, <1>2 DEF TypeOK, File, OutFile
<1>4. o \in [OutFile \union Installer -> File]
  BY <1>3 DEF TypeOK
<1>5. \A p \in OutFile \union Installer :
        [ui |-> out[Output(run)].ui, signed |-> run.sign /\ p # "deb"] \in File
  BY <1>1, <1>2 DEF File
<1>6. \A p \in OutFile \union Installer : o[p] \in File
  BY <1>4
<1> HIDE DEF o
<1>7. Bundled(made) = [p \in OutFile \union Installer |->
                   IF p \in made
                   THEN [ui |-> out[Output(run)].ui, signed |-> run.sign /\ p # "deb"] ELSE o[p]]
  BY DEF Bundled, o, TypeOK
<1> QED BY <1>5, <1>6, <1>7

LEMMA InitIInv == Init => IInv
<1> SUFFICES ASSUME Init PROVE IInv
  OBVIOUS
<1> USE Constants, BuildAssumption
<1>1. TypeOK
  <2>1. run \in Request /\ result \in Result
    BY DEF Init, Request, Target, Installer, Result
  <2>2. mod \in Mod /\ vendor \in Mod \union {NoVendor} /\ before \in Mod
    <3>1. [pin |-> "own", tool |-> FALSE] \in Mod
      BY DEF Mod
    <3> QED BY <3>1 DEF Init
  <2>3. tools \in [Tool -> Place]
    BY DEF Init
  <2>4. src \in Rev /\ dist \in Rev /\ fresh \in Rev /\ runs \in 0 .. MaxRuns
    BY DEF Init, Rev
  <2>5. apk \in [Artifact -> File] /\ survived \subseteq Artifact
    BY DEF Init
  <2> QED BY <2>1, <2>2, <2>3, <2>4, <2>5 DEF Init, TypeOK
<1>2. StepsOfTarget
  BY DEF Init, StepsOfTarget, T, Bundles
<1>3. SavedFirst /\ ModRestored /\ Accounted /\ Carried
  BY DEF Init, SavedFirst, ModRestored, Accounted, Carried, T, Mobile, Desktop, Idle
<1>4. Delivered
  BY DEF Init, Delivered
<1>5. OwnOrOutlived /\ NamedSigned /\ Accumulated
  BY DEF Init, OwnOrOutlived, NamedSigned, Accumulated, T, Artifact
<1> QED BY <1>1, <1>2, <1>3, <1>4, <1>5 DEF IInv

(***************************************************************************)
(* Types.                                                                  *)
(***************************************************************************)
LEMMA WipedType ==
    ASSUME TypeOK, WipeAndroid
    PROVE  /\ tools' \in [Tool -> Place] /\ apk' \in [Artifact -> File]
           /\ survived' \subseteq Artifact
BY Constants DEF TypeOK, WipeAndroid, Place

LEMMA PackagedType ==
    ASSUME TypeOK, Packages
    PROVE  apk' \in [Artifact -> File] /\ survived' \subseteq Artifact
<1>1. Signs \in BOOLEAN /\ lib["android"] \in Rev
  BY DEF Signs, TypeOK, Request, Mobile
<1>2. \A b \in BOOLEAN : [ui |-> lib["android"], signed |-> b] \in File
  BY <1>1 DEF File
<1>3. PICK a \in Candidates, b \in {Signs, FALSE} :
         /\ apk' = [apk EXCEPT ![a] = [ui |-> lib["android"], signed |-> b]]
         /\ survived' = survived \ {a}
  BY DEF Packages
<1> QED BY <1>1, <1>2, <1>3 DEF TypeOK

LEMMA BuildsType ==
    ASSUME TypeOK, Builds
    PROVE  out' \in [OutFile \union Installer -> File]
<1>1. [ui |-> lib["ios"], signed |-> FALSE] \in File
  BY DEF TypeOK, File, Mobile
<1> QED BY <1>1 DEF TypeOK, Builds

LEMMA DamageType ==
    ASSUME TypeOK, Damage
    PROVE  /\ dist' \in Rev /\ embed' \in [{"desktop", "mobile"} -> Rev] /\ mod' \in Mod
           /\ out' \in [OutFile \union Installer -> File] /\ staged' \in [Desktop -> File]
           /\ manifest' \in [Desktop -> File] \union {Torn} /\ torn' \in BOOLEAN
           /\ tools' \in [Tool -> Place] /\ apk' \in [Artifact -> File]
           /\ survived' \subseteq Artifact
           /\ UNCHANGED <<src, fresh, vendor, before, lib, published>>
<1> USE Constants
<1>1. dist' \in Rev /\ embed' \in [{"desktop", "mobile"} -> Rev]
  BY DEF Damage, TypeOK
<1>2. mod' \in Mod
  BY DEF Damage, TypeOK, Mod
<1>3. out' \in [OutFile \union Installer -> File]
  <2>1. CASE out' = out \/ out' = [out EXCEPT ![Output(run)] = Nothing]
    BY <2>1 DEF TypeOK
  <2>2. CASE Builds
    BY <2>2, BuildsType
  <2>3. ASSUME NEW made \in SUBSET run.bundle, NEW lost \in SUBSET run.bundle,
               out' = HalfBundled(made, lost)
        PROVE  out' \in [OutFile \union Installer -> File]
    <3>1. Bundled(made) \in [OutFile \union Installer -> File]
      BY BundledType
    <3> QED BY <2>3, <3>1 DEF HalfBundled, TypeOK
  <2> QED BY <2>1, <2>2, <2>3 DEF Damage
<1>4. staged' \in [Desktop -> File] /\ manifest' \in [Desktop -> File] \union {Torn}
  BY DEF Damage, TypeOK
<1>5. /\ tools' \in [Tool -> Place] /\ apk' \in [Artifact -> File]
      /\ survived' \subseteq Artifact
  BY WipedType, PackagedType DEF Damage, AndroidCutShort, gradle, TypeOK
<1> QED BY <1>1, <1>2, <1>3, <1>4, <1>5 DEF Damage, TypeOK

LEMMA TypeStep == TypeOK /\ StepsOfTarget /\ [Next]_vars => TypeOK'
<1> SUFFICES ASSUME TypeOK, StepsOfTarget, [Next]_vars PROVE TypeOK'
  OBVIOUS
<1> USE Constants, BuildAssumption
<1> USE DEF TypeOK, Goto, At, Idle, T, cmd, web, gomod, winres, gradle, android, feed
<1>1. CASE UNCHANGED vars
  BY <1>1 DEF vars
<1>2. CASE Prepare
  <2>1. CASE Edit
    BY <2>1 DEF Edit, Rev
  <2>2. ASSUME NEW r \in Accepted, Begin(r) PROVE TypeOK'
    <3>1. run' \in Request /\ result' \in Result
      BY <2>2 DEF Begin, Accepted, Result
    <3>2. runs' \in 0 .. MaxRuns
      BY <2>2 DEF Begin
    <3>3. saved' = NoSave
      BY <2>2 DEF Begin
    <3> QED BY <2>2, <3>1, <3>2, <3>3 DEF Begin
  <2>3. CASE Generate
    BY <2>3 DEF Generate
  <2>4. CASE Frontend
    BY <2>4 DEF Frontend
  <2>5. CASE Embed
    BY <2>5 DEF Embed
  <2> QED BY <1>2, <2>1, <2>2, <2>3, <2>4, <2>5 DEF Prepare
<1>3. CASE Tools
  <2>1. ASSUME NEW t \in Tool, ResolveTool(t) PROVE TypeOK'
    <3>1. InstallPlace(t) \in Place
      BY DEF InstallPlace, Place, Tool
    <3>2. tools' \in [Tool -> Place]
      BY <2>1, <3>1 DEF ResolveTool, Finds, Installs, NoNDK
    <3>3. pc = t /\ pc' = After(t)
          /\ UNCHANGED <<run, result, runs, web, gomod, winres, lib, gradle, out, feed>>
      BY <2>1 DEF ResolveTool, Finds, Installs, NoNDK, Resolves
    <3>4. pc' # "idle"
      BY <3>3 DEF After, Tool
    <3> QED BY <3>2, <3>3, <3>4
  <2>2. ASSUME NEW s \in {"gomobile", "adb", "emulator"}, ResolveOther(s) PROVE TypeOK'
    BY <2>2 DEF ResolveOther, After
  <2> QED BY <1>3, <2>1, <2>2, ToolSteps
<1>4. CASE Modules
  <2>1. CASE Snapshot
    BY <2>1 DEF Snapshot, StepsOfTarget
  <2>2. CASE Resolve
    BY <2>2 DEF Resolve, Resolved, Mod
  <2>3. CASE Tidy
    BY <2>3 DEF Tidy
  <2>4. CASE KeepVendorInSync
    BY <2>4 DEF KeepVendorInSync
  <2>5. CASE AddTool
    <3>1. mod' \in Mod
      BY <2>5 DEF AddTool, Mod
    <3> QED BY <2>5, <3>1 DEF AddTool
  <2> QED BY <1>4, <2>1, <2>2, <2>3, <2>4, <2>5 DEF Modules
<1>5. CASE MobileSteps
  <2>1. CASE Wipe
    BY <2>1, WipedType DEF Wipe, WipeIOS
  <2>2. CASE Bind
    BY <2>2 DEF Bind, BindAndroid, BindIOS
  <2>3. CASE NativeProject
    BY <2>3 DEF NativeProject
  <2>4. CASE Gradle
    BY <2>4, PackagedType DEF Gradle
  <2>5. CASE DeliverAndroid
    <3>1. lib' \in [Mobile -> Rev]
      BY <2>5 DEF DeliverAndroid
    <3>2. out' \in [OutFile \union Installer -> File]
      BY <2>5 DEF DeliverAndroid
    <3> QED BY <2>5, <3>1, <3>2 DEF DeliverAndroid, Result
  <2>6. CASE Xcodebuild
    BY <2>6, BuildsType DEF Xcodebuild
  <2>7. CASE DeliverIOS
    BY <2>7 DEF DeliverIOS, Result
  <2> QED BY <1>5, <2>1, <2>2, <2>3, <2>4, <2>5, <2>6, <2>7 DEF MobileSteps
<1>6. CASE DeliverPWA
  <2>1. [ui |-> dist, signed |-> FALSE] \in File
    BY DEF File
  <2>2. out' \in [OutFile \union Installer -> File]
    BY <1>6, <2>1 DEF DeliverPWA
  <2> QED BY <1>6, <2>2 DEF DeliverPWA, Result
<1>7. CASE DesktopSteps
  <2>1. CASE WindowsResource
    BY <2>1 DEF WindowsResource
  <2>2. CASE Compile
    <3>1. [ui |-> embed["desktop"], signed |-> FALSE] \in File
      BY DEF File
    <3>2. out' \in [OutFile \union Installer -> File]
      BY <2>2, <3>1 DEF Compile
    <3>3. syso' \in BOOLEAN /\ wrote' \in BOOLEAN /\ spoiled' \in BOOLEAN
      BY <2>2 DEF Compile, Cleanup
    <3> QED BY <2>2, <3>2, <3>3 DEF Compile
  <2>3. CASE Bundle
    <3>1. out' \in [OutFile \union Installer -> File]
      BY <2>3, BundleMakes, BundledType
    <3> QED BY <2>3, <3>1 DEF Bundle
  <2>4. CASE Stage
    BY <2>4, OutputIsFile DEF Stage
  <2>5. CASE SignManifest
    BY <2>5 DEF SignManifest, Merged, Existing, Result
  <2>6. CASE DesktopDone
    BY <2>6 DEF DesktopDone, Result
  <2> QED BY <1>7, <2>1, <2>2, <2>3, <2>4, <2>5, <2>6 DEF DesktopSteps
<1>8. CASE End
  <2>1. CASE StepFails
    BY <2>1, DamageType DEF StepFails, Fallible, BestEffort, Result
  <2>2. CASE Interrupt
    BY <2>2, DamageType DEF Interrupt, Result
  <2>3. CASE Unwind
    <3>1. syso' \in BOOLEAN /\ wrote' \in BOOLEAN /\ spoiled' \in BOOLEAN
      BY <2>3 DEF Unwind, Cleanup
    <3>2. mod' \in Mod /\ result' \in Result
      BY <2>3 DEF Unwind, Restored, Result
    <3> QED BY <2>3, <3>1, <3>2 DEF Unwind
  <2> QED BY <1>8, <2>1, <2>2, <2>3 DEF End
<1> QED BY <1>1, <1>2, <1>3, <1>4, <1>5, <1>6, <1>7, <1>8 DEF Next

(***************************************************************************)
(* Steps and targets.                                                      *)
(***************************************************************************)
LEMMA TargetStep == TypeOK /\ StepsOfTarget /\ [Next]_vars => StepsOfTarget'
<1> SUFFICES ASSUME TypeOK, StepsOfTarget, [Next]_vars PROVE StepsOfTarget'
  OBVIOUS
<1> USE DEF StepsOfTarget, Goto, At, Idle, T, cmd
<1>1. CASE UNCHANGED vars
  BY <1>1 DEF vars
<1>2. ASSUME NEW r \in Accepted, Begin(r) PROVE StepsOfTarget'
  BY <1>2 DEF Begin, Accepted
<1>3. CASE Edit \/ Generate \/ Embed \/ Frontend
  BY <1>3 DEF Edit, Generate, Embed, Frontend, Desktop, Mobile, Request, TypeOK, Target
<1>4. CASE Tools
  BY <1>4, ToolMoves DEF After, gomod, web, winres, feed, Mobile
<1>5. CASE Modules
  BY <1>5 DEF Modules, Snapshot, Resolve, Tidy, KeepVendorInSync, AddTool, Mobile, Desktop,
     TypeOK, Request, Target
<1>6. CASE MobileSteps
  BY <1>6 DEF MobileSteps, Wipe, WipeAndroid, WipeIOS, Bind, BindAndroid, BindIOS,
     NativeProject, Gradle, DeliverAndroid, Xcodebuild,
     DeliverIOS, Mobile, Desktop
<1>7. CASE DeliverPWA \/ DesktopSteps
  BY <1>7 DEF DeliverPWA, DesktopSteps, WindowsResource, Compile, Bundle, Stage, SignManifest,
     DesktopDone, Desktop
<1>8. CASE End
  BY <1>8 DEF End, StepFails, Interrupt, Unwind
<1> QED BY <1>1, <1>2, <1>3, <1>4, <1>5, <1>6, <1>7, <1>8 DEF Next, Prepare

(***************************************************************************)
(* go.mod and the resource.                                                *)
(***************************************************************************)
LEMMA RestoreStep ==
    TypeOK /\ StepsOfTarget /\ SavedFirst /\ ModRestored /\ [Next]_vars =>
        SavedFirst' /\ ModRestored'
<1> SUFFICES ASSUME TypeOK, StepsOfTarget, SavedFirst, ModRestored, [Next]_vars
             PROVE  SavedFirst' /\ ModRestored'
  OBVIOUS
<1> USE Constants
<1> USE DEF SavedFirst, ModRestored, Goto, At, Idle, T, cmd, gomod
<1>1. CASE UNCHANGED vars
  BY <1>1 DEF vars
<1>2. ASSUME NEW r \in Accepted, Begin(r) PROVE SavedFirst' /\ ModRestored'
  BY <1>2 DEF Begin, Accepted, TypeOK
<1>3. CASE Edit \/ Generate \/ Embed \/ Frontend
  BY <1>3 DEF Edit, Generate, Embed, Frontend, Desktop, Mobile
<1>4. CASE Tools
  BY <1>4, ToolMoves DEF After, gomod, web, winres, feed, Mobile
<1>5. CASE Modules
  BY <1>5 DEF Modules, Snapshot, Resolve, Tidy, KeepVendorInSync, AddTool, StepsOfTarget,
     TypeOK, Desktop, Mobile
<1>6. CASE MobileSteps
  <2>1. CASE Wipe \/ Bind \/ NativeProject
    BY <2>1 DEF Wipe, WipeAndroid, WipeIOS, Bind, BindAndroid, BindIOS, NativeProject
  <2>2. CASE Gradle \/ Xcodebuild
    BY <2>2 DEF Gradle, Xcodebuild
  <2>3. CASE DeliverAndroid \/ DeliverIOS
    <3>1. pc = "deliver" /\ pc' = "unwind" /\ UNCHANGED <<run, mod, saved, before>>
      BY <2>3 DEF DeliverAndroid, DeliverIOS
    <3> QED BY <3>1
  <2> QED BY <1>6, <2>1, <2>2, <2>3 DEF MobileSteps
<1>7. CASE DeliverPWA \/ DesktopSteps
  BY <1>7 DEF DeliverPWA, DesktopSteps, WindowsResource, Compile, Bundle, Stage, SignManifest,
     DesktopDone, StepsOfTarget, Desktop, Mobile, TypeOK
<1>8. CASE End
  <2>1. CASE StepFails
    <3>1. /\ pc' = "unwind" /\ UNCHANGED <<run, saved, before>>
          /\ pc \notin {"idle", "unwind"} /\ (pc # "resolve" => mod' = mod)
      BY <2>1 DEF StepFails, Fallible, BestEffort, Damage
    <3>2. T \in Mobile => pc \notin {"vendor", "resource", "bundle", "publish", "sign"}
      BY DEF StepsOfTarget, Mobile, Desktop
    <3>3. T \in Mobile => saved = before \/ (saved = NoSave /\ mod = before /\ pc # "resolve")
      BY <3>1, <3>2 DEF StepsOfTarget
    <3> QED BY <3>1, <3>3
  <2>2. CASE Interrupt
    BY <2>2 DEF Interrupt
  <2>3. CASE Unwind
    BY <2>3 DEF Unwind, Restored, TypeOK
  <2> QED BY <1>8, <2>1, <2>2, <2>3 DEF End
<1> QED BY <1>1, <1>2, <1>3, <1>4, <1>5, <1>6, <1>7, <1>8 DEF Next, Prepare

LEMMA AccountedStep == Accounted /\ [Next]_vars => Accounted'
<1> SUFFICES ASSUME Accounted, [Next]_vars PROVE Accounted'
  OBVIOUS
<1> USE DEF Accounted, Goto, At, Idle
<1>1. CASE WindowsResource
  BY <1>1 DEF WindowsResource, winres
<1>2. CASE Compile
  BY <1>2 DEF Compile, Cleanup
<1>3. CASE Interrupt
  BY <1>3 DEF Interrupt
<1>4. CASE Unwind
  BY <1>4 DEF Unwind, Cleanup
<1>5. CASE UNCHANGED winres /\ (Idle' => Idle)
  BY <1>5 DEF winres
<1>6. \/ WindowsResource \/ Compile \/ Interrupt \/ Unwind
      \/ UNCHANGED winres /\ (Idle' => Idle)
  BY ToolMoves DEF Next, Prepare, Begin, Edit, Generate, Frontend, Embed, cmd, After,
     Modules, Snapshot, Resolve, Tidy, KeepVendorInSync, AddTool, MobileSteps, Wipe,
     Bind, NativeProject, Gradle, DeliverAndroid, Xcodebuild, DeliverIOS, DeliverPWA,
     DesktopSteps, Bundle, Stage, SignManifest, DesktopDone, End, StepFails, vars
<1> QED BY <1>1, <1>2, <1>3, <1>4, <1>5, <1>6

(***************************************************************************)
(* The frontend, from its source to what is delivered and published.       *)
(***************************************************************************)
LEMMA BundledCarries ==
    ASSUME TypeOK, StepsOfTarget, T \in Desktop, out[Output(run)].ui = dist,
           NEW made \in {run.bundle, run.bundle \ {"dmg"}}
    PROVE  /\ Bundled(made)[Output(run)].ui = dist
           /\ \A i \in run.bundle \ {"dmg"} : Bundled(made)[i].ui = dist
           /\ "nsis" \in run.bundle /\ run.sign => Bundled(made)[Output(run)].signed
<1> DEFINE f == Output(run)
<1>1. /\ run.bundle \subseteq Installer /\ f \in OutFile /\ f \notin run.bundle
      /\ made \subseteq run.bundle
  BY OutputIsFile DEF TypeOK, Request
<1>2. "nsis" \in run.bundle => f = "app.exe"
  BY OutputIsFile DEF StepsOfTarget, Bundles, Desktop
<1>3. \A i \in run.bundle \ {"dmg"} : i \in made /\ i \in OutFile \union Installer
  BY <1>1
<1>4. \A i \in run.bundle \ {"dmg"} : Bundled(made)[i].ui = dist
  BY <1>3 DEF Bundled, TypeOK
<1>5. CASE "nsis" \in run.bundle
  <2>1. Bundled(made)[f] = [out[f] EXCEPT !.signed = run.sign]
    BY <1>1, <1>2, <1>5 DEF Bundled, TypeOK
  <2>2. out[f] \in [ui : Rev, signed : BOOLEAN]
    BY <1>1 DEF TypeOK, File
  <2> QED BY <1>4, <2>1, <2>2
<1>6. CASE "nsis" \notin run.bundle
  <2>1. Bundled(made)[f] = out[f]
    BY <1>1, <1>6 DEF Bundled, TypeOK
  <2> QED BY <1>4, <1>6, <2>1
<1> QED BY <1>5, <1>6

LEMMA CarriedStep == TypeOK /\ StepsOfTarget /\ Carried /\ [Next]_vars => Carried'
<1> SUFFICES ASSUME TypeOK, StepsOfTarget, Carried, [Next]_vars PROVE Carried'
  OBVIOUS
<1> USE Constants
<1> USE DEF Carried, Goto, At, Idle, T, cmd, web, gomod, winres, android, feed
<1>0. src \in Nat /\ dist \in Nat /\ fresh \in Nat
  BY BuildAssumption DEF TypeOK, Rev
<1>1. CASE UNCHANGED vars
  BY <1>1 DEF vars
<1>2. CASE Edit
  BY <1>0, <1>2 DEF Edit
<1>3. ASSUME NEW r \in Accepted, Begin(r) PROVE Carried'
  BY <1>0, <1>3 DEF Begin
<1>4. CASE Generate
  BY <1>4 DEF Generate, Desktop, Mobile
<1>5. CASE Frontend
  BY <1>0, <1>5 DEF Frontend, Desktop, Mobile
<1>6. CASE Embed
  BY <1>6 DEF Embed, TypeOK, Desktop, Mobile
<1>7. CASE Tools
  BY <1>7, ToolMoves DEF After, Desktop, Mobile
<1>8. CASE Modules
  <2>1. CASE Snapshot \/ Resolve
    BY <2>1 DEF Snapshot, Resolve, StepsOfTarget, Desktop, Mobile
  <2>2. CASE Tidy
    BY <2>2 DEF Tidy, Desktop, Mobile
  <2>3. CASE KeepVendorInSync \/ AddTool
    BY <2>3 DEF KeepVendorInSync, AddTool, StepsOfTarget, Desktop, Mobile
  <2> QED BY <1>8, <2>1, <2>2, <2>3 DEF Modules
<1>9. CASE MobileSteps
  <2>1. CASE Wipe
    BY <2>1 DEF Wipe, StepsOfTarget, Desktop, Mobile
  <2>2. CASE Bind
    BY <2>2 DEF Bind, BindAndroid, BindIOS, StepsOfTarget, TypeOK, Desktop, Mobile
  <2>3. CASE NativeProject
    BY <2>3 DEF NativeProject, StepsOfTarget, Desktop, Mobile
  <2>4. CASE Gradle \/ Xcodebuild
    BY <2>4 DEF Gradle, Xcodebuild, Desktop, Mobile
  <2>5. CASE DeliverAndroid \/ DeliverIOS
    <3>1. pc' = "unwind" /\ UNCHANGED <<run, src, dist, fresh>> /\ pc = "deliver"
      BY <2>5 DEF DeliverAndroid, DeliverIOS
    <3> QED BY <3>1
  <2> QED BY <1>9, <2>1, <2>2, <2>3, <2>4, <2>5 DEF MobileSteps
<1>10. CASE DeliverPWA \/ DesktopDone \/ SignManifest
  <2>1. pc' = "unwind" /\ UNCHANGED <<run, src, dist, fresh>> /\ pc # "idle"
    BY <1>10 DEF DeliverPWA, DesktopDone, SignManifest
  <2> QED BY <2>1
<1>11. CASE WindowsResource
  BY <1>11 DEF WindowsResource, StepsOfTarget, Desktop, Mobile
<1>12. CASE Compile
  <2>1. T \in Desktop /\ embed["desktop"] = dist /\ pc' = "bundle"
        /\ UNCHANGED <<run, src, dist, fresh>>
    BY <1>12 DEF Compile
  <2>2. out'[Output(run)].ui = dist
    BY <1>12, <2>1, OutputIsFile DEF Compile, TypeOK
  <2>3. T \notin Mobile /\ Output(run') = Output(run)
    BY <2>1 DEF Desktop, Mobile
  <2>4. fresh # 0 /\ fresh <= src /\ fresh <= dist /\ dist <= src /\ src # 0
    BY <1>12 DEF Compile
  <2> QED BY <2>1, <2>2, <2>3, <2>4
<1>13. CASE Bundle
  <2>1. T \in Desktop /\ out[Output(run)].ui = dist /\ pc' = "publish"
        /\ UNCHANGED <<run, src, dist, fresh>>
    BY <1>13 DEF Bundle, StepsOfTarget
  <2>2. /\ out'[Output(run)].ui = dist
        /\ \A i \in run.bundle \ {"dmg"} : out'[i].ui = dist
        /\ "nsis" \in run.bundle /\ run.sign => out'[Output(run)].signed
    <3>1. CASE run.bundle = {} /\ out' = out
      BY <2>1, <3>1
    <3>2. ASSUME NEW made \in {run.bundle, run.bundle \ {"dmg"}}, out' = Bundled(made)
          PROVE  <2>2!1 /\ <2>2!2 /\ <2>2!3
      BY <2>1, <3>2, BundledCarries
    <3> QED BY <1>13, <3>1, <3>2, BundleMakes
  <2>3. T \notin Mobile /\ Output(run') = Output(run)
    BY <2>1 DEF Desktop, Mobile
  <2>4. fresh # 0 /\ fresh <= src /\ fresh <= dist /\ dist <= src /\ src # 0
    BY <1>13 DEF Bundle
  <2> QED BY <2>1, <2>2, <2>3, <2>4
<1>14. CASE Stage
  <2>1. T \in Desktop /\ staged'[T] = out[Output(run)] /\ pc' = "sign"
        /\ UNCHANGED <<run, src, dist, fresh, out>> /\ pc = "publish"
    BY <1>14 DEF Stage, StepsOfTarget, TypeOK
  <2>2. T \notin Mobile /\ Output(run') = Output(run)
    BY <2>1 DEF Desktop, Mobile
  <2> QED BY <2>1, <2>2
<1>15. CASE End
  <2>1. /\ pc' \in {"idle", "unwind"} /\ pc # "idle"
        /\ pc' = "unwind" => fresh # 0 /\ fresh <= src
        /\ UNCHANGED <<run, src, fresh>>
    BY <1>15 DEF End, StepFails, Fallible, BestEffort, Interrupt, Unwind, Damage
  <2> QED BY <2>1
<1> QED BY <1>1, <1>2, <1>3, <1>4, <1>5, <1>6, <1>7, <1>8, <1>9, <1>10, <1>11, <1>12, <1>13,
           <1>14, <1>15
        DEF Next, Prepare, DesktopSteps

(* What Gradle left is the command's own, unless it outlived its wipe.     *)
LEMMA ArtifactsStep ==
    TypeOK /\ StepsOfTarget /\ Carried /\ OwnOrOutlived /\ NamedSigned /\ [Next]_vars =>
        OwnOrOutlived' /\ NamedSigned'
<1> SUFFICES ASSUME TypeOK, StepsOfTarget, Carried, OwnOrOutlived, NamedSigned, [Next]_vars
             PROVE  OwnOrOutlived' /\ NamedSigned'
  OBVIOUS
<1> DEFINE Late == {"gobind", "bind", "native", "compile", "deliver"}
<1> USE DEF OwnOrOutlived, NamedSigned, Goto, At, T
<1>1. WipeAndroid => /\ \A a \in Artifact : apk'[a] = Nothing \/ a \in survived'
                     /\ NamedSigned'
  BY DEF WipeAndroid, Artifact
<1>2. Packages => NamedSigned'
  BY DEF Packages, TypeOK, Artifact
<1>3. Packages => \A a \in Artifact :
                     \/ apk'[a] = apk[a] /\ (a \in survived => a \in survived')
                     \/ apk'[a].ui = lib["android"]
  BY DEF Packages, TypeOK
<1>4. CASE Wipe
  BY <1>1, <1>4 DEF Wipe, WipeIOS, gradle
<1>5. CASE Gradle
  <2>1. /\ \A a \in Artifact : apk[a] = Nothing \/ a \in survived \/ apk[a].ui = dist
        /\ lib["android"] = dist /\ dist' = dist
    BY <1>5 DEF Gradle, Carried, Mobile, web
  <2>2. \A a \in Artifact : apk'[a] = Nothing \/ a \in survived' \/ apk'[a].ui = dist
    BY <1>3, <1>5, <2>1 DEF Gradle, gradle
  <2> QED BY <1>2, <1>5, <2>1, <2>2 DEF Gradle, gradle
<1>6. CASE StepFails \/ Interrupt
  <2>1. pc' \in {"idle", "unwind"}
    BY <1>6 DEF StepFails, Interrupt
  <2>2. NamedSigned'
    BY <1>1, <1>2, <1>6 DEF StepFails, Interrupt, Damage, AndroidCutShort, gradle
  <2> QED BY <2>1, <2>2
<1>7. ASSUME UNCHANGED apk,
             \/ (T' = "android" => pc' \notin Late)
             \/ UNCHANGED <<run, dist, survived>> /\ (T = "android" => pc \in Late)
      PROVE  OwnOrOutlived' /\ NamedSigned'
  BY <1>7
<1>8. ASSUME NEW r \in Accepted, Begin(r) PROVE OwnOrOutlived' /\ NamedSigned'
  BY <1>7, <1>8 DEF Begin
<1>9. CASE Edit \/ Generate \/ Frontend \/ Embed
  BY <1>7, <1>9 DEF Edit, Generate, Frontend, Embed, cmd, android, gradle, Desktop, Mobile
<1>10. CASE Tools
  BY <1>7, <1>10, ToolMoves DEF After, gradle
<1>11. CASE Modules
  BY <1>7, <1>11 DEF Modules, Snapshot, Resolve, Tidy, KeepVendorInSync, AddTool, web, android,
     gradle, StepsOfTarget, Desktop
<1>12. CASE Bind \/ NativeProject \/ DeliverAndroid \/ Xcodebuild \/ DeliverIOS \/ DeliverPWA
  BY <1>7, <1>12 DEF Bind, NativeProject, DeliverAndroid, Xcodebuild, DeliverIOS, DeliverPWA,
     web, android, gradle
<1>13. CASE DesktopSteps
  BY <1>7, <1>13 DEF DesktopSteps, WindowsResource, Compile, Bundle, Stage, SignManifest,
     DesktopDone, android, gradle
<1>14. CASE Unwind \/ UNCHANGED vars
  BY <1>14 DEF Unwind, vars, cmd, web, android, gradle
<1> QED BY <1>4, <1>5, <1>6, <1>8, <1>9, <1>10, <1>11, <1>12, <1>13, <1>14
        DEF Next, Prepare, MobileSteps, End

(* The steps that deliver are the ones that may say "ok".                  *)
LEMMA DeliveredStep ==
    TypeOK /\ StepsOfTarget /\ Carried /\ OwnOrOutlived /\ NamedSigned /\ Delivered
    /\ [Next]_vars => Delivered'
<1> SUFFICES ASSUME TypeOK, StepsOfTarget, Carried, OwnOrOutlived, NamedSigned, Delivered,
                    [Next]_vars
             PROVE  Delivered'
  OBVIOUS
<1> USE Constants
<1> USE DEF Delivered, Goto, At, Idle, T, cmd, web, feed, Signs, Outlived
<1>1. CASE UNCHANGED vars
  BY <1>1 DEF vars, cmd, web, feed, android, gradle, Candidates
<1>2. CASE Edit
  BY <1>2 DEF Edit, android, gradle, Candidates
<1>3. ASSUME pc # "idle", pc # "unwind", result' = result PROVE Delivered'
  BY <1>3
<1>4. CASE result' # "ok"
  BY <1>4
<1>5. CASE DeliverAndroid
  <2>1. run.bundle = {} /\ ~run.publish /\ T = "android" /\ pc = "deliver"
    BY <1>5 DEF DeliverAndroid, StepsOfTarget, Bundles, Desktop
  <2>2. PICK a \in Artifact : Presentable(a) /\ out' = [out EXCEPT ![Output(run)] = apk[a]]
    BY <1>5 DEF DeliverAndroid
  <2>3. out'[Output(run)] = apk[a]
    BY <2>2, OutputIsFile DEF TypeOK
  <2>4. a \in survived \/ apk[a].ui = dist
    BY <2>1, <2>2 DEF OwnOrOutlived, Presentable
  <2>5. fresh <= dist /\ UNCHANGED <<run, dist, fresh, apk, survived>>
    BY <1>5, <2>1 DEF Carried, DeliverAndroid, gradle
  <2>6. Candidates' = Candidates /\ a \in Candidates
    BY <2>2, <2>5 DEF Candidates, Presentable
  <2>7. Outlived' \/ out'[Output(run)].ui = dist
    BY <2>1, <2>3, <2>4, <2>5, <2>6
  <2>8. Signs /\ run.format = "apk" => out'[Output(run)].signed
    BY <2>2, <2>3 DEF Presentable, Candidates, NamedSigned
  <2> QED BY <1>5, <2>1, <2>5, <2>7, <2>8 DEF DeliverAndroid
<1>6. CASE DeliverIOS
  <2>1. run.bundle = {} /\ ~run.publish
    BY <1>6 DEF DeliverIOS, StepsOfTarget, Bundles, Desktop
  <2> QED BY <1>6, <2>1 DEF DeliverIOS, Carried, gradle
<1>7. CASE DeliverPWA
  <2>1. run.bundle = {} /\ ~run.publish
    BY <1>7 DEF DeliverPWA, StepsOfTarget, Bundles, Desktop
  <2>2. out'[Output(run)].ui = dist
    <3>1. out \in [OutFile \union Installer -> File] /\ Output(run) \in OutFile
      BY OutputIsFile DEF TypeOK
    <3>2. out' = [out EXCEPT ![Output(run)] = [ui |-> dist, signed |-> FALSE]]
      BY <1>7 DEF DeliverPWA, Output
    <3> QED BY <3>1, <3>2
  <2>3. T = "pwa" /\ fresh <= dist /\ pc' = "unwind" /\ UNCHANGED <<run, dist, fresh>>
    BY <1>7 DEF DeliverPWA, Carried
  <2> QED BY <2>1, <2>2, <2>3
<1>8. CASE SignManifest
  <2>1. /\ T \in Desktop /\ dist # 0 /\ out[Output(run)].ui = dist
        /\ staged[T] = out[Output(run)]
    BY <1>8, BuildAssumption DEF SignManifest, StepsOfTarget, Carried, TypeOK, Rev
  <2>2. Existing \in [Desktop -> File]
    BY DEF Existing, TypeOK
  <2>3. manifest'[T] = staged[T]
    BY <1>8, <2>1, <2>2 DEF SignManifest, Merged
  <2>4. manifest' # Torn
    BY <2>1, <2>3 DEF Garbage
  <2> QED BY <1>8, <2>1, <2>3, <2>4 DEF SignManifest, Carried, Desktop
<1>9. CASE DesktopDone
  <2>1. T \in Desktop
    BY <1>9 DEF DesktopDone, StepsOfTarget
  <2> QED BY <1>9, <2>1 DEF DesktopDone, Carried, Desktop
<1>10. CASE Unwind
  BY <1>10 DEF Unwind, android, gradle, Candidates
<1>11. CASE UNCHANGED result
  <2>1. pc \in {"idle", "unwind"} => UNCHANGED vars \/ Edit \/ Unwind \/ result' # "ok"
    BY <1>11, ToolMoves DEF Next, Prepare, Begin, Generate, Frontend, Embed, cmd, gomod, web,
       winres, Tool, Modules, Snapshot, Resolve, Tidy, KeepVendorInSync, AddTool, MobileSteps,
       Wipe, WipeAndroid, WipeIOS, Bind, NativeProject, Gradle, DeliverAndroid, Xcodebuild,
       DeliverIOS, DeliverPWA, DesktopSteps, WindowsResource, Compile, Bundle, Stage,
       SignManifest, DesktopDone, End, StepFails, Fallible, BestEffort, Interrupt
  <2> QED BY <1>1, <1>2, <1>3, <1>4, <1>10, <1>11, <2>1
<1>12. CASE ~UNCHANGED result
  <2>1. \/ result' # "ok" \/ DeliverAndroid \/ DeliverIOS \/ DeliverPWA \/ SignManifest
        \/ DesktopDone \/ Unwind
    BY <1>12, ToolMoves DEF Next, Prepare, Begin, Edit, Generate, Frontend, Embed, cmd, gomod,
       web, winres, Modules, Snapshot, Resolve, Tidy, KeepVendorInSync, AddTool, MobileSteps,
       Wipe, Bind, BindAndroid, BindIOS, NativeProject, Gradle,
       Xcodebuild, DesktopSteps, WindowsResource, Compile, Bundle, Stage, End, StepFails,
       Interrupt, vars
  <2> QED BY <1>4, <1>5, <1>6, <1>7, <1>8, <1>9, <1>10, <2>1
<1> QED BY <1>11, <1>12

(***************************************************************************)
(* The manifest.                                                           *)
(***************************************************************************)
LEMMA AccumulatedStep ==
    TypeOK /\ StepsOfTarget /\ Carried /\ Accumulated /\ [Next]_vars => Accumulated'
<1> SUFFICES ASSUME TypeOK, StepsOfTarget, Carried, Accumulated, [Next]_vars PROVE Accumulated'
  OBVIOUS
<1> USE Constants
<1>1. CASE SignManifest
  <2>1. /\ T \in Desktop /\ out[Output(run)].ui = dist /\ staged[T] = out[Output(run)]
        /\ fresh # 0 /\ fresh <= dist
    BY <1>1 DEF SignManifest, At, StepsOfTarget, Carried, T, Idle
  <2>0. dist # 0
    BY <2>1, BuildAssumption DEF TypeOK, Rev
  <2>2. published' = [published EXCEPT ![T] = staged[T]] /\ torn' = torn
    BY <1>1 DEF SignManifest
  <2>3. \A p \in Desktop : published'[p] # Garbage
    BY <2>0, <2>1, <2>2 DEF Accumulated, Garbage, TypeOK
  <2>4. published # Torn
    BY DEF Accumulated, Desktop
  <2>5. ~torn => manifest' = published'
    BY <1>1, <2>2, <2>4 DEF SignManifest, Merged, Existing, Accumulated
  <2> QED BY <2>2, <2>3, <2>5 DEF Accumulated
<1>2. CASE StepFails \/ Interrupt
  <2>1. torn' = (torn \/ manifest' = Torn) /\ published' = published
    BY <1>2 DEF StepFails, Interrupt, Damage
  <2>2. manifest' \in {manifest, Torn}
    BY <1>2 DEF StepFails, Interrupt, Damage
  <2> QED BY <2>1, <2>2 DEF Accumulated
<1>3. CASE UNCHANGED <<manifest, published, torn>>
  BY <1>3 DEF Accumulated
<1>4. SignManifest \/ StepFails \/ Interrupt \/ UNCHANGED <<manifest, published, torn>>
  BY ToolMoves DEF Next, Prepare, Begin, Edit, Generate, Frontend, Embed, cmd, gomod, web,
     winres, Modules, Snapshot, Resolve, Tidy, KeepVendorInSync, AddTool, MobileSteps, Wipe,
     Bind, BindAndroid, BindIOS, NativeProject, Gradle,
     DeliverAndroid, Xcodebuild, DeliverIOS, DeliverPWA, DesktopSteps, WindowsResource,
     Compile, Bundle, Stage, DesktopDone, End, Unwind, feed, vars
<1> QED BY <1>1, <1>2, <1>3, <1>4

-----------------------------------------------------------------------------

LEMMA StepIInv == IInv /\ [Next]_vars => IInv'
BY TypeStep, TargetStep, RestoreStep, AccountedStep, CarriedStep, ArtifactsStep, DeliveredStep,
   AccumulatedStep
   DEF IInv

LEMMA Invariance == Spec => []IInv
BY InitIInv, StepIInv, PTL DEF Spec

(***************************************************************************)
(* Every variable keeps its type, and a saved go.mod is held only by a     *)
(* mobile build in progress.                                               *)
(***************************************************************************)
THEOREM TypeCorrect == Spec => []TypeOK
<1>1. IInv => TypeOK
  BY DEF IInv
<1> QED BY <1>1, Invariance, PTL

(***************************************************************************)
(* A command that ended by itself restored go.mod or warned, whatever step *)
(* failed (build.go, snapshotModFiles); and a Windows resource stays only  *)
(* where the process was killed, its write failed half-way or its removal  *)
(* failed (winres.go:45-52).                                               *)
(***************************************************************************)
THEOREM CommandCleansUp == Spec => []CleansUp
<1>1. IInv => CleansUp
  BY DEF IInv, ModRestored, Accounted, CleansUp
<1> QED BY <1>1, Invariance, PTL

(***************************************************************************)
(* A command that says "ok" delivered and packed the frontend it built,    *)
(* which is not older than the source as it was when the command was       *)
(* given, whatever was edited meanwhile; unless Gradle's artifact of an    *)
(* earlier command outlived the wipe (build.go, runBuild, and the checks   *)
(* after Gradle).                                                          *)
(***************************************************************************)
THEOREM SuccessDeliversFresh == Spec => []SuccessIsFresh
<1>1. IInv => SuccessIsFresh
  BY DEF IInv, Delivered, SuccessIsFresh
<1> QED BY <1>1, Invariance, PTL

(***************************************************************************)
(* The manifest lists what was last published for every platform as long   *)
(* as its writing was never cut short (publish.go, mergeAndSign).          *)
(***************************************************************************)
THEOREM ManifestAccumulates == Spec => []ReleasesAccumulate
<1>1. IInv => ReleasesAccumulate
  BY DEF IInv, Delivered, Accumulated, ReleasesAccumulate
<1> QED BY <1>1, Invariance, PTL

-----------------------------------------------------------------------------
(***************************************************************************)
(* What reaches the update feed.                                           *)
(***************************************************************************)

PublishedIsFresh ==
    Idle /\ result = "ok" /\ run.publish =>
        /\ manifest # Torn /\ manifest[T].ui = dist /\ dist >= fresh
        /\ "nsis" \in run.bundle /\ run.sign => manifest[T].signed

(***************************************************************************)
(* From the developer's source to the user's update in one statement: what *)
(* a successful `goleo build --publish` lists in the manifest holds the    *)
(* frontend that this command built, which has everything the source had   *)
(* when the command was given, though edits during the build may or may    *)
(* not be in it; and it is signed if it was to be and its installer was    *)
(* made (build.go, runBuild; publish.go).                                  *)
(***************************************************************************)
THEOREM PublishesWhatWasAsked == Spec => []PublishedIsFresh
<1>1. IInv => PublishedIsFresh
  BY DEF IInv, Delivered, Outlived, StepsOfTarget, PublishedIsFresh, Desktop, T
<1> QED BY <1>1, Invariance, PTL

(* A revision is published after it was written, and before the command at *)
(* hand was given.                                                         *)
FeedInv ==
    /\ \A p \in Desktop : published[p].ui <= src
    /\ pc \notin {"idle", "unwind"} => \A p \in Desktop : published[p].ui <= fresh

LEMMA PublishedMoves ==
    ASSUME [Next]_vars, published' # published
    PROVE  SignManifest
BY ToolMoves DEF Next, Prepare, Begin, Edit, Generate, Frontend, Embed, cmd, gomod, web,
   winres, Modules, Snapshot, Resolve, Tidy, KeepVendorInSync, AddTool, MobileSteps, Wipe,
   Bind, BindAndroid, BindIOS, NativeProject, Gradle,
   DeliverAndroid, Xcodebuild, DeliverIOS, DeliverPWA, DesktopSteps, WindowsResource,
   Compile, Bundle, Stage, DesktopDone, End, StepFails, Interrupt, Damage, Unwind, feed, vars

LEMMA SourceMoves ==
    ASSUME TypeOK, [Next]_vars, src' # src
    PROVE  Edit
BY ToolMoves DEF Next, Prepare, Begin, Generate, Frontend, Embed, cmd, gomod, web,
   winres, Modules, Snapshot, Resolve, Tidy, KeepVendorInSync, AddTool, MobileSteps, Wipe,
   Bind, BindAndroid, BindIOS, NativeProject, Gradle,
   DeliverAndroid, Xcodebuild, DeliverIOS, DeliverPWA, DesktopSteps, WindowsResource,
   Compile, Bundle, Stage, SignManifest, DesktopDone, End, StepFails, Interrupt, Damage, Unwind,
   feed, vars

LEMMA Publication ==
    ASSUME IInv, SignManifest
    PROVE  /\ T \in Desktop /\ published'[T].ui = dist /\ fresh <= dist /\ dist <= src
           /\ src' = src /\ pc' = "unwind" /\ pc \notin {"idle", "unwind"}
           /\ \A p \in Desktop \ {T} : published'[p] = published[p]
<1>1. /\ TypeOK /\ T \in Desktop /\ out[Output(run)].ui = dist /\ staged[T] = out[Output(run)]
      /\ pc = "sign" /\ fresh <= dist /\ dist <= src
  BY DEF IInv, SignManifest, At, StepsOfTarget, Carried
<1>2. published' = [published EXCEPT ![T] = staged[T]] /\ src' = src /\ pc' = "unwind"
  BY DEF SignManifest, web
<1> QED BY <1>1, <1>2 DEF TypeOK

LEMMA FeedTypes ==
    ASSUME TypeOK
    PROVE  /\ src \in Nat /\ dist \in Nat /\ fresh \in Nat
           /\ \A p \in Desktop : published[p].ui \in Nat
BY BuildAssumption DEF TypeOK, File, Rev

(* Where a step comes to a place within a command from.                    *)
LEMMA WithinCommand ==
    ASSUME TypeOK, [Next]_vars, pc' \notin {"idle", "unwind"}
    PROVE  \/ fresh' = src /\ src' = src /\ published' = published
           \/ fresh' = fresh /\ pc \notin {"idle", "unwind"}
           \/ UNCHANGED vars
BY ToolMoves DEF Next, Prepare, Begin, Edit, Generate, Frontend, Embed, cmd, gomod, web, Idle,
   At, Goto, Modules, Snapshot, Resolve, Tidy, KeepVendorInSync, AddTool, MobileSteps, Wipe,
   Bind, NativeProject, Gradle, DeliverAndroid, Xcodebuild, DeliverIOS, DeliverPWA, DesktopSteps,
   WindowsResource, Compile, Bundle, Stage, SignManifest, DesktopDone, End, StepFails, Interrupt,
   Unwind, feed, vars

LEMMA FeedInvariance == Spec => []FeedInv
<1>1. Init => FeedInv
  BY Constants DEF Init, FeedInv, Nothing
<1>2. IInv /\ FeedInv /\ [Next]_vars => FeedInv'
  <2> SUFFICES ASSUME IInv, FeedInv, [Next]_vars PROVE FeedInv'
    OBVIOUS
  <2>0. TypeOK /\ TypeOK'
    BY StepIInv DEF IInv
  <2>1. src <= src'
    <3>1. CASE src' = src
      BY <2>0, <3>1, FeedTypes
    <3>2. CASE Edit
      BY <2>0, <3>2, FeedTypes DEF Edit
    <3> QED BY <2>0, <3>1, <3>2, SourceMoves
  <2>2. CASE SignManifest
    BY <2>0, <2>2, Publication, FeedTypes DEF FeedInv
  <2>3. CASE published' = published
    <3>1. \A p \in Desktop : published'[p].ui <= src'
      <4>1. src \in Nat /\ src' \in Nat /\ \A p \in Desktop : published[p].ui \in Nat
        <5>1. src' \in Nat
          BY <2>0, BuildAssumption DEF TypeOK, Rev
        <5> QED BY <2>0, <5>1, FeedTypes
      <4> QED BY <2>1, <2>3, <4>1 DEF FeedInv
    <3>2. ASSUME pc' \notin {"idle", "unwind"}
          PROVE  \A p \in Desktop : published'[p].ui <= fresh'
      BY <2>0, <2>3, <3>2, WithinCommand DEF FeedInv, vars, cmd, web
    <3> QED BY <3>1, <3>2 DEF FeedInv
  <2> QED BY <2>2, <2>3, PublishedMoves
<1> QED BY <1>1, <1>2, Invariance, PTL DEF Spec

FeedForward == \A p \in Desktop : published'[p].ui >= published[p].ui

(***************************************************************************)
(* The update feed never goes back: whatever is edited, commands fail, are *)
(* killed or are repeated, and in whatever order platforms are built, a    *)
(* publication replaces a platform's entry by a frontend at least as new   *)
(* (publish.go, runPublish).                                               *)
(***************************************************************************)
THEOREM FeedNeverGoesBack == Spec => [][FeedForward]_vars
<1>1. IInv /\ FeedInv /\ [Next]_vars => [FeedForward]_vars
  <2> SUFFICES ASSUME IInv, FeedInv, Next, NEW p \in Desktop
               PROVE  published'[p].ui >= published[p].ui
    BY DEF FeedForward
  <2>1. published[p].ui \in Nat /\ fresh \in Nat /\ dist \in Nat
    BY FeedTypes DEF IInv
  <2>2. CASE published' = published
    BY <2>1, <2>2
  <2>3. CASE SignManifest
    <3>1. published[p].ui <= fresh /\ fresh <= dist
      BY <2>3, Publication DEF FeedInv
    <3>2. published'[p].ui = dist \/ published'[p] = published[p]
      BY <2>3, Publication
    <3> QED BY <2>1, <3>1, <3>2
  <2> QED BY <2>2, <2>3, PublishedMoves
<1> QED BY <1>1, Invariance, FeedInvariance, PTL DEF Spec

(* What the command at hand may write of another one's deliverables, and   *)
(* of the feed.                                                            *)
Deliverables(r) == {Output(r)} \union r.bundle

OthersUntouched ==
    /\ \A q \in Accepted : q.target # T =>
          \A f \in Deliverables(q) : \/ out'[f] = out[f]
                                     \/ f = "app" /\ {q.target, T} = {"darwin", "linux"}
    /\ \A p \in Desktop \ {T} : staged'[p] = staged[p] /\ published'[p] = published[p]
    /\ manifest # Torn /\ manifest' # Torn =>
          \A p \in Desktop \ {T} : (manifest')[p] = manifest[p]

(* Two platforms name nothing alike but the program of Linux and of macOS. *)
LEMMA NamesApart ==
    ASSUME TypeOK, StepsOfTarget, NEW q \in Accepted, q.target # T,
           NEW f \in Deliverables(q) \intersect Deliverables(run)
    PROVE  f = "app" /\ {q.target, T} = {"darwin", "linux"}
<1>1. q \in Request /\ q.bundle \in Bundles(q.target) /\ run \in Request
      /\ run.bundle \in Bundles(run.target)
  BY DEF TypeOK, StepsOfTarget, Accepted, T
<1>2. q.target \in Target /\ T \in Target
  BY <1>1 DEF Request, T
<1>3. q.bundle \intersect run.bundle = {}
  BY <1>1, <1>2 DEF Bundles, Target, Desktop, Mobile, T
<1>4. Output(q) \in OutFile /\ Output(run) \in OutFile /\ OutFile \intersect Installer = {}
  BY <1>1 DEF Request, Output, OutFile, Installer, Target, Desktop, Mobile
<1>5. q.bundle \subseteq Installer /\ run.bundle \subseteq Installer
  BY <1>1 DEF Request
<1>6. f = Output(q) /\ f = Output(run)
  BY <1>3, <1>4, <1>5 DEF Deliverables
<1>7. q.format \in {"apk", "aab"} /\ run.format \in {"apk", "aab"}
  BY <1>1 DEF Request
<1>8. q.target \in {"darwin", "linux"} /\ T \in {"darwin", "linux"}
  BY <1>2, <1>6, <1>7 DEF Output, Target, Desktop, Mobile, T
<1> QED BY <1>6, <1>8 DEF Output, T

LEMMA OutMoves ==
    ASSUME IInv, Next, NEW f \in (OutFile \union Installer) \ Deliverables(run)
    PROVE  out'[f] = out[f]
<1> USE DEF IInv, T, At, Deliverables
<1>0. /\ TypeOK /\ out \in [OutFile \union Installer -> File] /\ Output(run) \in OutFile
      /\ (T = "windows" => Output(run) = "app.exe")
      /\ ("nsis" \in run.bundle => T = "windows")
  BY OutputIsFile DEF TypeOK, StepsOfTarget, Bundles, Desktop
<1>1. CASE DeliverAndroid \/ DeliverPWA \/ Compile
  BY <1>0, <1>1 DEF DeliverAndroid, DeliverPWA, Compile, Output
<1>2. T = "ios" /\ Builds => out'[f] = out[f]
  BY <1>0 DEF Builds, Output
<1>3. CASE Xcodebuild
  BY <1>2, <1>3 DEF Xcodebuild
<1>4. ASSUME NEW made \in SUBSET run.bundle PROVE Bundled(made)[f] = out[f]
  BY <1>0 DEF Bundled
<1>5. CASE Bundle
  <2>1. CASE run.bundle = {}
    BY <1>5, <2>1 DEF Bundle
  <2>2. ASSUME NEW made \in {run.bundle, {}}, out' = Bundled(made)
        PROVE  out'[f] = out[f]
    BY <1>4, <2>2
  <2> QED BY <1>5, <2>1, <2>2 DEF Bundle, BundleWindows, BundleDarwin, BundleLinux
<1>6. CASE StepFails \/ Interrupt
  <2>1. Damage
    BY <1>6 DEF StepFails, Interrupt
  <2>2. CASE out' = out \/ out' = [out EXCEPT ![Output(run)] = Nothing]
    BY <1>0, <2>2
  <2>3. CASE T = "ios" /\ Builds
    BY <1>2, <2>3
  <2>4. ASSUME NEW made \in SUBSET run.bundle, NEW lost \in SUBSET run.bundle,
               out' = HalfBundled(made, lost)
        PROVE  out'[f] = out[f]
    BY <1>0, <1>4, <2>4 DEF HalfBundled
  <2> QED BY <2>1, <2>2, <2>3, <2>4 DEF Damage
<1>7. \/ DeliverAndroid \/ DeliverPWA \/ Compile \/ Xcodebuild \/ Bundle \/ StepFails
      \/ Interrupt \/ UNCHANGED out
  BY ToolMoves DEF Next, Prepare, Begin, Edit, Generate, Frontend, Embed, Modules, Snapshot,
     Resolve, Tidy, KeepVendorInSync, AddTool, MobileSteps, Wipe, Bind, NativeProject, Gradle,
     DeliverIOS, DesktopSteps, WindowsResource, Stage, SignManifest, DesktopDone, End, Unwind
<1> QED BY <1>1, <1>3, <1>5, <1>6, <1>7

LEMMA FeedMoves ==
    ASSUME IInv, Next
    PROVE  /\ \A p \in Desktop \ {T} : staged'[p] = staged[p] /\ published'[p] = published[p]
           /\ manifest # Torn /\ manifest' # Torn =>
                 \A p \in Desktop \ {T} : (manifest')[p] = manifest[p]
<1>0. TypeOK
  BY DEF IInv
<1>1. CASE Stage
  BY <1>0, <1>1 DEF Stage, TypeOK
<1>2. CASE SignManifest
  BY <1>0, <1>2 DEF SignManifest, Merged, Existing, TypeOK
<1>3. CASE StepFails \/ Interrupt
  BY <1>0, <1>3 DEF StepFails, Interrupt, Damage, TypeOK
<1>4. Stage \/ SignManifest \/ StepFails \/ Interrupt \/ UNCHANGED <<staged, published, manifest>>
  BY ToolMoves DEF Next, Prepare, Begin, Edit, Generate, Frontend, Embed, Modules, Snapshot,
     Resolve, Tidy, KeepVendorInSync, AddTool, MobileSteps, Wipe, Bind, NativeProject, Gradle,
     DeliverAndroid, Xcodebuild, DeliverIOS, DeliverPWA, DesktopSteps, WindowsResource, Compile,
     Bundle, DesktopDone, End, Unwind, feed
<1> QED BY <1>1, <1>2, <1>3, <1>4

(***************************************************************************)
(* A command never spoils what one for another platform made, with one     *)
(* exception: however it goes, fails or is killed, it changes neither that *)
(* one's deliverables, but for the program of Linux and macOS, which by    *)
(* default are both the file "app" (build.go, binaryOutputName), nor, as   *)
(* long as the manifest is not torn, its staged file or its place in the   *)
(* update feed (publish.go, mergeAndSign).                                 *)
(***************************************************************************)
THEOREM PlatformsKeepApart == Spec => [][OthersUntouched]_vars
<1>1. ASSUME IInv, Next, NEW q \in Accepted, q.target # T, NEW f \in Deliverables(q)
      PROVE  out'[f] = out[f] \/ (f = "app" /\ {q.target, T} = {"darwin", "linux"})
  <2>1. f \in OutFile \union Installer
    BY DEF Deliverables, Output, OutFile, Accepted, Request, Target, Desktop, Mobile
  <2> QED BY <1>1, <2>1, NamesApart, OutMoves DEF IInv
<1>2. IInv /\ [Next]_vars => [OthersUntouched]_vars
  BY <1>1, FeedMoves DEF OthersUntouched
<1> QED BY <1>2, Invariance, PTL DEF Spec
=============================================================================

-------------------------------- MODULE Build --------------------------------
(***************************************************************************)
(* `goleo build` (cli/cmd/build.go, replace.go, winres.go, bundle.go,      *)
(* msix.go, signing.go, publish.go, android_deps.go): one command runs at  *)
(* a time in a project directory and leaves its results there for the next *)
(* one.  Every step may fail, which returns through the functions deferred *)
(* so far, or be interrupted (Ctrl-C, power), which does not; the          *)
(* developer may change the frontend's source meanwhile.  npm, go,         *)
(* gomobile, Gradle, xcodebuild, makensis, makeappx and hdiutil are        *)
(* external: they succeed or fail, and Gradle and xcodebuild may report    *)
(* success and yet produce nothing, or something unsigned, as the comments *)
(* of the code that checks for it say.                                     *)
(*                                                                         *)
(* A file is what the properties tell apart: the revision of the frontend  *)
(* it contains (0: none) and whether it is signed.  The output files have  *)
(* their default names (no -o).  One application version is published, so  *)
(* a platform has one staged file name.                                    *)
(***************************************************************************)
EXTENDS Naturals, FiniteSets

CONSTANTS
    GoleoRoot, \* GOLEO_ROOT names a local checkout of goleo
    HasVendor, \* the project has a vendor directory
    UserCache, \* the system has a user-wide cache directory
    InitTools, \* where the Android tools may be at first
    MaxRuns,   \* bound: commands run
    MaxRev     \* bound: revisions of the frontend's source

Desktop   == {"windows", "darwin", "linux"}
Mobile    == {"android", "ios"}
Target    == Desktop \union Mobile \union {"pwa"}
Installer == {"nsis", "msix", "dmg", "deb"}     \* "deb": the .deb and the .rpm
Tool      == {"jdk", "sdk", "ndk"}
Rev       == 0 .. MaxRev

(* Where an Android tool is: nowhere, in the project's .goleo/android (the *)
(* old place; the NDK in the SDK's directory there) or outside it, in the  *)
(* user-wide cache or wherever the system keeps it.                        *)
Place == {"none", "legacy", "cache"}

ASSUME BuildAssumption ==
    /\ GoleoRoot \in BOOLEAN /\ HasVendor \in BOOLEAN /\ UserCache \in BOOLEAN
    /\ InitTools \subseteq [Tool -> Place]
    /\ MaxRuns \in Nat /\ MaxRev \in Nat \ {0}

Nothing  == [ui |-> 0, signed |-> FALSE]
File     == [ui : Rev, signed : BOOLEAN]
Mod      == [pin : {"none", "own", "latest", "local"}, tool : BOOLEAN]
NoVendor == [pin |-> "absent", tool |-> FALSE]
NoSave   == NoVendor
Garbage  == [ui |-> 0, signed |-> TRUE]     \* no file the program writes
Torn     == [p \in Desktop |-> Garbage]     \* a manifest that does not parse

(* What a command asks for: the installers of --bundle, --publish,         *)
(* --release, an APK or an AAB, and signing (credentials set, no           *)
(* --no-sign).                                                             *)
Bundles(t) == CASE t = "windows" -> SUBSET {"nsis", "msix"}
                [] t = "darwin"  -> {{}, {"dmg"}}
                [] t = "linux"   -> {{}, {"deb"}}
                [] OTHER         -> {{}}

Request == [target : Target, bundle : SUBSET Installer, publish : BOOLEAN,
            release : BOOLEAN, format : {"apk", "aab"}, sign : BOOLEAN]

(* validateTargetFlags, validateAndroidRelease: an accepted request.       *)
Accepted ==
    {r \in Request :
        /\ r.bundle \in Bundles(r.target)
        /\ r.publish => r.target \in Desktop
        /\ r.release \/ r.format = "aab" => r.target = "android"
        /\ r.sign => r.bundle # {} \/ r.release}

(* The file a command delivers.  Linux and macOS name it alike.            *)
OutFile == {"app.exe", "app", "app.apk", "app.aab", "GoleoApp.app", "dist-pwa"}

Output(r) == CASE r.target = "windows" -> "app.exe"
               [] r.target \in {"darwin", "linux"} -> "app"
               [] r.target = "android" -> IF r.format = "apk" THEN "app.apk" ELSE "app.aab"
               [] r.target = "ios" -> "GoleoApp.app"
               [] r.target = "pwa" -> "dist-pwa"

(* What Gradle may leave in .goleo/android, under the names it gives.      *)
Artifact == {"release.apk", "unsigned.apk", "debug.apk", "release.aab", "debug.aab"}

VARIABLES
    pc, run, result, runs,          \* the command
    src, dist, embed, fresh,        \* the frontend: source, build, copies,
                                    \* the source when the command was given
    mod, vendor, saved, before,     \* the Go module files
    syso, wrote, spoiled,           \* the Windows resource, whether its removal
                                    \* is deferred, whether it was left for good
    tools,                          \* the Android tools
    lib, apk, survived,             \* the bound library, Gradle's artifacts, those
                                    \* of them that outlived this command's wipe
    out,                            \* what was delivered
    staged, manifest, published, torn   \* the update feed

cmd     == <<pc, run, result, runs>>
web     == <<src, dist, embed, fresh>>
gomod   == <<mod, vendor, saved, before>>
winres  == <<syso, wrote, spoiled>>
gradle  == <<apk, survived>>
android == <<tools, lib, gradle>>
feed    == <<staged, manifest, published, torn>>
vars    == <<cmd, web, gomod, winres, android, out, feed>>

(* "warned": the command ended saying that it could not restore go.mod.    *)
Result == {"none", "ok", "err", "killed", "warned"}

Idle == pc = "idle"
T    == run.target

TypeOK ==
    /\ run \in Request /\ result \in Result
    /\ runs \in 0 .. MaxRuns /\ src \in Rev /\ dist \in Rev /\ fresh \in Rev
    /\ embed \in [{"desktop", "mobile"} -> Rev]
    /\ mod \in Mod /\ vendor \in Mod \union {NoVendor}
    /\ saved \in Mod \union {NoSave} /\ before \in Mod
    /\ syso \in BOOLEAN /\ wrote \in BOOLEAN /\ spoiled \in BOOLEAN
    /\ tools \in [Tool -> Place] /\ lib \in [Mobile -> Rev]
    /\ apk \in [Artifact -> File] /\ survived \subseteq Artifact
    /\ out \in [OutFile \union Installer -> File]
    /\ staged \in [Desktop -> File]
    /\ manifest \in [Desktop -> File] \union {Torn}
    /\ published \in [Desktop -> File] /\ torn \in BOOLEAN
    /\ saved # NoSave => ~Idle /\ T \in Mobile

-----------------------------------------------------------------------------
(***************************************************************************)
(* Steps.  At(s) is the head of every step; Goto(s) its successful end.    *)
(***************************************************************************)
At(s)   == pc = s
Goto(s) == pc' = s /\ UNCHANGED <<run, result, runs>>

Init ==
    /\ pc = "idle" /\ result = "none" /\ runs = 0
    /\ run = [target |-> "pwa", bundle |-> {}, publish |-> FALSE,
              release |-> FALSE, format |-> "apk", sign |-> FALSE]
    /\ src = 1 /\ dist = 0 /\ fresh = 0
    /\ embed = [d \in {"desktop", "mobile"} |-> 0]
    /\ mod = [pin |-> "own", tool |-> FALSE]
    /\ vendor = (IF HasVendor THEN mod ELSE NoVendor) /\ saved = NoSave /\ before = mod
    /\ syso = FALSE /\ wrote = FALSE /\ spoiled = FALSE
    /\ tools \in InitTools /\ lib = [t \in Mobile |-> 0]
    /\ apk = [a \in Artifact |-> Nothing] /\ survived = {}
    /\ out = [f \in OutFile \union Installer |-> Nothing]
    /\ staged = [p \in Desktop |-> Nothing] /\ manifest = staged
    /\ published = staged /\ torn = FALSE

(* The developer changes the frontend, whatever a command is doing.        *)
Edit == /\ src < MaxRev
        /\ src' = src + 1
        /\ UNCHANGED <<cmd, dist, embed, fresh, gomod, winres, android, out, feed>>

(* runBuild up to its refusals; a refused command changes nothing.         *)
Begin(r) ==
    /\ Idle /\ runs < MaxRuns
    /\ run' = r /\ runs' = runs + 1 /\ result' = "none"
    /\ pc' = IF r.target = "pwa" THEN "frontend" ELSE "generate"
    /\ before' = mod /\ fresh' = src /\ survived' = {}
    /\ UNCHANGED <<src, dist, embed, mod, vendor, saved, winres, tools, lib, apk, out, feed>>

(* generateBackendEntrypoints: rewrites the entry points and keeps a       *)
(* non-empty embedded frontend.                                            *)
Generate == /\ At("generate") /\ Goto("frontend")
            /\ UNCHANGED <<web, gomod, winres, android, out, feed>>

(* buildFrontendProject: the source as it is now.                          *)
Frontend ==
    /\ At("frontend")
    /\ dist' = src
    /\ Goto(CASE T = "android" -> "jdk"
              [] T = "ios"     -> "snapshot"
              [] T = "pwa"     -> "deliver"
              [] OTHER         -> "embed")
    /\ UNCHANGED <<src, embed, fresh, gomod, winres, android, out, feed>>

(* Copies the built frontend to where the Go package embeds it.            *)
Embed ==
    /\ At("embed")
    /\ embed' = [embed EXCEPT ![IF T \in Desktop THEN "desktop" ELSE "mobile"] = dist]
    /\ Goto(CASE T = "windows" -> "resource"
              [] T \in Mobile  -> "wipe"
              [] OTHER         -> "resolve")
    /\ UNCHANGED <<src, dist, fresh, gomod, winres, android, out, feed>>

-----------------------------------------------------------------------------
(***************************************************************************)
(* The Android tools: each found in the old place or outside it, otherwise *)
(* downloaded.                                                             *)
(***************************************************************************)
After(s) == CASE s = "jdk" -> "gomobile" [] s = "gomobile" -> "sdk"
              [] s = "sdk" -> "ndk"      [] s = "ndk" -> "adb"
              [] s = "adb" -> "emulator"
              [] s = "emulator" -> "snapshot"

(* An NDK in the old place is looked for in the SDK's directory only.      *)
There(t) == /\ tools[t] # "none"
            /\ t = "ndk" /\ tools["ndk"] = "legacy" => tools["sdk"] = "legacy"

(* sharedAndroidCacheDir falls back to the old place; the NDK goes into    *)
(* the SDK that was found.                                                 *)
InstallPlace(t) == IF t = "ndk" THEN tools["sdk"]
                   ELSE IF UserCache THEN "cache" ELSE "legacy"

Resolves(t) == /\ At(t) /\ Goto(After(t))
               /\ UNCHANGED <<web, gomod, winres, lib, gradle, out, feed>>

Finds(t) == There(t) /\ UNCHANGED tools /\ Resolves(t)

(* What is missing is downloaded and unpacked.                             *)
Installs(t) ==
    /\ ~There(t) /\ tools' = [tools EXCEPT ![t] = InstallPlace(t)]
    /\ Resolves(t)

InstallJava == Installs("jdk")
InstallSDK  == Installs("sdk")

(* sdkmanager ended well and left no NDK: its path stays unset, no error.  *)
NoNDK == ~There("ndk") /\ UNCHANGED tools /\ Resolves("ndk")

ResolveJava == Finds("jdk") \/ InstallJava
ResolveSDK  == Finds("sdk") \/ InstallSDK
ResolveNDK  == Finds("ndk") \/ Installs("ndk") \/ NoNDK

(* These tools live outside both places; resolveAdb and resolveEmulator    *)
(* never refuse.                                                           *)
ResolveOther(s) == /\ At(s) /\ Goto(After(s))
                   /\ UNCHANGED <<web, gomod, winres, android, out, feed>>

ResolveGomobile == ResolveOther("gomobile")
ResolveAdb      == ResolveOther("adb")
ResolveEmulator == ResolveOther("emulator")

-----------------------------------------------------------------------------
(***************************************************************************)
(* The Go module files.                                                    *)
(***************************************************************************)
(* snapshotModFiles, its restore deferred.                                 *)
Snapshot == /\ At("snapshot") /\ saved' = mod
            /\ Goto("resolve")
            /\ UNCHANGED <<web, mod, vendor, before, winres, android, out, feed>>

Vendored == vendor # NoVendor /\ mod.pin # "none" /\ vendor.pin = mod.pin

(* ensureLocalReplace: a local checkout (GOLEO_ROOT) stays or is wired in, *)
(* a vendored pin stays, anything else is resolved again.                  *)
Resolved == CASE mod.pin = "local" \/ GoleoRoot -> {"local"}
              [] Vendored -> {mod.pin}
              [] OTHER    -> {"own", "latest"}

Resolve == /\ At("resolve")
           /\ \E p \in Resolved : mod' = [mod EXCEPT !.pin = p]
           /\ Goto("tidy")
           /\ UNCHANGED <<web, vendor, saved, before, winres, android, out, feed>>

Tidy == /\ At("tidy") /\ Goto(IF T \in Mobile THEN "embed" ELSE "vendor")
        /\ UNCHANGED <<web, gomod, winres, android, out, feed>>

(* keepVendorInSync: best effort.                                          *)
KeepVendorInSync ==
    /\ At("vendor")
    /\ \/ vendor # NoVendor /\ vendor' = mod
       \/ UNCHANGED vendor
    /\ Goto("compile")
    /\ UNCHANGED <<web, mod, saved, before, winres, android, out, feed>>

(* go get -tool: best effort.                                              *)
AddTool == /\ At("gobind")
           /\ \E b \in {mod.tool, TRUE} : mod' = [mod EXCEPT !.tool = b]
           /\ Goto("bind")
           /\ UNCHANGED <<web, vendor, saved, before, winres, android, out, feed>>

-----------------------------------------------------------------------------
(***************************************************************************)
(* Mobile: bind the library, generate the native project, build it.        *)
(***************************************************************************)
(* os.RemoveAll(.goleo/android), its error ignored: with the last build's  *)
(* artifacts go the tools of the old place, and of either any part may     *)
(* stay.                                                                   *)
WipeAndroid ==
    /\ T = "android"
    /\ \E kept \in SUBSET {a \in Artifact : apk[a] # Nothing},
          gone \in SUBSET {t \in Tool : tools[t] = "legacy"} :
         /\ apk' = [a \in Artifact |-> IF a \in kept THEN apk[a] ELSE Nothing]
         /\ survived' = kept
         /\ tools' = [t \in Tool |-> IF t \in gone THEN "none" ELSE tools[t]]

WipeIOS == T = "ios" /\ UNCHANGED <<tools, gradle>>

Wipe == /\ At("wipe") /\ Goto("gobind")
        /\ WipeAndroid \/ WipeIOS
        /\ UNCHANGED <<web, gomod, winres, lib, out, feed>>

(* gomobile init and bind; for Android they need the JDK, SDK and NDK.     *)
BindAndroid == T = "android" /\ (\A t \in Tool : There(t))
                             /\ lib' = [lib EXCEPT !["android"] = embed["mobile"]]

BindIOS == T = "ios" /\ lib' = [lib EXCEPT !["ios"] = embed["mobile"]]

Bind == /\ At("bind") /\ Goto("native")
        /\ BindAndroid \/ BindIOS
        /\ UNCHANGED <<web, gomod, winres, tools, gradle, out, feed>>

(* extractMobileTemplate and the copy of the library into the project,     *)
(* which is the library: nothing is bound in between.                      *)
NativeProject ==
    /\ At("native") /\ Goto("compile")
    /\ UNCHANGED <<web, gomod, winres, android, out, feed>>

Signs == run.release /\ run.sign

(* androidGradleTask: the artifacts looked for.                            *)
Candidates == CASE run.release /\ run.format = "apk" -> {"release.apk", "unsigned.apk"}
                [] run.release /\ run.format = "aab" -> {"release.aab"}
                [] ~run.release /\ run.format = "apk" -> {"debug.apk"}
                [] OTHER -> {"debug.aab"}

(* Gradle writes one of them, its name saying whether an APK is signed; it *)
(* skips signing when the configuration does not apply.                    *)
Packages ==
    \E a \in Candidates, s \in {Signs, FALSE} :
        /\ a = "release.apk" => s
        /\ a = "unsigned.apk" => ~s
        /\ apk' = [apk EXCEPT ![a] = [ui |-> lib["android"], signed |-> s]]
        /\ survived' = survived \ {a}

(* Gradle ends well, with an artifact or without one.                      *)
Gradle ==
    /\ At("compile") /\ T = "android" /\ Goto("deliver")
    /\ Packages \/ UNCHANGED gradle
    /\ UNCHANGED <<web, gomod, winres, tools, lib, out, feed>>

(* The first candidate there is, whoever left it; a signed release must    *)
(* not come back as the -unsigned variant: visible in an APK's name, not   *)
(* in an AAB's.                                                            *)
Presentable_anyName(a) == a \in Candidates /\ apk[a] # Nothing

Presentable(a) ==
    /\ a \in Candidates /\ apk[a] # Nothing
    /\ a = "unsigned.apk" => apk["release.apk"] = Nothing /\ ~Signs

(* The library is removed, unless that fails.                              *)
DeliverAndroid ==
    /\ At("deliver") /\ T = "android"
    /\ \E a \in Artifact : Presentable(a) /\ out' = [out EXCEPT ![Output(run)] = apk[a]]
    /\ lib' \in {lib, [lib EXCEPT !["android"] = 0]}
    /\ result' = "ok" /\ pc' = "unwind" /\ UNCHANGED <<run, runs>>
    /\ UNCHANGED <<web, gomod, winres, tools, gradle, feed>>

(* xcodebuild leaves the app at its place.                                 *)
Builds == out' = [out EXCEPT !["GoleoApp.app"] = [ui |-> lib["ios"], signed |-> FALSE]]

(* It ends well, with the app or without it.                               *)
Xcodebuild ==
    /\ At("compile") /\ T = "ios" /\ Goto("deliver")
    /\ Builds \/ UNCHANGED out
    /\ UNCHANGED <<web, gomod, winres, android, feed>>

(* The app is there, built just now or by an earlier command.              *)
DeliverIOS ==
    /\ At("deliver") /\ T = "ios" /\ out["GoleoApp.app"] # Nothing
    /\ lib' \in {lib, [lib EXCEPT !["ios"] = 0]}
    /\ result' = "ok" /\ pc' = "unwind" /\ UNCHANGED <<run, runs>>
    /\ UNCHANGED <<web, gomod, winres, tools, gradle, out, feed>>

(* buildForPWA.                                                            *)
DeliverPWA ==
    /\ At("deliver") /\ T = "pwa" /\ dist # 0
    /\ out' = [out EXCEPT !["dist-pwa"] = [ui |-> dist, signed |-> FALSE]]
    /\ result' = "ok" /\ pc' = "unwind" /\ UNCHANGED <<run, runs>>
    /\ UNCHANGED <<web, gomod, winres, android, feed>>

-----------------------------------------------------------------------------
(***************************************************************************)
(* Desktop: resource, compile, installers, update feed.                    *)
(***************************************************************************)
(* writeWindowsResource: best effort, its removal deferred when it worked. *)
(* It may fail after it has created the file; nothing removes that one.    *)
WindowsResource ==
    /\ At("resource") /\ Goto("resolve")
    /\ \/ syso' = TRUE /\ wrote' = TRUE /\ spoiled' = FALSE
       \/ syso' = TRUE /\ wrote' = FALSE /\ spoiled' = TRUE
       \/ UNCHANGED winres
    /\ UNCHANGED <<web, gomod, android, out, feed>>

(* The deferred cleanup; the error of its os.Remove is ignored.            *)
Cleanup_none == UNCHANGED winres

Cleanup ==
    /\ wrote' = FALSE
    /\ \/ wrote /\ syso' = FALSE /\ UNCHANGED spoiled
       \/ wrote /\ spoiled' = TRUE /\ UNCHANGED syso
       \/ ~wrote /\ UNCHANGED <<syso, spoiled>>

(* go build refuses a vendor tree that disagrees with go.mod.              *)
Compile ==
    /\ At("compile") /\ T \in Desktop /\ vendor \in {NoVendor, mod}
    /\ out' = [out EXCEPT ![Output(run)] = [ui |-> embed["desktop"], signed |-> FALSE]]
    /\ Cleanup
    /\ Goto("bundle")
    /\ UNCHANGED <<web, gomod, android, feed>>

(* runBundle: the NSIS installer is made first and signs the binary in     *)
(* place; the .dmg signs a copy, the .msix only itself; Linux packages are *)
(* not signed.  made: the installers it came to make.                      *)
Bundled(made) ==
    LET o == IF "nsis" \in run.bundle
             THEN [out EXCEPT !["app.exe"].signed = run.sign] ELSE out
    IN  [f \in DOMAIN out |->
            IF f \in made
            THEN [ui |-> out[Output(run)].ui, signed |-> run.sign /\ f # "deb"] ELSE o[f]]

BundleWindows == T = "windows" /\ out' = Bundled(run.bundle)

(* The .dmg is skipped, and an earlier one stays, where hdiutil is missing.*)
BundleDarwin == T = "darwin" /\ \E made \in {run.bundle, {}} : out' = Bundled(made)

BundleLinux == T = "linux" /\ out' = Bundled(run.bundle)

Bundle == /\ At("bundle") /\ Goto("publish")
          /\ IF run.bundle = {} THEN UNCHANGED out
             ELSE BundleWindows \/ BundleDarwin \/ BundleLinux
          /\ UNCHANGED <<web, gomod, winres, android, feed>>

(* runPublish up to the checksum: the binary is staged.                    *)
Stage == /\ At("publish") /\ run.publish
         /\ staged' = [staged EXCEPT ![T] = out[Output(run)]]
         /\ Goto("sign")
         /\ UNCHANGED <<web, gomod, winres, android, out, manifest, published, torn>>

(* mergeAndSign: a manifest that does not parse counts as empty.           *)
Existing_ignored == [p \in Desktop |-> Nothing]

Existing == IF manifest = Torn THEN [p \in Desktop |-> Nothing] ELSE manifest

Merged_ownOnly == [p \in {T} |-> staged[T]]

Merged == [Existing EXCEPT ![T] = staged[T]]

SignManifest ==
    /\ At("sign")
    /\ manifest' = Merged
    /\ published' = [published EXCEPT ![T] = staged[T]]
    /\ result' = "ok" /\ pc' = "unwind" /\ UNCHANGED <<run, runs>>
    /\ UNCHANGED <<web, gomod, winres, android, out, staged, torn>>

DesktopDone ==
    /\ At("publish") /\ ~run.publish
    /\ result' = "ok" /\ pc' = "unwind" /\ UNCHANGED <<run, runs>>
    /\ UNCHANGED <<web, gomod, winres, android, out, feed>>

-----------------------------------------------------------------------------
(***************************************************************************)
(* Failure, interruption and return.                                       *)
(***************************************************************************)
(* Installers made, broken or not yet reached.                             *)
HalfBundled(made, lost) ==
    [f \in DOMAIN out |-> IF f \in lost THEN Nothing ELSE Bundled(made)[f]]

(* .goleo/android after a wipe or a Gradle that was cut short, or failed.  *)
AndroidCutShort ==
    \/ At("wipe") /\ WipeAndroid
    \/ At("compile") /\ T = "android" /\ Packages /\ UNCHANGED tools
    \/ UNCHANGED <<tools, gradle>>

(* What a step cut short may leave behind.                                 *)
Damage ==
    /\ AndroidCutShort
    /\ dist' \in IF At("frontend") THEN {dist, 0} ELSE {dist}
    /\ embed' \in IF At("embed")
                  THEN {embed, [embed EXCEPT ![IF T \in Desktop THEN "desktop"
                                               ELSE "mobile"] = 0]}
                  ELSE {embed}
    /\ mod' \in IF At("resolve") /\ "own" \in Resolved
                THEN {mod, [mod EXCEPT !.pin = "none"]} ELSE {mod}
    /\ \/ UNCHANGED out
       \/ At("deliver") /\ out' = [out EXCEPT ![Output(run)] = Nothing]
       \/ At("compile") /\ T = "ios" /\ Builds
       \/ At("bundle") /\ \E made, lost \in SUBSET run.bundle : out' = HalfBundled(made, lost)
    /\ staged' \in IF At("publish") /\ run.publish
                   THEN {staged, [staged EXCEPT ![T] = Nothing]} ELSE {staged}
    /\ manifest' \in IF At("sign") THEN {manifest, Torn} ELSE {manifest}
    /\ torn' = (torn \/ manifest' = Torn)
    /\ UNCHANGED <<src, fresh, vendor, before, lib, published>>

(* The steps that only warn when they go wrong, or cannot.                 *)
BestEffort == {"idle", "unwind", "adb", "emulator", "resource", "vendor", "wipe", "gobind"}

Fallible == pc \notin BestEffort /\ (At("snapshot") => T = "ios")
            /\ (At("publish") => run.publish) /\ (At("bundle") => run.bundle # {})

StepFails == /\ Fallible /\ Damage
             /\ result' = "err" /\ pc' = "unwind"
             /\ UNCHANGED <<run, runs, saved, winres>>

(* The process dies: nothing that was deferred runs, and a resource may be *)
(* there half written.                                                     *)
Interrupt == /\ ~Idle /\ Damage
             /\ result' = "killed" /\ pc' = "idle" /\ saved' = NoSave
             /\ wrote' = FALSE /\ syso' \in {syso, syso \/ At("resource")} /\ spoiled' = syso'
             /\ UNCHANGED <<run, runs>>

(* The deferred functions: go.mod and go.sum are written back, or that     *)
(* fails with a warning; the resource is removed if it is still there.     *)
Restored == IF saved = NoSave THEN mod ELSE saved

Unwind ==
    /\ At("unwind") /\ pc' = "idle" /\ saved' = NoSave
    /\ \/ mod' = Restored /\ UNCHANGED result
       \/ saved # NoSave /\ result' = "warned" /\ UNCHANGED mod
    /\ Cleanup
    /\ UNCHANGED <<run, runs, web, vendor, before, android, out, feed>>

Prepare  == Edit \/ (\E r \in Accepted : Begin(r)) \/ Generate \/ Frontend \/ Embed
Tools    == ResolveJava \/ ResolveGomobile \/ ResolveSDK \/ ResolveNDK \/ ResolveAdb
            \/ ResolveEmulator
Modules  == Snapshot \/ Resolve \/ Tidy \/ KeepVendorInSync \/ AddTool
MobileSteps  == Wipe \/ Bind \/ NativeProject \/ Gradle \/ DeliverAndroid
                \/ Xcodebuild \/ DeliverIOS
DesktopSteps == WindowsResource \/ Compile \/ Bundle \/ Stage \/ SignManifest
                \/ DesktopDone
End      == StepFails \/ Interrupt \/ Unwind

Next == Prepare \/ Tools \/ Modules \/ MobileSteps \/ DeliverPWA \/ DesktopSteps \/ End

Spec == Init /\ [][Next]_vars

-----------------------------------------------------------------------------
(* A command that ended by itself left go.mod as a mobile build found it,  *)
(* unless it warned: its restore is deferred (build.go:701).  And of the   *)
(* Windows resource, which a later build would pick up, none is ever left  *)
(* but by a process that was killed, a write that failed half-way, or a    *)
(* removal that failed (winres.go:45-52).                                  *)
CleansUp ==
    Idle =>
        /\ T \in Mobile /\ result \in {"ok", "err"} => mod = before
        /\ syso => spoiled

(* An artifact that outlived the wipe was delivered.                       *)
Outlived == T = "android" /\ \E a \in survived \intersect Candidates : out[Output(run)] = apk[a]

(* Success is not claimed for an old artifact: whatever was edited         *)
(* meanwhile, what the command delivered and every installer it packed     *)
(* hold one and the same frontend, the one it built, not older than the    *)
(* source as it was when the command was given; and a signed APK or an     *)
(* NSIS-installed binary that should be signed is (build.go:641-668).      *)
(* Left out are iOS, whose check for GoleoApp.app finds an earlier one as  *)
(* well as a new one; a .dmg that could not be made and is skipped         *)
(* (bundle.go:270-275); and Gradle's artifact of an earlier command where  *)
(* the wipe could not remove it (build.go:486).                            *)
SuccessIsFresh ==
    Idle /\ result = "ok" =>
        /\ dist >= fresh
        /\ T # "ios" /\ ~Outlived => out[Output(run)].ui = dist
        /\ \A i \in run.bundle \ {"dmg"} : out[i].ui = dist
        /\ T = "android" /\ Signs /\ run.format = "apk" => out[Output(run)].signed
        /\ "nsis" \in run.bundle /\ run.sign => out[Output(run)].signed

(* "Repeated runs on different platforms accumulate into one manifest"     *)
(* (publish.go:22): unless its writing was once cut short, the manifest    *)
(* lists for every platform what was last published for it; and a          *)
(* successful --publish lists the staged file, which is the delivered one. *)
ReleasesAccumulate ==
    /\ ~torn => manifest = published
    /\ Idle /\ result = "ok" /\ run.publish =>
        manifest # Torn /\ manifest[T] = staged[T] /\ staged[T] = out[Output(run)]
=============================================================================

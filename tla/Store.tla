------------------------------- MODULE Store -------------------------------
(***************************************************************************)
(* The key/value store (runtime/store/store.go): Default opens the store   *)
(* of an application once per process, after migrateLegacyStore has copied *)
(* the store that all applications once shared; Set, Delete and Clear      *)
(* change the map in memory and persist it whole, under the store's mutex, *)
(* so a process has one persist at a time. Several processes of the        *)
(* application may use the file. Processes are killed, system calls fail,  *)
(* and power is lost, at any step.                                         *)
(*                                                                         *)
(* The file system is external: a rename replaces the directory entry as a *)
(* whole; after a loss of power the entry may be that of any rename since  *)
(* the last write-back, and a file's data is there if it was synced before *)
(* it got its name, else it may be torn. A value is the set of its keys.   *)
(***************************************************************************)
CONSTANTS
  Process,     \* processes of the application
  Key          \* keys it uses

VARIABLES
  legacy,      \* the shared store of older versions
  pc,          \* where a process is
  mem,         \* Store.data
  tmp,         \* the temporary file of a process's persist
  file,        \* store.json
  durable,     \* what store.json may be after a loss of power
  mig,         \* store.json.migrating, one name for all processes
  fd           \* what a migrating process writes to: that file, the store (it
               \* was renamed meanwhile), or a file without a name

diskVars == <<file, durable>>
migVars  == <<mig, fd>>
vars == <<legacy, pc, mem, tmp, diskVars, migVars>>

\* A file with all its data, no file, and one whose data is not all there.
Whole(keys) == [is |-> "whole", keys |-> keys]
Missing == [is |-> "missing", keys |-> {}]
Torn == [is |-> "torn", keys |-> {}]

Init ==
  /\ legacy \in {Missing} \cup {Whole(keys) : keys \in SUBSET Key \ {{}}}
  /\ pc = [p \in Process |-> "down"] /\ mem = [p \in Process |-> {}]
  /\ tmp = [p \in Process |-> "none"]
  /\ file = Missing /\ durable = {Missing}
  /\ mig = Missing /\ fd = [p \in Process |-> "none"]

Goto(p, where) == pc' = [pc EXCEPT ![p] = where]

(***************************************************************************)
(* Default: migrateLegacyStore, then Open.                                 *)
(***************************************************************************)

\* os.Stat(current), os.ReadFile(legacy)
Starts(p) ==
  /\ pc[p] = "down"
  /\ Goto(p, IF file = Missing /\ legacy # Missing THEN "migrating" ELSE "opening")
  /\ UNCHANGED <<legacy, mem, tmp, diskVars, migVars>>

\* os.WriteFile opens and truncates the file, whoever else writes to it.
MigrationTruncates(p) ==
  /\ pc[p] = "migrating"
  /\ mig' = Torn /\ fd' = [fd EXCEPT ![p] = "migrating"]
  /\ Goto(p, "copying")
  /\ UNCHANGED <<legacy, mem, tmp, diskVars>>

MigrationWrites_leavesOpen(p) ==
  /\ pc[p] = "copying" /\ fd[p] = "migrating"
  /\ mig' = legacy
  /\ Goto(p, "renaming")
  /\ UNCHANGED <<legacy, mem, tmp, diskVars, fd>>

\* The data is written where the open file now is.
MigrationWrites(p) ==
  /\ pc[p] = "copying"
  /\ mig' = IF fd[p] = "migrating" THEN legacy ELSE mig
  /\ file' = IF fd[p] = "store" THEN legacy ELSE file
  /\ durable' = IF fd[p] = "store" THEN durable \cup {legacy, Torn} ELSE durable
  /\ fd' = [fd EXCEPT ![p] = "none"]
  /\ Goto(p, "renaming")
  /\ UNCHANGED <<legacy, mem, tmp>>

\* The open files of a name that moved or went.
FilesMoved(from, to) == [q \in Process |-> IF fd[q] = from THEN to ELSE fd[q]]

\* os.Rename: whatever the file holds by now is the store. It was never synced.
MigrationRenames(p) ==
  /\ pc[p] = "renaming" /\ mig # Missing
  /\ file' = mig /\ durable' = durable \cup {mig, Torn}
  /\ mig' = Missing
  /\ fd' = [q \in Process |-> CASE fd[q] = "migrating" -> "store"
                                [] fd[q] = "store" -> "nameless"
                                [] OTHER -> fd[q]]
  /\ Goto(p, "opening")
  /\ UNCHANGED <<legacy, mem, tmp>>

\* The rename fails, and os.Remove takes the file away; or WriteFile fails, which
\* leaves it; or nothing could be done at all.
MigrationFails(p) ==
  /\ \/ pc[p] = "renaming" /\ mig' = Missing /\ fd' = FilesMoved("migrating", "nameless")
     \/ pc[p] = "copying" /\ fd' = [fd EXCEPT ![p] = "none"] /\ UNCHANGED mig
     \/ pc[p] = "migrating" /\ UNCHANGED migVars
  /\ Goto(p, "opening")
  /\ UNCHANGED <<legacy, mem, tmp, diskVars>>

\* load: a missing or empty file is an empty store, a torn one may be empty.
Opens(p) ==
  /\ pc[p] = "opening"
  /\ mem' = [mem EXCEPT ![p] = file.keys]
  /\ Goto(p, "open")
  /\ UNCHANGED <<legacy, tmp, diskVars, migVars>>

\* A torn file does not parse, or cannot be read: the error stays for the process.
OpenFails(p) ==
  /\ pc[p] = "opening" /\ file # Missing
  /\ Goto(p, "failed")
  /\ UNCHANGED <<legacy, mem, tmp, diskVars, migVars>>

(***************************************************************************)
(* Set, Delete and Clear; persist.                                         *)
(***************************************************************************)

\* The map changes first; Get sees it once the lock is released.
Changes(p) ==
  /\ pc[p] = "open"
  /\ \/ \E k \in Key : mem' = [mem EXCEPT ![p] = @ \cup {k}]     \* Set
     \/ \E k \in Key : mem' = [mem EXCEPT ![p] = @ \ {k}]        \* Delete
     \/ mem' = [mem EXCEPT ![p] = {}]                            \* Clear
  /\ Goto(p, "persist")
  /\ UNCHANGED <<legacy, tmp, diskVars, migVars>>

\* os.CreateTemp, f.Write, f.Sync: a file of the process's own.
TempStep(p, from, to) ==
  /\ pc[p] = "persist" /\ tmp[p] = from
  /\ tmp' = [tmp EXCEPT ![p] = to]
  /\ UNCHANGED <<legacy, pc, mem, diskVars, migVars>>

CreatesTemp(p) == TempStep(p, "none", "created")
WritesTemp(p)  == TempStep(p, "created", "written")
SyncsTemp(p)   == TempStep(p, "written", "synced")

PersistFails_keepsTemp(p) ==
  /\ pc[p] = "persist" /\ Goto(p, "open")
  /\ UNCHANGED <<legacy, mem, tmp, diskVars, migVars>>

\* Any call may fail: the deferred Remove deletes the temporary file. The map in
\* memory keeps its change.
PersistFails(p) ==
  /\ pc[p] = "persist" /\ Goto(p, "open")
  /\ tmp' = [tmp EXCEPT ![p] = "none"]
  /\ UNCHANGED <<legacy, mem, diskVars, migVars>>

Renames_unsynced(p) ==
  /\ pc[p] = "persist" /\ tmp[p] \in {"written", "synced"}
  /\ file' = Whole(mem[p])
  /\ durable' = durable \cup {file'} \cup IF tmp[p] = "synced" THEN {} ELSE {Torn}
  /\ tmp' = [tmp EXCEPT ![p] = "none"] /\ fd' = FilesMoved("store", "nameless")
  /\ Goto(p, "open")
  /\ UNCHANGED <<legacy, mem, mig>>

Renames(p) ==
  /\ pc[p] = "persist" /\ tmp[p] = "synced"
  /\ file' = Whole(mem[p]) /\ durable' = durable \cup {file'}
  /\ tmp' = [tmp EXCEPT ![p] = "none"] /\ fd' = FilesMoved("store", "nameless")
  /\ Goto(p, "open")
  /\ UNCHANGED <<legacy, mem, mig>>

(***************************************************************************)
(* The system.                                                             *)
(***************************************************************************)

\* Its temporary file, if it has one, stays.
Killed(p) ==
  /\ pc[p] # "down" /\ Goto(p, "down")
  /\ mem' = [mem EXCEPT ![p] = {}] /\ tmp' = [tmp EXCEPT ![p] = "none"]
  /\ fd' = [fd EXCEPT ![p] = "none"]
  /\ UNCHANGED <<legacy, diskVars, mig>>

\* The system writes everything back.
Flush ==
  /\ durable' = {file}
  /\ UNCHANGED <<legacy, pc, mem, tmp, file, migVars>>

PowerLoss ==
  /\ file' \in durable /\ durable' = {file'}
  /\ pc' = [p \in Process |-> "down"] /\ mem' = [p \in Process |-> {}]
  /\ tmp' = [p \in Process |-> "none"] /\ fd' = [p \in Process |-> "none"]
  /\ mig' \in {Missing, Torn, mig}
  /\ UNCHANGED legacy

-----------------------------------------------------------------------------

Default(p) ==
  \/ Starts(p) \/ MigrationTruncates(p) \/ MigrationWrites(p) \/ MigrationRenames(p)
  \/ MigrationFails(p) \/ Opens(p) \/ OpenFails(p)

Persist(p) ==
  CreatesTemp(p) \/ WritesTemp(p) \/ SyncsTemp(p) \/ PersistFails(p) \/ Renames(p)

Next ==
  \/ Flush \/ PowerLoss
  \/ \E p \in Process : Default(p) \/ Changes(p) \/ Persist(p) \/ Killed(p)

Spec == Init /\ [][Next]_vars
-----------------------------------------------------------------------------
(***************************************************************************)
(* Properties.                                                             *)
(***************************************************************************)

File == [is : {"whole", "missing", "torn"}, keys : SUBSET Key]

TypeOK ==
  /\ legacy \in File
  /\ pc \in [Process -> {"down", "migrating", "copying", "renaming", "opening", "open",
                         "failed", "persist"}]
  /\ mem \in [Process -> SUBSET Key]
  /\ tmp \in [Process -> {"none", "created", "written", "synced"}]
  /\ file \in File /\ durable \subseteq File /\ mig \in File
  /\ fd \in [Process -> {"none", "migrating", "store", "nameless"}]
  /\ \A p \in Process : fd[p] # "none" => pc[p] = "copying"

(***************************************************************************)
(* "Any failure from here on must not leave the temp file behind"          *)
(* (store.go:177): outside persist there is no temporary file, whichever   *)
(* call failed; only a process that was killed leaves one.                 *)
(***************************************************************************)
NoTempLeft == \A p \in Process : tmp[p] # "none" => pc[p] = "persist"

(***************************************************************************)
(* The store keeps AtomicStore's promise, for any number of processes, of  *)
(* failures, kills and losses of power, as long as there is no legacy      *)
(* store to migrate. (The migration writes one file from every process and *)
(* does not sync it: after one the store may be torn.)                     *)
(***************************************************************************)
Atomic == INSTANCE AtomicStore
            WITH Process <- Process, Key <- Key,
                 mem <- mem, file <- file, durable <- durable

IsAtomic ==        \* legacy = Missing => Atomic!Spec, in a form TLC takes
  /\ Atomic!Init
  /\ [][legacy = Missing => Atomic!Next]_<<mem, file, durable>>

=============================================================================

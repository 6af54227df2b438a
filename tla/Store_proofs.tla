---------------------------- MODULE Store_proofs ----------------------------
(***************************************************************************)
(* Proofs about Store, for any number of processes and keys: types, no     *)
(* temporary file outside persist, the refinement of AtomicStore by every  *)
(* step taken while there is no legacy store, and what may tear the store  *)
(* where there is one.                                                     *)
(***************************************************************************)
EXTENDS Store, TLAPS

(* Who migrates has a legacy store to migrate.                             *)
MigratesLegacy ==
  legacy = Missing => \A p \in Process : pc[p] \notin {"migrating", "copying", "renaming"}

IInv == TypeOK /\ NoTempLeft /\ MigratesLegacy

-----------------------------------------------------------------------------

LEMMA WholeIsFile == ASSUME NEW keys \in SUBSET Key PROVE Whole(keys) \in File
BY DEF Whole, File

LEMMA NoDataIsFile == Missing \in File /\ Torn \in File
BY DEF Missing, Torn, File

LEMMA FileKeys == ASSUME NEW f \in File PROVE f.keys \in SUBSET Key
BY DEF File

LEMMA InitIInv == Init => IInv
<1> SUFFICES ASSUME Init PROVE IInv
  OBVIOUS
<1>1. legacy \in File /\ file \in File /\ durable \subseteq File /\ mig \in File
  BY WholeIsFile, NoDataIsFile DEF Init
<1>2. TypeOK
  BY <1>1 DEF Init, TypeOK
<1> QED BY <1>2 DEF Init, IInv, NoTempLeft, MigratesLegacy

(* The steps that only move a process and its own temporary file.          *)
LEMMA StepIInv == IInv /\ [Next]_vars => IInv'
<1> SUFFICES ASSUME IInv, [Next]_vars PROVE IInv'
  OBVIOUS
<1> USE WholeIsFile, NoDataIsFile, FileKeys
<1> USE DEF IInv, TypeOK, NoTempLeft, MigratesLegacy
<1>1. CASE UNCHANGED vars
  BY <1>1 DEF vars, diskVars, migVars
<1>2. CASE Flush
  BY <1>2 DEF Flush, migVars
<1>3. CASE PowerLoss
  <2>1. mig' \in File /\ file' \in File /\ durable' \subseteq File
    BY <1>3 DEF PowerLoss
  <2> QED BY <1>3, <2>1 DEF PowerLoss
<1>4. ASSUME NEW p \in Process, Default(p) PROVE IInv'
  <2>1. CASE Starts(p)
    BY <2>1 DEF Starts, Goto, diskVars, migVars
  <2>2. CASE MigrationTruncates(p)
    BY <2>2 DEF MigrationTruncates, Goto, diskVars
  <2>3. CASE MigrationWrites(p)
    <3>1. mig' \in File /\ file' \in File /\ durable' \subseteq File
      BY <2>3 DEF MigrationWrites
    <3> QED BY <2>3, <3>1 DEF MigrationWrites, Goto
  <2>4. CASE MigrationRenames(p)
    <3>1. mig' \in File /\ file' \in File /\ durable' \subseteq File
      BY <2>4 DEF MigrationRenames
    <3>2. fd' \in [Process -> {"none", "migrating", "store", "nameless"}]
      BY <2>4 DEF MigrationRenames
    <3>3. \A q \in Process : fd'[q] # "none" => fd[q] # "none"
      BY <2>4 DEF MigrationRenames
    <3>4. \A q \in Process : fd'[q] # "none" => pc'[q] = "copying"
      BY <2>4, <3>3 DEF MigrationRenames, Goto
    <3> QED BY <2>4, <3>1, <3>2, <3>4 DEF MigrationRenames, Goto
  <2>5. CASE MigrationFails(p)
    <3>1. mig' \in File /\ fd' \in [Process -> {"none", "migrating", "store", "nameless"}]
      BY <2>5 DEF MigrationFails, FilesMoved, migVars
    <3>2. \A q \in Process : fd'[q] # "none" => fd[q] # "none" /\ pc'[q] = "copying"
      BY <2>5 DEF MigrationFails, FilesMoved, migVars, Goto
    <3> QED BY <2>5, <3>1, <3>2 DEF MigrationFails, Goto, diskVars
  <2>6. CASE Opens(p)
    BY <2>6 DEF Opens, Goto, diskVars, migVars
  <2>7. CASE OpenFails(p)
    BY <2>7 DEF OpenFails, Goto, diskVars, migVars
  <2> QED BY <1>4, <2>1, <2>2, <2>3, <2>4, <2>5, <2>6, <2>7 DEF Default
<1>5. ASSUME NEW p \in Process, Changes(p) PROVE IInv'
  <2>1. mem' \in [Process -> SUBSET Key]
    BY <1>5 DEF Changes
  <2> QED BY <1>5, <2>1 DEF Changes, Goto, diskVars, migVars
<1>6. ASSUME NEW p \in Process, Persist(p) PROVE IInv'
  <2>1. ASSUME NEW from \in {"none", "created", "written"},
               NEW to \in {"created", "written", "synced"},
               TempStep(p, from, to)
        PROVE  IInv'
    BY <2>1 DEF TempStep, diskVars, migVars
  <2>2. CASE PersistFails(p)
    BY <2>2 DEF PersistFails, Goto, diskVars, migVars
  <2>3. CASE Renames(p)
    <3>1. file' \in File /\ durable' \subseteq File
      BY <2>3 DEF Renames
    <3>2. fd' \in [Process -> {"none", "migrating", "store", "nameless"}]
      BY <2>3 DEF Renames, FilesMoved
    <3>3. \A q \in Process : fd'[q] # "none" => pc'[q] = "copying"
      BY <2>3 DEF Renames, FilesMoved, Goto
    <3> QED BY <2>3, <3>1, <3>2, <3>3 DEF Renames, Goto
  <2> QED BY <1>6, <2>1, <2>2, <2>3 DEF Persist, CreatesTemp, WritesTemp, SyncsTemp
<1>7. ASSUME NEW p \in Process, Killed(p) PROVE IInv'
  BY <1>7 DEF Killed, Goto, diskVars
<1> QED BY <1>1, <1>2, <1>3, <1>4, <1>5, <1>6, <1>7 DEF Next

LEMMA Invariance == Spec => []IInv
BY InitIInv, StepIInv, PTL DEF Spec

(* Every variable keeps its type, and a process has a file open for the    *)
(* migration only while it copies (store.go:122).                          *)
THEOREM TypeCorrect == Spec => []TypeOK
BY Invariance, PTL DEF IInv

(* Outside persist no process has a temporary file, whichever call failed  *)
(* (store.go:177-204).                                                     *)
THEOREM TempRemoved == Spec => []NoTempLeft
BY Invariance, PTL DEF IInv

-----------------------------------------------------------------------------
(***************************************************************************)
(* The refinement.                                                         *)
(***************************************************************************)

LEMMA InitAtomic == Init => Atomic!Init
BY DEF Init, Atomic!Init, Missing, Atomic!Missing

LEMMA StepAtomic ==
  IInv /\ [Next]_vars => [legacy = Missing => Atomic!Next]_<<mem, file, durable>>
<1> SUFFICES ASSUME IInv, [Next]_vars, legacy = Missing,
                    ~UNCHANGED <<mem, file, durable>>
             PROVE  Atomic!Next
  OBVIOUS
<1> USE DEF IInv, TypeOK
<1>1. CASE UNCHANGED vars
  BY <1>1 DEF vars, diskVars
<1>2. CASE Flush
  BY <1>2 DEF Flush, Atomic!Flush, Atomic!Next
<1>3. CASE PowerLoss
  BY <1>3 DEF PowerLoss, Atomic!PowerLoss, Atomic!Next
<1>4. ASSUME NEW p \in Process, Default(p) PROVE Atomic!Next
  <2>1. pc[p] \notin {"migrating", "copying", "renaming"}
    BY DEF MigratesLegacy
  <2>2. Opens(p)
    BY <1>4, <2>1 DEF Default, Starts, MigrationTruncates, MigrationWrites,
       MigrationRenames, MigrationFails, OpenFails, diskVars
  <2> QED BY <2>2 DEF Opens, diskVars, Atomic!Load, Atomic!Next
<1>5. ASSUME NEW p \in Process, Changes(p) PROVE Atomic!Next
  <2>1. \E keys \in SUBSET Key : mem' = [mem EXCEPT ![p] = keys]
    <3>1. mem[p] \in SUBSET Key
      OBVIOUS
    <3> QED BY <1>5, <3>1 DEF Changes
  <2> QED BY <1>5, <2>1 DEF Changes, diskVars, Atomic!Change, Atomic!Next
<1>6. ASSUME NEW p \in Process, Persist(p) PROVE Atomic!Next
  <2>1. Renames(p)
    BY <1>6 DEF Persist, CreatesTemp, WritesTemp, SyncsTemp, TempStep, PersistFails,
       diskVars
  <2> QED BY <2>1 DEF Renames, Whole, Atomic!Whole, Atomic!Save, Atomic!Next
<1>7. ASSUME NEW p \in Process, Killed(p) PROVE Atomic!Next
  <2>1. {} \in SUBSET Key
    OBVIOUS
  <2> QED BY <1>7, <2>1 DEF Killed, diskVars, Atomic!Change, Atomic!Next
<1> QED BY <1>1, <1>2, <1>3, <1>4, <1>5, <1>6, <1>7 DEF Next

(* persist is atomic for any number of processes and keys: whatever fails, *)
(* is killed or loses power, the store on disk is a complete copy of some  *)
(* process's map (store.go:163-204), as long as nothing is migrated.       *)
THEOREM StoreIsAtomic == Spec => IsAtomic
<1>1. Init => Atomic!Init
  BY InitAtomic
<1>2. IInv /\ [Next]_vars => [legacy = Missing => Atomic!Next]_<<mem, file, durable>>
  BY StepAtomic
<1> QED BY <1>1, <1>2, Invariance, PTL DEF Spec, IsAtomic

-----------------------------------------------------------------------------
(***************************************************************************)
(* Torn stores.                                                            *)
(***************************************************************************)

(* What a reader may find without a legacy store, now or after a loss of   *)
(* power: no file, or a whole one.                                         *)
NeverTorn == legacy = Missing => file # Torn /\ Torn \notin durable

LEMMA Distinct == Torn # Missing /\ \A keys : Whole(keys) # Torn
BY DEF Torn, Missing, Whole

(***************************************************************************)
(* Where nothing is migrated, no failure, kill or loss of power, at any    *)
(* step of any number of processes, leaves a torn store.json behind, and   *)
(* none would be found after the next loss of power: the temporary file is *)
(* synced before it gets the name (store.go:163-204).                      *)
(***************************************************************************)
THEOREM PersistNeverTears == Spec => []NeverTorn
<1>1. Init => NeverTorn
  BY Distinct DEF Init, NeverTorn
<1>2. IInv /\ NeverTorn /\ [Next]_vars => NeverTorn'
  <2> SUFFICES ASSUME IInv, NeverTorn, [Next]_vars, legacy' = Missing
               PROVE  file' # Torn /\ Torn \notin durable'
    BY DEF NeverTorn
  <2>1. legacy = Missing
    BY DEF vars, Next, Flush, PowerLoss, Default, Starts, MigrationTruncates, MigrationWrites,
       MigrationRenames, MigrationFails, Opens, OpenFails, Changes, Persist, CreatesTemp,
       WritesTemp, SyncsTemp, TempStep, PersistFails, Renames, Killed
  <2>2. file # Torn /\ Torn \notin durable /\ \A p \in Process :
          pc[p] \notin {"migrating", "copying", "renaming"}
    BY <2>1 DEF NeverTorn, IInv, MigratesLegacy
  <2>3. CASE UNCHANGED vars
    BY <2>2, <2>3 DEF vars, diskVars
  <2>4. CASE Flush
    BY <2>2, <2>4 DEF Flush
  <2>5. CASE PowerLoss
    BY <2>2, <2>5 DEF PowerLoss
  <2>6. ASSUME NEW p \in Process, Default(p) \/ Changes(p) \/ Killed(p)
        PROVE  UNCHANGED <<file, durable>>
    BY <2>2, <2>6 DEF Default, Starts, MigrationTruncates, MigrationWrites, MigrationRenames,
       MigrationFails, Opens, OpenFails, Changes, Killed, diskVars
  <2>7. ASSUME NEW p \in Process, Persist(p) PROVE file' # Torn /\ Torn \notin durable'
    BY <2>2, <2>7, Distinct DEF Persist, CreatesTemp, WritesTemp, SyncsTemp, TempStep,
       PersistFails, Renames, diskVars
  <2> QED BY <2>2, <2>3, <2>4, <2>5, <2>6, <2>7 DEF Next
<1> QED BY <1>1, <1>2, Invariance, PTL DEF Spec

(* At most one process migrates at a time.                                 *)
Migrating(p) == pc[p] \in {"migrating", "copying", "renaming"}

OneMigrator == \A p, q \in Process : Migrating(p) /\ Migrating(q) => p = q

(* A migration that is alone writes to the file it truncated, and renames  *)
(* it with all of the legacy store in it.                                  *)
MigratesWhole ==
  /\ legacy # Torn
  /\ \A p \in Process : /\ pc[p] = "copying" => fd[p] = "migrating"
                        /\ pc[p] = "renaming" => mig = legacy

LEMMA MigrateStep == IInv /\ OneMigrator /\ MigratesWhole /\ [Next]_vars => MigratesWhole'
<1> SUFFICES ASSUME IInv, OneMigrator, MigratesWhole, [Next]_vars PROVE MigratesWhole'
  OBVIOUS
<1> USE DEF IInv, TypeOK, MigratesWhole, diskVars, migVars, Goto
<1>1. CASE UNCHANGED vars
  BY <1>1 DEF vars
<1>2. CASE Flush
  BY <1>2 DEF Flush
<1>3. CASE PowerLoss
  BY <1>3 DEF PowerLoss
<1>4. ASSUME NEW p \in Process, Default(p) PROVE MigratesWhole'
  <2>1. CASE Starts(p)
    BY <2>1 DEF Starts
  <2>2. CASE MigrationTruncates(p)
    BY <2>2 DEF MigrationTruncates, OneMigrator, Migrating
  <2>3. CASE MigrationWrites(p)
    BY <2>3 DEF MigrationWrites, OneMigrator, Migrating
  <2>4. CASE MigrationRenames(p)
    <3>1. \A q \in Process \ {p} : ~Migrating(q) /\ pc'[q] = pc[q]
      BY <2>4 DEF MigrationRenames, OneMigrator, Migrating
    <3> QED BY <2>4, <3>1 DEF MigrationRenames, Migrating
  <2>5. CASE MigrationFails(p)
    <3>1. \A q \in Process \ {p} : ~Migrating(q) /\ pc'[q] = pc[q]
      BY <2>5 DEF MigrationFails, OneMigrator, Migrating
    <3> QED BY <2>5, <3>1 DEF MigrationFails, Migrating
  <2>6. CASE Opens(p) \/ OpenFails(p)
    BY <2>6 DEF Opens, OpenFails
  <2> QED BY <1>4, <2>1, <2>2, <2>3, <2>4, <2>5, <2>6 DEF Default
<1>5. ASSUME NEW p \in Process, Changes(p) PROVE MigratesWhole'
  BY <1>5 DEF Changes
<1>6. ASSUME NEW p \in Process, Persist(p) PROVE MigratesWhole'
  <2>1. UNCHANGED legacy /\ UNCHANGED mig
        /\ \A q \in Process : Migrating(q)' => pc'[q] = pc[q]
    BY <1>6 DEF Persist, CreatesTemp, WritesTemp, SyncsTemp, TempStep, PersistFails, Renames,
       Migrating
  <2>2. \A q \in Process : fd[q] = "migrating" => fd'[q] = "migrating"
    BY <1>6 DEF Persist, CreatesTemp, WritesTemp, SyncsTemp, TempStep, PersistFails, Renames,
       FilesMoved
  <2> QED BY <2>1, <2>2 DEF Migrating
<1>7. ASSUME NEW p \in Process, Killed(p) PROVE MigratesWhole'
  BY <1>7 DEF Killed
<1> QED BY <1>1, <1>2, <1>3, <1>4, <1>5, <1>6, <1>7 DEF Next

TornByPower == file' = Torn /\ file # Torn => PowerLoss

(***************************************************************************)
(* A legacy store is migrated whole if no two processes migrate at once:   *)
(* whatever fails and whoever is killed, a torn store.json can then only   *)
(* come of a loss of power, since the migrated file was not synced         *)
(* (store.go, migrateLegacyStore).                                         *)
(***************************************************************************)
THEOREM LoneMigrationTearsNothing == Spec /\ []OneMigrator => [][TornByPower]_vars
<1>1. Init => MigratesWhole
  BY Distinct DEF Init, MigratesWhole
<1>2. IInv /\ OneMigrator /\ MigratesWhole /\ [Next]_vars => MigratesWhole'
  BY MigrateStep
<1>3. IInv /\ MigratesWhole /\ [Next]_vars => [TornByPower]_vars
  <2> SUFFICES ASSUME IInv, MigratesWhole, Next, ~PowerLoss, file # Torn PROVE file' # Torn
    BY DEF TornByPower
  <2>1. CASE Flush
    BY <2>1 DEF Flush
  <2>2. ASSUME NEW p \in Process, Default(p) PROVE file' # Torn
    <3>1. CASE MigrationWrites(p)
      BY <3>1 DEF MigrationWrites, MigratesWhole
    <3>2. CASE MigrationRenames(p)
      BY <3>2 DEF MigrationRenames, MigratesWhole
    <3> QED BY <2>2, <3>1, <3>2 DEF Default, Starts, MigrationTruncates, MigrationFails, Opens,
           OpenFails, diskVars
  <2>3. ASSUME NEW p \in Process, Changes(p) \/ Persist(p) \/ Killed(p) PROVE file' # Torn
    BY <2>3, Distinct DEF Changes, Persist, CreatesTemp, WritesTemp, SyncsTemp, TempStep,
       PersistFails, Renames, Killed, diskVars
  <2> QED BY <2>1, <2>2, <2>3 DEF Next
<1> QED BY <1>1, <1>2, <1>3, Invariance, PTL DEF Spec
=============================================================================

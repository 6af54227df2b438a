---------------------------- MODULE AtomicStore ----------------------------
(***************************************************************************)
(* What the key/value store promises (runtime/store/store.go, "persist     *)
(* writes the store atomically"): on disk there is at any time a complete  *)
(* store, the copy of what some process had in memory, or none yet; a loss *)
(* of power takes it back to a complete store as well. Processes read it   *)
(* when they start and replace it as a whole.                              *)
(***************************************************************************)
CONSTANTS Process, Key

VARIABLES
  mem,      \* the keys in each process's memory
  file,     \* the store on disk
  durable   \* what may be on disk after a loss of power

\* A file with all its data, and no file.
Whole(keys) == [is |-> "whole", keys |-> keys]
Missing == [is |-> "missing", keys |-> {}]

Init == mem = [p \in Process |-> {}] /\ file = Missing /\ durable = {Missing}

Load(p) ==
  /\ mem' = [mem EXCEPT ![p] = file.keys]
  /\ UNCHANGED <<file, durable>>

Change(p) ==
  /\ \E keys \in SUBSET Key : mem' = [mem EXCEPT ![p] = keys]
  /\ UNCHANGED <<file, durable>>

Save(p) ==
  /\ file' = Whole(mem[p]) /\ durable' = durable \cup {file'}
  /\ UNCHANGED mem

Flush == durable' = {file} /\ UNCHANGED <<mem, file>>

PowerLoss ==
  /\ file' \in durable /\ durable' = {file'}
  /\ mem' = [p \in Process |-> {}]

Next == Flush \/ PowerLoss \/ \E p \in Process : Load(p) \/ Change(p) \/ Save(p)

Spec == Init /\ [][Next]_<<mem, file, durable>>
=============================================================================

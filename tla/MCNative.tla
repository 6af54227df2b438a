----------------------------- MODULE MCNative -----------------------------
(* Instances of Native for TLC. *)
EXTENDS Native, TLC

\* An event handler emits at most once.
MCMaxEmits == [t \in Thread |-> IF t \in Message THEN 1 ELSE 2]
=============================================================================

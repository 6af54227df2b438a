----------------------------- MODULE MCWindows -----------------------------
(* Instances of Windows for TLC. *)
EXTENDS Windows, TLC
=============================================================================

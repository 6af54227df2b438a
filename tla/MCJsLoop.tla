------------------------------ MODULE MCJsLoop ------------------------------
(* Instances of JsLoop for TLC. *)
EXTENDS JsLoop, TLC

Symmetry == Permutations(Caller)
=============================================================================

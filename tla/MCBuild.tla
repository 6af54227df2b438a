------------------------------- MODULE MCBuild -------------------------------
(* Instances of Build for TLC. *)
EXTENDS Build

(* A project from before the user-wide cache, without an NDK: the NDK goes *)
(* into the old SDK and is lost with it, and the next Android command      *)
(* installs everything anew, outside.                                      *)
MCInitTools == {[jdk |-> "legacy", sdk |-> "legacy", ndk |-> "none"]}
=============================================================================

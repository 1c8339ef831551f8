----------------------------- MODULE MCStartup -----------------------------
(* Instances of the start-up for TLC. *)
EXTENDS Startup, TLC

(* Keys are interchangeable, and so are preconditions. *)
StartupSymmetry == Permutations(Keys) \cup Permutations(Preconditions)
============================================================================

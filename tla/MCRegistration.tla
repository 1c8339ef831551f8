--------------------------- MODULE MCRegistration ---------------------------
(* Instances of the agents and the controller for TLC. *)
EXTENDS Registration, TLC

CONSTANT h1

(* One device, one name. *)
OneDevice == [d \in {1} |-> h1]

AddressSymmetry == Permutations(UNION Payloads)
============================================================================

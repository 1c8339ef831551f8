--------------------------- MODULE MCPublication ---------------------------
(* Instances of the publisher for TLC. *)
EXTENDS Publication, TLC

(* Addresses of one family are interchangeable. *)
AddressSymmetry == Permutations(IPv4)
============================================================================

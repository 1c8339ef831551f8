--------------------------- MODULE MCDesiredState ---------------------------
(* Instances of the desired-state store for TLC. *)
EXTENDS DesiredState, TLC

(* Addresses are interchangeable, and so are host names and new keys. *)
StoreSymmetry ==
    Permutations(UNION Payloads) \cup Permutations(Hostnames)
        \cup Permutations(Keys \ {LegacyKey})
============================================================================

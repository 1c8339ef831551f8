------------------------------ MODULE MCAccess ------------------------------
(* Instances of the request authorization for TLC. *)
EXTENDS Access, TLC

CONSTANTS h1, h2, w1, w2

Names == [d \in Devices |-> IF d = 1 THEN h1 ELSE h2]

Of(kind, name) == [kind |-> kind, name |-> name]

(* An updater of each workload, another service, and a certificate that     *)
(* names two devices; in file mode the last but one names one device.       *)
SomeCertificates ==
    {<<Of("updater", w1)>>, <<Of("updater", w2)>>, <<Of("service", w1)>>,
     <<Of("updater", w1), Of("device", 1)>>,
     <<Of("device", 1), Of("device", 2)>>}

AccessSymmetry == Permutations(Authorities) \cup Permutations(Connections)
============================================================================

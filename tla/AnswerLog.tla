----------------------------- MODULE AnswerLog -----------------------------
(***************************************************************************)
(* What the idempotency table promises, whatever else happens to it: it is *)
(* a log of answers, one for each request identifier, to which entries are *)
(* added and from which nothing is ever taken or changed                   *)
(* (dns/internal/store/sqlite.go: "The pilot retains idempotency responses *)
(* indefinitely so every duplicate key can return its exact original       *)
(* result").                                                               *)
(*                                                                         *)
(* Module DesiredState implements it by its transactions, module Startup   *)
(* by a migration that several processes may run at once.                  *)
(***************************************************************************)

VARIABLE log    \* a set of records with the fields id and answer

OneAnswerEach == \A e, f \in log : e.id = f.id => e = f

Init == OneAnswerEach

(* An answer to a request that had none. *)
Record(e) ==
    /\ \A f \in log : f.id # e.id
    /\ log' = log \cup {e}

Next == \E e \in log' : Record(e)

Spec == Init /\ [][Next]_log
============================================================================

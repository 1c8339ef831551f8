------------------------------ MODULE Intents ------------------------------
(***************************************************************************)
(* The intents table of the desired-state store                            *)
(* (dns/internal/store/sqlite.go): one row per device holding the address  *)
(* set it asked for, the generation that names that set, the end of its    *)
(* lease, and how far publication has come.                                *)
(*                                                                         *)
(* Every SQL transaction is one action: the store opens serializable       *)
(* transactions on a one-connection pool, and SQLite either commits one    *)
(* as a whole or fails it as a whole.  A failed transaction is a           *)
(* stuttering step.                                                        *)
(*                                                                         *)
(* The module is also the abstract specification of what the store         *)
(* promises the publisher (IntentsSpec): module DesiredState, which adds   *)
(* the idempotency table and the write preconditions, implements it.       *)
(*                                                                         *)
(* Data abstraction: an address list is the set CanonicalAddresses makes   *)
(* of it; a publication error message is the Boolean "there is one"; the   *)
(* updated_at column, on which no code path depends, is left out.          *)
(***************************************************************************)
EXTENDS Integers, FiniteSets

CONSTANTS
    Devices,        \* device identifiers, ordered as ORDER BY device_id does
    Hostnames,      \* host names the identity policy can give a device
    NoHostname,     \* the host name of a device that has no row
    Payloads,       \* address sets a device can ask for; the controller lets none be empty
    LeaseDuration,  \* the controller's lease duration
    MaxTime,        \* bound: the clock stops here
    MaxGeneration   \* bound: no generation exceeds it

ASSUME IntentsAssumption ==
    /\ Devices \subseteq Nat
    /\ NoHostname \notin Hostnames
    /\ {} \notin Payloads
    /\ LeaseDuration \in Nat \ {0}
    /\ MaxTime \in Nat
    /\ MaxGeneration \in Nat \ {0}

VARIABLES
    intents,        \* the table: device -> row
    now             \* the wall clock the controller and the publisher read

intentsVars == <<intents, now>>

AddressSets == Payloads \cup {{}}   \* the empty set: the lease has expired

Intent ==
    [hostname   : Hostnames \cup {NoHostname},
     addresses  : AddressSets,
     generation : Nat,       \* 0: the device has no row
     lease      : Nat,       \* lease_expires_ns
     origin     : Nat,       \* origin_applied_generation
     public     : Nat,       \* public_observed_generation
     failed     : BOOLEAN]   \* last_publication_error is not empty

Absent ==
    [hostname |-> NoHostname, addresses |-> {}, generation |-> 0, lease |-> 0,
     origin |-> 0, public |-> 0, failed |-> FALSE]

Found(d) == intents[d].generation > 0

----------------------------------------------------------------------------
(* Lease expiry.  An expired row keeps its lease and loses its addresses    *)
(* under a generation of its own, so that the deletion is published.        *)

Lapsed(row, t) == row.addresses # {} /\ t >= row.lease

(* Mutant of Expired: the addresses go, the generation stays. *)
ExpiredSameGeneration(row) == [row EXCEPT !.addresses = {}, !.failed = FALSE]

Expired(row) ==
    [row EXCEPT !.addresses = {}, !.generation = @ + 1, !.failed = FALSE]

(* The row as a transaction that runs at time t sees it. *)
Current(row, t) == IF Lapsed(row, t) THEN Expired(row) ELSE row

ExpireLeases(t) ==
    /\ intents' = [d \in Devices |-> Current(intents[d], t)]
    /\ UNCHANGED now

(* A write whose precondition fails still commits the expiry of its row. *)
RealizeExpiry(d, t) ==
    /\ intents' = [intents EXCEPT ![d] = Current(@, t)]
    /\ UNCHANGED now

----------------------------------------------------------------------------
(* A registration.  A row is inserted at generation 1; an existing row      *)
(* moves to the next generation when its addresses change or its lease has  *)
(* run out, and only has its lease extended otherwise.                      *)

Inserted(h, A, t) ==
    [hostname |-> h, addresses |-> A, generation |-> 1,
     lease |-> t + LeaseDuration, origin |-> 0, public |-> 0, failed |-> FALSE]

(* Mutant of Updated: a lease that ran out does not count as a change, and  *)
(* neither does a different address set.                                    *)
UpdatedInPlace(row, A, t) ==
    [row EXCEPT !.addresses = A, !.lease = t + LeaseDuration]

Updated(row, A, t) ==
    IF row.addresses # A \/ t >= row.lease
    THEN [row EXCEPT !.addresses = A, !.lease = t + LeaseDuration,
                     !.generation = @ + 1, !.failed = FALSE]
    ELSE [row EXCEPT !.lease = t + LeaseDuration]

Written(d, h, A, t) ==
    IF Found(d) THEN Updated(Current(intents[d], t), A, t) ELSE Inserted(h, A, t)

(* A row keeps its host name for ever and the column is UNIQUE. *)
HostnameAccepted(d, h) ==
    /\ Found(d) => intents[d].hostname = h
    /\ \A e \in Devices \ {d} : intents[e].hostname # h

(* The bound leaves one generation for the expiry that may follow. *)
Write(d, h, A, t) ==
    /\ HostnameAccepted(d, h)
    /\ Written(d, h, A, t).generation < MaxGeneration
    /\ intents' = [intents EXCEPT ![d] = Written(d, h, A, t)]
    /\ UNCHANGED now

----------------------------------------------------------------------------
(* The publisher's marks.  Each names the generation it is about, which may *)
(* have been replaced since the publisher read it.                          *)

(* Mutant of MarkOriginApplied: WHERE generation = ? is forgotten. *)
MarkOriginAppliedAnyway(d, g) ==
    /\ intents' = [intents EXCEPT ![d].origin = g, ![d].failed = FALSE]
    /\ UNCHANGED now

(* Mutant of MarkOriginApplied: last_publication_error is not cleared. *)
MarkOriginAppliedKeepingError(d, g) ==
    /\ intents' = IF intents[d].generation = g
                  THEN [intents EXCEPT ![d].origin = g]
                  ELSE intents
    /\ UNCHANGED now

MarkOriginApplied(d, g) ==
    /\ intents' = IF intents[d].generation = g
                  THEN [intents EXCEPT ![d].origin = g, ![d].failed = FALSE]
                  ELSE intents
    /\ UNCHANGED now

(* Mutant of MarkPubliclyObserved: origin_applied_generation is not tested. *)
MarkPubliclyObservedEarly(d, g) ==
    /\ intents' = IF intents[d].generation = g
                  THEN [intents EXCEPT ![d].public = g]
                  ELSE intents
    /\ UNCHANGED now

MarkPubliclyObserved(d, g) ==
    /\ intents' = IF intents[d].generation = g /\ intents[d].origin >= g
                  THEN [intents EXCEPT ![d].public = g]
                  ELSE intents
    /\ UNCHANGED now

MarkPublicationError(d, g) ==
    /\ intents' = IF intents[d].generation = g
                  THEN [intents EXCEPT ![d].failed = TRUE]
                  ELSE intents
    /\ UNCHANGED now

(* The publisher's work lists: the first `limit' rows in device order. *)
FirstDevices(S, limit) ==
    {d \in S : Cardinality({e \in S : e < d}) < limit}

OriginPending == {d \in Devices : intents[d].origin < intents[d].generation}

(* Mutant of ObservationPending: deletions are not observed. *)
ObservationPendingPresent ==
    {d \in Devices : /\ intents[d].origin >= intents[d].generation
                     /\ intents[d].public < intents[d].generation
                     /\ intents[d].addresses # {}}

ObservationPending ==
    {d \in Devices : /\ intents[d].origin >= intents[d].generation
                     /\ intents[d].public < intents[d].generation}

ListOriginPending(limit) == FirstDevices(OriginPending, limit)

ListObservationPending(limit) == FirstDevices(ObservationPending, limit)

----------------------------------------------------------------------------
Tick ==
    /\ now < MaxTime
    /\ now' = now + 1
    /\ UNCHANGED intents

(* A transaction runs with the time its caller read before it began, so it  *)
(* may run at any time up to now.                                           *)
Times == 0 .. now

(* The database is empty, or holds rows an earlier release left. *)
IntentsInit ==
    /\ intents \in [Devices -> {Absent} \cup
                       {Inserted(h, A, 0) : h \in Hostnames, A \in Payloads}]
    /\ \A d, e \in Devices :
          d # e /\ Found(d) => intents[d].hostname # intents[e].hostname
    /\ \A d \in Devices : intents[d].generation < MaxGeneration
    /\ now = 0

IntentsNext ==
    \/ \E d \in Devices, h \in Hostnames, A \in Payloads, t \in Times :
          Write(d, h, A, t)
    \/ \E d \in Devices, t \in Times : RealizeExpiry(d, t)
    \/ \E t \in Times : ExpireLeases(t)
    \/ \E d \in Devices : \E g \in 1 .. intents[d].generation :
          \/ MarkOriginApplied(d, g)
          \/ MarkPubliclyObserved(d, g)
          \/ MarkPublicationError(d, g)
    \/ Tick

IntentsSpec == IntentsInit /\ [][IntentsNext]_intentsVars

----------------------------------------------------------------------------
(* Type correctness of the table and the clock. *)
IntentsTypeOK ==
    /\ intents \in [Devices -> Intent]
    /\ now \in 0 .. MaxTime

(* Publication progress never runs ahead: what is called publicly observed  *)
(* was applied to the origin, and nothing is called applied that was not    *)
(* asked for.  Marks arrive late, for generations that expiry or a write    *)
(* has replaced meanwhile (sqlite.go, the WHERE clauses of the three        *)
(* mark statements).                                                        *)
ProgressOrdered ==
    \A d \in Devices :
        /\ intents[d].public <= intents[d].origin
        /\ intents[d].origin <= intents[d].generation

(* A generation is the name of one address set: no step, of the controller, *)
(* of expiry or of the publisher, changes the addresses of a row and leaves *)
(* its generation, and generations are never taken back or reused.          *)
GenerationNamesAddresses ==
    [][\A d \in Devices :
         /\ intents'[d].generation >= intents[d].generation
         /\ intents'[d].generation = intents[d].generation
              => intents'[d].addresses = intents[d].addresses]_intentsVars

(* Publication progress is never taken back, whatever order writes, expiry  *)
(* and the publisher's marks arrive in.                                     *)
ProgressKept ==
    [][\A d \in Devices :
         /\ intents'[d].origin >= intents[d].origin
         /\ intents'[d].public >= intents[d].public]_intentsVars
============================================================================

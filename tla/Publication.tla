---------------------------- MODULE Publication ----------------------------
(***************************************************************************)
(* The publisher (dns/internal/publisher, dns/internal/dnswriter): it      *)
(* expires leases, replaces the address RRsets of every row that is not    *)
(* applied at the hidden primary P0, and compares what the public          *)
(* authorities answer with the rows that are applied but not observed.     *)
(*                                                                         *)
(* One pass of RunOnce is a sequence of steps.  Between any two of them    *)
(* the controller may write the same rows, P0 may handle an update,        *)
(* a secondary may finish a zone transfer, and the publisher may crash.    *)
(* The rows of a work list are read once, when the list is made.           *)
(*                                                                         *)
(* P0, the secondaries and the network are not part of the repository:     *)
(* they are modelled by what the publisher sees of them.  An RFC 2136      *)
(* update is applied as a whole or not at all; the publisher may give up   *)
(* on an update that P0 handles later.                                     *)
(***************************************************************************)
EXTENDS Intents, Sequences, FiniteSetsExt

CONSTANTS
    ZoneHostnames,   \* the host names inside the zone the publisher updates
    IPv4,            \* the addresses published as A; the others go to AAAA
    NumServers,      \* the number of public authorities; 0: there is no observer
    BatchSize,       \* the length of a work list
    LateUpdates,     \* may P0 handle an update after one that was sent later?
    MaxWire,         \* bound: updates sent and not yet handled
    MaxCrashes       \* bound: publisher crashes

ASSUME PublicationAssumption ==
    /\ ZoneHostnames \subseteq Hostnames
    /\ NumServers \in Nat
    /\ BatchSize \in Nat \ {0}
    /\ LateUpdates \in BOOLEAN
    /\ MaxWire \in Nat \ {0}
    /\ MaxCrashes \in Nat

VARIABLES
    phase,      \* where the publisher is in RunOnce
    batch,      \* the rest of its work list: device -> the row it read
    queries,    \* DNS questions answered as expected for the current row
    crashes,    \* publisher crashes so far
    wire,       \* updates sent and not handled, oldest first
    zone,       \* P0: host name -> addresses
    view,       \* public authority -> the zone it serves
    transfer    \* public authority -> the zone contents it is transferring

publisherVars == <<phase, batch, queries, crashes>>
dnsVars == <<wire, zone, view, transfer>>
vars == <<intents, now, phase, batch, queries, crashes, wire, zone, view, transfer>>

Servers == 1 .. NumServers
Phases == {"idle", "listOrigin", "publish", "await", "applied", "failed",
           "listObservation", "observe", "observed"}
RRsets == [Hostnames -> AddressSets]

Snapshot(S) == [d \in S |-> intents[d]]

(* ORDER BY device_id *)
First == Min(DOMAIN batch)
Rest == [d \in DOMAIN batch \ {First} |-> batch[d]]

----------------------------------------------------------------------------
(* RunOnce: expire leases, then list what is not applied at the origin.     *)
(* Static leadership is always acquired.  A failing database call is        *)
(* reported and the pass goes on with what follows it.                      *)

StartPass ==
    /\ phase = "idle"
    /\ \/ ExpireLeases(now)
       \/ UNCHANGED <<intents, now>>
    /\ phase' = "listOrigin"
    /\ UNCHANGED <<batch, queries, crashes, dnsVars>>

StartObservation == IF NumServers = 0 THEN "idle" ELSE "listObservation"

ListOrigin ==
    /\ phase = "listOrigin"
    /\ \/ batch' = Snapshot(ListOriginPending(BatchSize)) /\ phase' = "publish"
       \/ batch' = batch /\ phase' = StartObservation
    /\ UNCHANGED <<intents, now, queries, crashes, dnsVars>>

(* ReplaceAddressRRsets, up to the exchange.  A host name outside the zone  *)
(* fails without one.                                                       *)
Publish ==
    /\ phase = "publish"
    /\ DOMAIN batch # {}
    /\ LET row == batch[First]
       IN  IF row.hostname \in ZoneHostnames
           THEN /\ Len(wire) < MaxWire
                /\ wire' = Append(wire, [hostname |-> row.hostname,
                                         addresses |-> row.addresses,
                                         live |-> TRUE])
                /\ phase' = "await"
           ELSE /\ phase' = "failed"
                /\ UNCHANGED wire
    /\ UNCHANGED <<intents, now, batch, queries, crashes, zone, view, transfer>>

(* The exchange times out, or its answer is lost or not authentic. *)
GiveUp ==
    /\ phase \in {"await", "applied"}
    /\ phase' = "failed"
    /\ wire' = [i \in DOMAIN wire |-> [wire[i] EXCEPT !.live = FALSE]]
    /\ UNCHANGED <<intents, now, batch, queries, crashes, zone, view, transfer>>

(* Mutant of RecordApplied: the newest generation is marked, not the one    *)
(* that was published.                                                      *)
RecordAppliedNewest ==
    /\ phase = "applied"
    /\ MarkOriginApplied(First, intents[First].generation)
    /\ batch' = Rest
    /\ phase' = "publish"
    /\ UNCHANGED <<queries, crashes, dnsVars>>

RecordApplied ==
    /\ phase = "applied"
    /\ \/ MarkOriginApplied(First, batch[First].generation)
       \/ UNCHANGED <<intents, now>>
    /\ batch' = Rest
    /\ phase' = "publish"
    /\ UNCHANGED <<queries, crashes, dnsVars>>

(* Mutant of RecordFailure: the first failure ends the pass. *)
RecordFailureAndStop ==
    /\ phase = "failed"
    /\ MarkPublicationError(First, batch[First].generation)
    /\ batch' = [d \in {} |-> Absent]
    /\ phase' = StartObservation
    /\ UNCHANGED <<queries, crashes, dnsVars>>

RecordFailure ==
    /\ phase = "failed"
    /\ \/ MarkPublicationError(First, batch[First].generation)
       \/ UNCHANGED <<intents, now>>
    /\ batch' = Rest
    /\ phase' = "publish"
    /\ UNCHANGED <<queries, crashes, dnsVars>>

EndPublish ==
    /\ phase = "publish"
    /\ DOMAIN batch = {}
    /\ phase' = StartObservation
    /\ UNCHANGED <<intents, now, batch, queries, crashes, dnsVars>>

----------------------------------------------------------------------------
(* The second half of RunOnce: observation.  Each authority is asked for A  *)
(* and then for AAAA, one after the other; the first answer that differs    *)
(* ends the observation of the row.                                         *)

ListObservation ==
    /\ phase = "listObservation"
    /\ queries' = 0
    /\ \/ /\ batch' = Snapshot(ListObservationPending(BatchSize))
          /\ phase' = "observe"
       \/ /\ batch' = batch
          /\ phase' = "idle"
    /\ UNCHANGED <<intents, now, crashes, dnsVars>>

RRset(addresses, question) ==
    IF question % 2 = 0 THEN addresses \cap IPv4 ELSE addresses \ IPv4

Answers(question, row) ==
    LET server == question \div 2 + 1
    IN  RRset(view[server][row.hostname], question) = RRset(row.addresses, question)

(* Mutant of QueryAgrees: one question too many. *)
QueryAgreesOneMore ==
    /\ phase = "observe"
    /\ DOMAIN batch # {}
    /\ Answers(queries, batch[First])
    /\ queries' = queries + 1
    /\ phase' = IF queries = 2 * NumServers THEN "observed" ELSE "observe"
    /\ UNCHANGED <<intents, now, batch, crashes, dnsVars>>

QueryAgrees ==
    /\ phase = "observe"
    /\ DOMAIN batch # {}
    /\ Answers(queries, batch[First])
    /\ queries' = queries + 1
    /\ phase' = IF queries + 1 = 2 * NumServers THEN "observed" ELSE "observe"
    /\ UNCHANGED <<intents, now, batch, crashes, dnsVars>>

(* Mutant of QueryFails: the authority that differs is passed over. *)
QueryFailsOver ==
    /\ phase = "observe"
    /\ DOMAIN batch # {}
    /\ queries' = 2 * (queries \div 2 + 1)
    /\ phase' = IF queries' = 2 * NumServers THEN "observed" ELSE "observe"
    /\ UNCHANGED <<intents, now, batch, crashes, dnsVars>>

(* A different answer, one that is not authoritative, or none. *)
QueryFails ==
    /\ phase = "observe"
    /\ DOMAIN batch # {}
    /\ queries' = 0
    /\ batch' = Rest
    /\ UNCHANGED <<intents, now, phase, crashes, dnsVars>>

RecordObserved ==
    /\ phase = "observed"
    /\ \/ MarkPubliclyObserved(First, batch[First].generation)
       \/ UNCHANGED <<intents, now>>
    /\ queries' = 0
    /\ batch' = Rest
    /\ phase' = "observe"
    /\ UNCHANGED <<crashes, dnsVars>>

EndPass ==
    /\ phase = "observe"
    /\ DOMAIN batch = {}
    /\ phase' = "idle"
    /\ UNCHANGED <<intents, now, batch, queries, crashes, dnsVars>>

(* The process dies anywhere and systemd starts it again. *)
Crash ==
    /\ crashes < MaxCrashes
    /\ phase # "idle"
    /\ crashes' = crashes + 1
    /\ phase' = "idle"
    /\ batch' = [d \in {} |-> Absent]
    /\ queries' = 0
    /\ wire' = [i \in DOMAIN wire |-> [wire[i] EXCEPT !.live = FALSE]]
    /\ UNCHANGED <<intents, now, zone, view, transfer>>

----------------------------------------------------------------------------
(* P0 and the public authorities *)

Handled == IF LateUpdates THEN DOMAIN wire ELSE {1} \cap DOMAIN wire

Without(i) == SubSeq(wire, 1, i - 1) \o SubSeq(wire, i + 1, Len(wire))

ApplyUpdate(i) ==
    /\ zone' = [zone EXCEPT ![wire[i].hostname] = wire[i].addresses]
    /\ phase' = IF wire[i].live THEN "applied" ELSE phase
    /\ wire' = Without(i)
    /\ UNCHANGED <<intents, now, batch, queries, crashes, view, transfer>>

(* Refused, or lost with its connection. *)
RefuseUpdate(i) ==
    /\ phase' = IF wire[i].live THEN "failed" ELSE phase
    /\ wire' = Without(i)
    /\ UNCHANGED <<intents, now, batch, queries, crashes, zone, view, transfer>>

StartTransfer(s) ==
    /\ transfer[s] = {}
    /\ view[s] # zone
    /\ transfer' = [transfer EXCEPT ![s] = {zone}]
    /\ UNCHANGED <<intents, now, publisherVars, wire, zone, view>>

FinishTransfer(s) ==
    /\ transfer[s] # {}
    /\ view' = [view EXCEPT ![s] = CHOOSE z \in transfer[s] : TRUE]
    /\ transfer' = [transfer EXCEPT ![s] = {}]
    /\ UNCHANGED <<intents, now, publisherVars, wire, zone>>

----------------------------------------------------------------------------
(* The controller's transactions, and time *)

Register(d) ==
    /\ \E h \in Hostnames, A \in Payloads, t \in Times : Write(d, h, A, t)
    /\ UNCHANGED <<publisherVars, dnsVars>>

ControllerExpiry ==
    /\ \E t \in Times : ExpireLeases(t) \/ \E d \in Devices : RealizeExpiry(d, t)
    /\ UNCHANGED <<publisherVars, dnsVars>>

Clock ==
    /\ Tick
    /\ UNCHANGED <<publisherVars, dnsVars>>

Init ==
    /\ IntentsInit
    /\ phase = "idle"
    /\ batch = [d \in {} |-> Absent]
    /\ queries = 0
    /\ crashes = 0
    /\ wire = << >>
    /\ zone = [h \in Hostnames |-> {}]
    /\ view = [s \in Servers |-> zone]
    /\ transfer = [s \in Servers |-> {}]

PublisherStep ==
    \/ StartPass \/ ListOrigin \/ Publish \/ RecordApplied \/ RecordFailure
    \/ EndPublish \/ ListObservation \/ RecordObserved \/ EndPass
    \/ QueryAgrees \/ QueryFails

Next ==
    \/ PublisherStep
    \/ GiveUp
    \/ Crash
    \/ \E i \in Handled : ApplyUpdate(i) \/ RefuseUpdate(i)
    \/ \E s \in Servers : StartTransfer(s) \/ FinishTransfer(s)
    \/ \E d \in Devices : Register(d)
    \/ ControllerExpiry
    \/ Clock

Spec == Init /\ [][Next]_vars

----------------------------------------------------------------------------
(* Fairness.  The publisher runs: systemd restarts it and its ticker fires. *)
(* P0 disposes of what it received.  Whatever may fail, an exchange, an     *)
(* answer, a query or a database call, does not fail every time.            *)

Working(d) == d \in DOMAIN batch /\ First = d

ApplyLive(d) ==
    /\ phase = "await"
    /\ Working(d)
    /\ \E i \in Handled : wire[i].live /\ ApplyUpdate(i)

Fairness ==
    /\ WF_vars(PublisherStep)
    /\ WF_vars(\E i \in Handled : ApplyUpdate(i) \/ RefuseUpdate(i))
    /\ SF_vars(StartPass /\ ExpireLeases(now))
    /\ SF_vars(ListOrigin /\ phase' = "publish")
    /\ \A d \in Devices :
          /\ SF_vars(ApplyLive(d))
          /\ SF_vars(Working(d) /\ RecordApplied /\ MarkOriginApplied(d, batch[d].generation))

ObservationFairness ==
    /\ \A s \in Servers : WF_vars(StartTransfer(s)) /\ WF_vars(FinishTransfer(s))
    /\ SF_vars(ListObservation /\ phase' = "observe")
    /\ \A d \in Devices :
          /\ \A q \in 0 .. 2 * NumServers - 1 :
                SF_vars(Working(d) /\ queries = q /\ QueryAgrees)
          /\ SF_vars(Working(d) /\ RecordObserved /\ MarkPubliclyObserved(d, batch[d].generation))

FairSpec == Spec /\ Fairness /\ ObservationFairness

----------------------------------------------------------------------------
(* Type correctness of the publisher, P0 and the public authorities. *)
TypeOK ==
    /\ IntentsTypeOK
    /\ phase \in Phases
    /\ DOMAIN batch \subseteq Devices
    /\ \A d \in DOMAIN batch : batch[d] \in Intent
    /\ queries \in 0 .. 2 * NumServers
    /\ phase = "observe" => queries < 2 * NumServers
    /\ crashes \in 0 .. MaxCrashes
    /\ Len(wire) <= MaxWire
    /\ \A i \in DOMAIN wire :
          wire[i] \in [hostname : ZoneHostnames, addresses : AddressSets, live : BOOLEAN]
    /\ zone \in RRsets
    /\ view \in [Servers -> RRsets]
    /\ \A s \in Servers : transfer[s] \subseteq RRsets

(* DNS is a projection of the rows: what the table calls applied is what P0 *)
(* serves, through crashes, timeouts, answers that are lost and writes that *)
(* replace a row while its update is under way.  It holds when P0 handles   *)
(* the publisher's updates in the order they were sent.                     *)
OriginReflectsStore ==
    \A d \in Devices :
        Found(d) /\ intents[d].origin = intents[d].generation
            => zone[intents[d].hostname] = intents[d].addresses

(* A publication error is only shown for a generation that is still to be   *)
(* applied: a success clears it, and no failure recorded after the row has  *)
(* moved on or after a restart shadows a success.                           *)
ErrorMeansPending ==
    \A d \in Devices : intents[d].failed => intents[d].origin < intents[d].generation

(* Publication resumes (architecture.md): every generation of a row whose   *)
(* name is in the zone is applied at P0, or replaced by a newer one, after  *)
(* any crash, timeout or refusal, though other rows may fail for ever.      *)
(* These must be fewer than BatchSize, as in the instance checked: the work *)
(* list is cut in device order, and one full of rows that fail for ever     *)
(* never lets another row in.                                               *)
EveryGenerationApplied ==
    \A d \in Devices, g \in 1 .. MaxGeneration :
        (intents[d].generation = g /\ intents[d].hostname \in ZoneHostnames)
            ~> (intents[d].generation > g \/ intents[d].origin = g)

(* A device that stops renewing disappears: once a lease has run out, the   *)
(* name loses its addresses at P0, or the lease is taken again.             *)
LapsedRemoved ==
    \A d \in Devices :
        (Lapsed(intents[d], now) /\ intents[d].hostname \in ZoneHostnames)
            ~> (intents[d].lease > now \/ \A h \in ZoneHostnames :
                    intents[d].hostname = h => zone[h] = {})

(* Every generation that is not replaced is at last reported as publicly    *)
(* observed, for a device whose name is in the zone.                        *)
EveryGenerationObserved ==
    \A d \in Devices, g \in 1 .. MaxGeneration :
        (intents[d].generation = g /\ intents[d].hostname \in ZoneHostnames)
            ~> (intents[d].generation > g \/ intents[d].public = g)
============================================================================

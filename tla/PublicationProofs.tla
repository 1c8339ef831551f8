------------------------- MODULE PublicationProofs -------------------------
(***************************************************************************)
(* Proofs about the publisher, P0 and the public authorities (module       *)
(* Publication), for any number of devices, authorities and crashes, any   *)
(* work list and any number of updates on their way.                       *)
(*                                                                         *)
(* The publisher works from a copy of its rows that may be old.  What is   *)
(* known of the copy (BatchOK) is enough for every mark it makes to be one *)
(* the table expects and for every error it records to be about something  *)
(* still to be applied, however P0 treats the updates.  That the zone is   *)
(* what the table says needs P0 to handle updates in the order they were   *)
(* sent (OriginInv).                                                       *)
(***************************************************************************)
EXTENDS Publication, IntentsProofs, WellFoundedInduction

Update == [hostname : ZoneHostnames, addresses : AddressSets, live : BOOLEAN]

(* Type correctness of all but the table. *)
PublisherTyped ==
    /\ phase \in Phases
    /\ DOMAIN batch \subseteq Devices
    /\ queries \in 0 .. 2 * NumServers
    /\ phase = "observe" => queries < 2 * NumServers
    /\ crashes \in 0 .. MaxCrashes
    /\ wire \in Seq(Update)
    /\ Len(wire) <= MaxWire
    /\ zone \in RRsets
    /\ view \in [Servers -> RRsets]
    /\ transfer \in [Servers -> SUBSET RRsets]

(* The phases in which the work list is of rows to be applied. *)
Publishing == {"publish", "await", "applied", "failed"}

(* A row of the work list was read from the table, and may be old by now.   *)
(* Only the publisher marks rows as applied, and it drops the ones it       *)
(* marks: so what is on the list is not applied, whatever its generation    *)
(* has become.                                                              *)
BatchOK(d) ==
    /\ batch[d] \in Intent
    /\ batch[d].generation > 0
    /\ batch[d].hostname = intents[d].hostname
    /\ batch[d].generation <= intents[d].generation
    /\ batch[d].generation = intents[d].generation
         => batch[d].addresses = intents[d].addresses
    /\ phase \in Publishing => intents[d].origin < intents[d].generation

(* The publisher works on a row where it says so, waits for the update it   *)
(* sent last, the only live one, and observes only if there is something to *)
(* ask.                                                                     *)
WorkOK ==
    /\ phase \in {"await", "applied", "failed", "observed"} => DOMAIN batch # {}
    /\ phase \in {"listObservation", "observe", "observed"} => NumServers > 0
    /\ \A i \in DOMAIN wire : wire[i].live => phase = "await" /\ i = Len(wire)

(* The inductive invariant, whatever P0 does. *)
PublicationInv ==
    /\ NamesInv
    /\ PublisherTyped
    /\ \A d \in DOMAIN batch : BatchOK(d)
    /\ WorkOK
    /\ ErrorMeansPending

(* The strengthening of OriginReflectsStore.  The live update holds the row *)
(* being published, and being the last one leaves nothing on the wire when  *)
(* it has been applied; and no update on the wire is about a row that is    *)
(* applied.                                                                 *)
LiveUpdate ==
    \A i \in DOMAIN wire : wire[i].live =>
        /\ wire[i].hostname = batch[First].hostname
        /\ wire[i].addresses = batch[First].addresses

JustApplied ==
    phase = "applied" =>
        /\ wire = << >>
        /\ zone[batch[First].hostname] = batch[First].addresses

NothingStale ==
    \A i \in DOMAIN wire, d \in Devices :
        Found(d) /\ wire[i].hostname = intents[d].hostname
           => intents[d].origin < intents[d].generation

OriginInv ==
    /\ PublicationInv
    /\ LiveUpdate
    /\ JustApplied
    /\ NothingStale
    /\ OriginReflectsStore

----------------------------------------------------------------------------
(* The work list *)

(* A set of devices has a first one. *)
LEMMA FirstDevice ==
    ASSUME NEW S, S \subseteq Nat, S # {}
    PROVE  Min(S) \in S
  <1>1. PICK x \in S : \A y \in S : ~(<<y, x>> \in OpToRel(<, Nat))
    BY NatLessThanWellFounded, WFMin, Zenon
  <1>2. \A y \in S : ~(y < x)
    BY <1>1 DEF OpToRel
  <1>3. \A y \in S : x <= y
    BY <1>2
  <1>4. \E z \in S : \A y \in S : z <= y
    BY <1>3
  <1>. QED
    BY <1>4 DEF Min

(* The row at hand is on the list, and is dropped from it. *)
LEMMA FirstOfBatch ==
    ASSUME PublicationInv
    PROVE  /\ DOMAIN batch # {} => First \in DOMAIN batch
           /\ DOMAIN Rest = DOMAIN batch \ {First}
           /\ \A d \in DOMAIN Rest : Rest[d] = batch[d]
  <1>1. DOMAIN batch \subseteq Nat
    BY IntentsAssumption DEF PublicationInv, PublisherTyped
  <1>. QED
    BY <1>1, FirstDevice DEF First, Rest

----------------------------------------------------------------------------
(* What the controller's transactions and expiry do to a row: they never    *)
(* mark it, and leave an error only with the generation it is of.           *)
Quietly(new, row) ==
    /\ new.origin = row.origin
    /\ new.public = row.public
    /\ new.failed => row.failed /\ new.generation = row.generation

(* The row a transaction sees. *)
LEMMA CurrentQuietly ==
    ASSUME NEW row \in Intent, NEW t
    PROVE  Quietly(Current(row, t), row)
  BY DEF Quietly, Current, Expired, Intent

(* The row a registration leaves. *)
LEMMA UpdatedQuietly ==
    ASSUME NEW row \in Intent, NEW A, NEW t
    PROVE  Quietly(Updated(row, A, t), row)
  BY DEF Quietly, Updated, Intent

(* The same, from the row that was stored. *)
LEMMA WrittenQuietly ==
    ASSUME NEW d \in Devices, NEW h \in Hostnames, NEW A \in Payloads, NEW t \in Nat,
           RowOK(intents[d])
    PROVE  Quietly(Written(d, h, A, t), intents[d])
  <1>1. CASE Found(d)
    <2>. DEFINE row == Current(intents[d], t)
    <2>1. RowOK(row) /\ Quietly(row, intents[d])
      BY CurrentRow, CurrentQuietly DEF RowOK
    <2>2. Quietly(Updated(row, A, t), row)
      BY <2>1, UpdatedQuietly DEF RowOK
    <2>. QED
      BY <1>1, <2>1, <2>2 DEF Written, Quietly
  <1>2. CASE ~Found(d)
    <2>1. intents[d].origin = 0 /\ intents[d].public = 0
      BY <1>2 DEF Found, RowOK, Intent
    <2>. QED
      BY <1>2, <2>1 DEF Written, Inserted, Quietly
  <1>. QED
    BY <1>1, <1>2

(* What the publisher does not do. *)
ControllerNext ==
    \/ \E d \in Devices, h \in Hostnames, A \in Payloads, t \in Times : Write(d, h, A, t)
    \/ \E d \in Devices, t \in Times : RealizeExpiry(d, t)
    \/ \E t \in Times : ExpireLeases(t)
    \/ UNCHANGED intents

(* Every row but a new one keeps its name. *)
LEMMA NamesFixed ==
    ASSUME NamesInv, [IntentsNext]_intentsVars, NEW e \in Devices, Found(e)
    PROVE  intents'[e].hostname = intents[e].hostname
  <1>1. Times \subseteq Nat /\ intents \in [Devices -> Intent]
    BY IntentsAssumption DEF NamesInv, TableInv, IntentsTypeOK, Times
  <1>2. CASE QuietNext
    BY <1>2, QuietKeepsNames DEF KeepsName
  <1>3. ASSUME NEW d \in Devices, NEW h \in Hostnames, NEW A \in Payloads, NEW t \in Times,
               Write(d, h, A, t)
        PROVE  intents'[e].hostname = intents[e].hostname
    <2>1. RowOK(intents[d]) /\ t \in Nat
      BY <1>1, InvRow DEF NamesInv
    <2>2. Written(d, h, A, t).hostname = h
      BY <1>3, <2>1, WrittenRow DEF Write
    <2>. QED
      BY <1>1, <1>3, <2>2 DEF Write, HostnameAccepted
  <1>. QED
    BY <1>2, <1>3, WriteOrQuiet

(* What the controller does to a row. *)
LEMMA ControllerRow ==
    ASSUME NamesInv, ControllerNext, NEW e \in Devices
    PROVE  Quietly(intents'[e], intents[e])
  <1>1. Times \subseteq Nat /\ intents \in [Devices -> Intent] /\ RowOK(intents[e])
    BY IntentsAssumption, InvRow DEF NamesInv, TableInv, IntentsTypeOK, Times
  <1>2. Quietly(intents[e], intents[e])
    BY DEF Quietly
  <1>3. ASSUME NEW d \in Devices, NEW h \in Hostnames, NEW A \in Payloads, NEW t \in Times,
               Write(d, h, A, t)
        PROVE  Quietly(intents'[e], intents[e])
    <2>1. CASE e = d
      <3>1. Quietly(Written(d, h, A, t), intents[d])
        BY <1>1, <2>1, WrittenQuietly
      <3>. QED
        BY <1>1, <1>3, <2>1, <3>1 DEF Write
    <2>2. CASE e # d
      BY <1>1, <1>2, <1>3, <2>2 DEF Write
    <2>. QED
      BY <2>1, <2>2
  <1>4. ASSUME NEW t \in Times, ExpireLeases(t) \/ \E d \in Devices : RealizeExpiry(d, t)
        PROVE  Quietly(intents'[e], intents[e])
    <2>1. intents'[e] = Current(intents[e], t) \/ intents'[e] = intents[e]
      BY <1>1, <1>4 DEF ExpireLeases, RealizeExpiry
    <2>. QED
      BY <1>1, <1>2, <2>1, CurrentQuietly
  <1>5. CASE UNCHANGED intents
    BY <1>2, <1>5
  <1>. QED
    BY <1>3, <1>4, <1>5 DEF ControllerNext

----------------------------------------------------------------------------
(* The wire *)

(* Giving up on the updates under way leaves them where they are. *)
LEMMA WireGivenUp ==
    ASSUME wire \in Seq(Update),
           wire' = [i \in DOMAIN wire |-> [wire[i] EXCEPT !.live = FALSE]]
    PROVE  /\ wire' \in Seq(Update)
           /\ Len(wire') = Len(wire) /\ DOMAIN wire' = DOMAIN wire
           /\ \A i \in DOMAIN wire : ~wire'[i].live /\ wire'[i].hostname = wire[i].hostname
  <1>1. \A i \in DOMAIN wire : wire[i] \in Update
    OBVIOUS
  <1>2. ASSUME NEW i \in DOMAIN wire
        PROVE  /\ wire'[i] \in Update /\ ~wire'[i].live
               /\ wire'[i].hostname = wire[i].hostname
    BY <1>1 DEF Update
  <1>3. DOMAIN wire = 1 .. Len(wire) /\ Len(wire) \in Nat
    OBVIOUS
  <1>4. wire' \in [1 .. Len(wire) -> Update]
    BY <1>2, <1>3
  <1>. QED
    BY <1>2, <1>3, <1>4

(* What is left when P0 has handled one. *)
LEMMA WireHandled ==
    ASSUME wire \in Seq(Update), NEW i \in DOMAIN wire
    PROVE  /\ Without(i) \in Seq(Update)
           /\ Len(Without(i)) = Len(wire) - 1
           /\ \A j \in DOMAIN Without(i) : \E k \in DOMAIN wire \ {i} :
                 Without(i)[j] = wire[k] /\ (k = Len(wire) => j = Len(Without(i)))
  <1>1. i \in Nat /\ i >= 1 /\ i <= Len(wire) /\ Len(wire) \in Nat
    OBVIOUS
  <1>. DEFINE a == SubSeq(wire, 1, i - 1)
              b == SubSeq(wire, i + 1, Len(wire))
  <1>2. a \in Seq(Update) /\ Len(a) = i - 1 /\ \A j \in 1 .. i - 1 : a[j] = wire[j]
    BY <1>1
  <1>3. b \in Seq(Update) /\ Len(b) = Len(wire) - i /\ \A j \in 1 .. Len(wire) - i : b[j] = wire[i + j]
    BY <1>1
  <1>4. Without(i) = a \o b
    BY DEF Without
  <1>. HIDE DEF a, b
  <1>5. Without(i) \in Seq(Update) /\ Len(Without(i)) = Len(wire) - 1
    BY <1>1, <1>2, <1>3, <1>4
  <1>6. ASSUME NEW j \in DOMAIN Without(i)
        PROVE  \E k \in DOMAIN wire \ {i} :
                 Without(i)[j] = wire[k] /\ (k = Len(wire) => j = Len(Without(i)))
    <2>1. j \in Nat /\ j >= 1 /\ j <= Len(wire) - 1
      BY <1>1, <1>5
    <2>2. CASE j <= i - 1
      <3>1. Without(i)[j] = wire[j]
        BY <1>1, <1>2, <1>3, <1>4, <2>1, <2>2
      <3>. QED
        BY <1>1, <2>1, <2>2, <3>1
    <2>3. CASE j > i - 1
      <3>1. j - (i - 1) \in 1 .. Len(wire) - i
        BY <1>1, <2>1, <2>3
      <3>2. Without(i)[j] = b[j - (i - 1)]
        BY <1>1, <1>2, <1>3, <1>4, <2>1, <2>3
      <3>3. Without(i)[j] = wire[i + (j - (i - 1))]
        BY <1>3, <3>1, <3>2
      <3>4. i + (j - (i - 1)) = j + 1 /\ j + 1 \in DOMAIN wire /\ j + 1 # i
        BY <1>1, <2>1, <2>3
      <3>5. j + 1 = Len(wire) => j = Len(Without(i))
        BY <1>1, <1>5, <2>1
      <3>. QED
        BY <3>3, <3>4, <3>5
    <2>. QED
      BY <1>1, <2>1, <2>2, <2>3
  <1>. QED
    BY <1>5, <1>6

----------------------------------------------------------------------------
(* Every step is a step of the table, or none of it. *)

(* A mark is about a generation the row has had. *)
LEMMA MarksExpected ==
    ASSUME PublicationInv, phase \in {"applied", "failed", "observed"}
    PROVE  /\ First \in DOMAIN batch /\ First \in Devices
           /\ batch[First].generation \in 1 .. intents[First].generation
           /\ batch[First].generation \in Nat
           /\ BatchOK(First)
  <1>1. First \in DOMAIN batch /\ First \in Devices
    BY FirstOfBatch DEF PublicationInv, PublisherTyped, WorkOK
  <1>2. BatchOK(First)
    BY <1>1 DEF PublicationInv
  <1>3. intents[First].generation \in Nat
    BY <1>1 DEF PublicationInv, NamesInv, TableInv, IntentsTypeOK, Intent
  <1>4. batch[First].generation \in Nat
    BY <1>2 DEF BatchOK, Intent
  <1>. QED
    BY <1>1, <1>2, <1>3, <1>4 DEF BatchOK

(* An action of the publisher or of a server that leaves the table alone. *)
ServerNext ==
    \/ ListOrigin \/ Publish \/ EndPublish \/ ListObservation \/ EndPass
    \/ QueryAgrees \/ QueryFails \/ GiveUp \/ Crash
    \/ \E i \in Handled : ApplyUpdate(i) \/ RefuseUpdate(i)
    \/ \E s \in Servers : StartTransfer(s) \/ FinishTransfer(s)

(* ... says so. *)
LEMMA TableAlone ==
    ASSUME ServerNext
    PROVE  UNCHANGED <<intents, now>>
  BY DEF ServerNext, ListOrigin, Publish, EndPublish, ListObservation, EndPass, QueryAgrees,
         QueryFails, GiveUp, Crash, ApplyUpdate, RefuseUpdate, StartTransfer, FinishTransfer

(* Every step is a step of the table, or none of it. *)
LEMMA PublicationStepIsTableStep ==
    ASSUME PublicationInv, [Next]_vars
    PROVE  [IntentsNext]_intentsVars
  <1>1. now \in Times
    BY IntentsAssumption DEF PublicationInv, NamesInv, TableInv, IntentsTypeOK, Times
  <1>2. CASE StartPass
    BY <1>1, <1>2 DEF StartPass, IntentsNext, intentsVars
  <1>3. CASE RecordApplied
    BY <1>3, MarksExpected DEF RecordApplied, IntentsNext, intentsVars
  <1>4. CASE RecordFailure
    BY <1>4, MarksExpected DEF RecordFailure, IntentsNext, intentsVars
  <1>5. CASE RecordObserved
    BY <1>5, MarksExpected DEF RecordObserved, IntentsNext, intentsVars
  <1>6. CASE (\E d \in Devices : Register(d)) \/ ControllerExpiry \/ Clock
    BY <1>6 DEF Register, ControllerExpiry, Clock, IntentsNext
  <1>7. CASE ServerNext
    BY <1>7, TableAlone DEF intentsVars
  <1>8. CASE UNCHANGED vars
    BY <1>8 DEF vars, intentsVars
  <1>. QED
    BY <1>2, <1>3, <1>4, <1>5, <1>6, <1>7, <1>8 DEF Next, PublisherStep, ServerNext

(* What every step does to the table. *)
LEMMA TableKept ==
    ASSUME PublicationInv, [Next]_vars
    PROVE  /\ NamesInv'
           /\ \A e \in Devices : /\ Follows(intents'[e], intents[e])
                                 /\ Found(e) => intents'[e].hostname = intents[e].hostname
           /\ \A e \in Devices : /\ intents[e].generation \in Nat /\ intents'[e].generation \in Nat
                                 /\ intents[e].origin \in Nat /\ intents'[e].origin \in Nat
                                 /\ intents[e].origin <= intents[e].generation
  <1>1. [IntentsNext]_intentsVars
    BY PublicationStepIsTableStep
  <1>2. NamesInv' /\ \A e \in Devices : Follows(intents'[e], intents[e])
    BY <1>1, NamesStep, TableStep DEF PublicationInv, NamesInv
  <1>3. \A e \in Devices : Found(e) => intents'[e].hostname = intents[e].hostname
    BY <1>1, NamesFixed DEF PublicationInv
  <1>4. \A e \in Devices : RowOK(intents[e]) /\ intents'[e] \in Intent
    BY <1>2, InvRow DEF PublicationInv, NamesInv, TableInv, IntentsTypeOK
  <1>. QED
    BY <1>2, <1>3, <1>4 DEF RowOK, Intent

(* A row stays on the list while its own row moves on. *)
LEMMA BatchKept ==
    ASSUME PublicationInv, [Next]_vars, NEW d \in DOMAIN batch, batch'[d] = batch[d],
           phase' \in Publishing => intents'[d].origin < intents'[d].generation
    PROVE  BatchOK(d)'
  <1>1. d \in Devices /\ BatchOK(d)
    BY DEF PublicationInv, PublisherTyped
  <1>2. batch[d].generation \in Nat
    BY <1>1 DEF BatchOK, Intent
  <1>3. Found(d)
    BY <1>1, <1>2, TableKept DEF BatchOK, Found
  <1>4. /\ Follows(intents'[d], intents[d]) /\ intents'[d].hostname = intents[d].hostname
        /\ intents[d].generation \in Nat /\ intents'[d].generation \in Nat
    BY <1>1, <1>3, TableKept
  <1>. QED
    BY <1>1, <1>2, <1>4 DEF BatchOK, Follows

(* A step that marks nothing and reads no new list. *)
LEMMA NothingMarked ==
    ASSUME PublicationInv, [Next]_vars, ControllerNext,
           \A d \in DOMAIN batch' : d \in DOMAIN batch /\ batch'[d] = batch[d],
           phase' \in Publishing => phase \in Publishing,
           PublisherTyped', WorkOK'
    PROVE  PublicationInv'
  <1>1. ASSUME NEW d \in DOMAIN batch'
        PROVE  BatchOK(d)'
    <2>1. d \in DOMAIN batch /\ batch'[d] = batch[d] /\ d \in Devices
      BY DEF PublicationInv, PublisherTyped
    <2>2. ASSUME phase' \in Publishing
          PROVE  intents'[d].origin < intents'[d].generation
      <3>1. intents[d].origin < intents[d].generation
        BY <2>1, <2>2 DEF PublicationInv, BatchOK
      <3>2. intents'[d].origin = intents[d].origin /\ intents'[d].generation >= intents[d].generation
        BY <2>1, TableKept, ControllerRow DEF Quietly, Follows, PublicationInv
      <3>. QED
        BY <2>1, <3>1, <3>2, TableKept
    <2>. QED
      BY <2>1, <2>2, BatchKept
  <1>2. ErrorMeansPending'
    <2>. SUFFICES ASSUME NEW d \in Devices, intents'[d].failed
                  PROVE  intents'[d].origin < intents'[d].generation
      BY DEF ErrorMeansPending
    <2>1. Quietly(intents'[d], intents[d])
      BY ControllerRow DEF PublicationInv
    <2>. QED
      BY <2>1 DEF Quietly, PublicationInv, ErrorMeansPending
  <1>. QED
    BY <1>1, <1>2, TableKept DEF PublicationInv

----------------------------------------------------------------------------
(* The actions, one by one *)

(* The controller, the clock, and the expiry a pass begins with. *)
LEMMA ControllerKeeps ==
    ASSUME PublicationInv,
           (\E d \in Devices : Register(d)) \/ ControllerExpiry \/ Clock \/ StartPass
    PROVE  PublicationInv'
  <1>1. now \in Times
    BY IntentsAssumption DEF PublicationInv, NamesInv, TableInv, IntentsTypeOK, Times
  <1>2. ControllerNext
    BY <1>1 DEF ControllerNext, Register, ControllerExpiry, Clock, Tick, StartPass
  <1>3. Next
    BY DEF Next, PublisherStep
  <1>4. /\ UNCHANGED <<batch, queries, crashes, wire, zone, view, transfer>>
        /\ phase' = phase \/ (phase = "idle" /\ phase' = "listOrigin")
    BY DEF Register, ControllerExpiry, Clock, StartPass, publisherVars, dnsVars
  <1>5. PublisherTyped' /\ WorkOK'
    BY <1>4 DEF PublicationInv, PublisherTyped, WorkOK, Phases
  <1>6. phase' \in Publishing => phase \in Publishing
    BY <1>4 DEF Publishing
  <1>. QED
    BY <1>2, <1>3, <1>4, <1>5, <1>6, NothingMarked

(* A list is read from the table as it is. *)
LEMMA SnapshotKeeps ==
    ASSUME PublicationInv, [Next]_vars, UNCHANGED intents, NEW S, S \subseteq Devices,
           \A d \in S : Found(d),
           phase' \in Publishing => \A d \in S : intents[d].origin < intents[d].generation,
           batch' = Snapshot(S), PublisherTyped', WorkOK'
    PROVE  PublicationInv'
  <1>1. DOMAIN batch' = S /\ \A d \in S : batch'[d] = intents[d]
    BY DEF Snapshot
  <1>2. ASSUME NEW d \in DOMAIN batch'
        PROVE  BatchOK(d)'
    <2>1. intents[d] \in Intent /\ intents[d].generation \in Nat
      BY <1>1 DEF PublicationInv, NamesInv, TableInv, IntentsTypeOK, Intent
    <2>. QED
      BY <1>1, <2>1 DEF BatchOK, Found
  <1>3. ErrorMeansPending'
    BY DEF PublicationInv, ErrorMeansPending
  <1>. QED
    BY <1>2, <1>3, TableKept DEF PublicationInv

(* The two work lists, or a database call that fails. *)
LEMMA ListKeeps ==
    ASSUME PublicationInv, ListOrigin \/ ListObservation
    PROVE  PublicationInv'
  <1>1. Next
    BY DEF Next, PublisherStep
  <1>2. UNCHANGED <<intents, crashes, wire, zone, view, transfer>>
    BY DEF ListOrigin, ListObservation, dnsVars
  <1>3. NumServers \in Nat
    BY PublicationAssumption
  <1>4. ASSUME NEW d \in Devices
        PROVE  /\ intents[d].generation \in Nat /\ intents[d].origin \in Nat
               /\ intents[d].public \in Nat
    BY DEF PublicationInv, NamesInv, TableInv, IntentsTypeOK, Intent
  <1>5. /\ ListOriginPending(BatchSize) \subseteq OriginPending
        /\ ListObservationPending(BatchSize) \subseteq ObservationPending
    BY DEF ListOriginPending, ListObservationPending, FirstDevices
  <1>6. CASE batch' = Snapshot(ListOriginPending(BatchSize)) /\ ListOrigin /\ phase' = "publish"
    <2>1. \A d \in ListOriginPending(BatchSize) :
            /\ d \in Devices /\ Found(d)
            /\ intents[d].origin < intents[d].generation
      BY <1>4, <1>5 DEF OriginPending, Found
    <2>2. DOMAIN batch' \subseteq Devices
      BY <1>6, <2>1 DEF Snapshot
    <2>3. PublisherTyped' /\ WorkOK'
      BY <1>2, <1>6, <2>2 DEF ListOrigin, PublicationInv, PublisherTyped, WorkOK, Phases
    <2>. QED
      BY <1>1, <1>2, <1>6, <2>1, <2>3, SnapshotKeeps
  <1>7. CASE batch' = Snapshot(ListObservationPending(BatchSize)) /\ ListObservation /\ phase' = "observe"
    <2>1. \A d \in ListObservationPending(BatchSize) : d \in Devices /\ Found(d)
      BY <1>4, <1>5 DEF ObservationPending, Found
    <2>2. DOMAIN batch' \subseteq Devices
      BY <1>7, <2>1 DEF Snapshot
    <2>3. NumServers > 0 /\ queries' = 0 /\ phase = "listObservation"
      BY <1>7 DEF ListObservation, PublicationInv, WorkOK
    <2>4. PublisherTyped' /\ WorkOK'
      BY <1>2, <1>3, <1>7, <2>2, <2>3 DEF PublicationInv, PublisherTyped, WorkOK, Phases
    <2>5. phase' \notin Publishing
      BY <1>7 DEF Publishing
    <2>. QED
      BY <1>1, <1>2, <1>7, <2>1, <2>4, <2>5, SnapshotKeeps
  <1>8. CASE batch' = batch /\ phase' \in {"idle", "listObservation"}
    <2>1. \/ queries' = queries /\ phase = "listOrigin" /\ phase' = StartObservation
          \/ queries' = 0 /\ phase = "listObservation" /\ phase' = "idle"
      BY <1>8 DEF ListOrigin, ListObservation
    <2>2. PublisherTyped' /\ WorkOK'
      BY <1>2, <1>3, <1>8, <2>1
         DEF PublicationInv, PublisherTyped, WorkOK, Phases, StartObservation
    <2>3. phase' \notin Publishing /\ ControllerNext
      BY <1>2, <1>8 DEF Publishing, ControllerNext
    <2>. QED
      BY <1>1, <1>8, <2>2, <2>3, NothingMarked
  <1>. QED
    BY <1>6, <1>7, <1>8 DEF ListOrigin, ListObservation, StartObservation

(* An update is sent, or the name is not of the zone. *)
LEMMA PublishKeeps ==
    ASSUME PublicationInv, Publish
    PROVE  PublicationInv'
  <1>1. Next /\ ControllerNext
    BY DEF Next, PublisherStep, ControllerNext, Publish
  <1>2. /\ UNCHANGED <<intents, batch, queries, crashes, zone, view, transfer>>
        /\ phase = "publish" /\ DOMAIN batch # {}
    BY DEF Publish
  <1>3. batch[First] \in Intent
    BY <1>2, FirstOfBatch DEF PublicationInv, BatchOK
  <1>4. CASE phase' = "failed" /\ UNCHANGED wire
    BY <1>1, <1>2, <1>4, NothingMarked
       DEF PublicationInv, PublisherTyped, WorkOK, Phases, Publishing
  <1>5. CASE phase' = "await" /\ batch[First].hostname \in ZoneHostnames
    <2>1. PICK u : u = [hostname |-> batch[First].hostname, addresses |-> batch[First].addresses,
                        live |-> TRUE]
      OBVIOUS
    <2>2. Len(wire) < MaxWire /\ wire' = Append(wire, u)
      BY <1>5, <2>1 DEF Publish
    <2>3. u \in Update
      BY <1>3, <1>5, <2>1 DEF Update, Intent
    <2>4. wire \in Seq(Update) /\ MaxWire \in Nat
      BY PublicationAssumption DEF PublicationInv, PublisherTyped
    <2>5. wire' \in Seq(Update) /\ Len(wire') <= MaxWire
      BY <2>2, <2>3, <2>4
    <2>6. ASSUME NEW i \in DOMAIN wire', wire'[i].live
          PROVE  i = Len(wire')
      <3>1. i # Len(wire') => i \in DOMAIN wire /\ wire'[i] = wire[i]
        BY <2>2, <2>3, <2>4
      <3>. QED
        BY <1>2, <2>6, <3>1 DEF PublicationInv, WorkOK
    <2>7. PublisherTyped' /\ WorkOK'
      BY <1>2, <1>5, <2>5, <2>6 DEF PublicationInv, PublisherTyped, WorkOK, Phases
    <2>. QED
      BY <1>1, <1>2, <1>5, <2>7, NothingMarked DEF Publishing
  <1>. QED
    BY <1>4, <1>5 DEF Publish

(* The publisher gives up on its update, or dies. *)
LEMMA GiveUpKeeps ==
    ASSUME PublicationInv, GiveUp \/ Crash
    PROVE  PublicationInv'
  <1>1. Next /\ ControllerNext
    BY DEF Next, ControllerNext, GiveUp, Crash
  <1>2. /\ wire' \in Seq(Update) /\ Len(wire') <= MaxWire
        /\ \A i \in DOMAIN wire' : ~wire'[i].live
    BY WireGivenUp DEF GiveUp, Crash, PublicationInv, PublisherTyped
  <1>3. CASE GiveUp
    <2>1. /\ UNCHANGED <<intents, batch, queries, crashes, zone, view, transfer>>
          /\ phase \in {"await", "applied"} /\ phase' = "failed"
      BY <1>3 DEF GiveUp
    <2>2. PublisherTyped' /\ WorkOK'
      BY <1>2, <2>1 DEF PublicationInv, PublisherTyped, WorkOK, Phases
    <2>. QED
      BY <1>1, <2>1, <2>2, NothingMarked DEF Publishing
  <1>4. CASE Crash
    <2>1. /\ UNCHANGED <<intents, zone, view, transfer>>
          /\ phase' = "idle" /\ queries' = 0 /\ DOMAIN batch' = {}
          /\ crashes < MaxCrashes /\ crashes' = crashes + 1
      BY <1>4 DEF Crash
    <2>2. PublisherTyped' /\ WorkOK'
      BY <1>2, <2>1, PublicationAssumption DEF PublicationInv, PublisherTyped, WorkOK, Phases
    <2>. QED
      BY <1>1, <2>1, <2>2, NothingMarked DEF Publishing
  <1>. QED
    BY <1>3, <1>4

(* P0 handles an update: the live one moves the publisher on. *)
LEMMA HandledKeeps ==
    ASSUME PublicationInv, NEW i \in Handled, ApplyUpdate(i) \/ RefuseUpdate(i)
    PROVE  PublicationInv'
  <1>1. Next /\ ControllerNext
    BY DEF Next, ControllerNext, ApplyUpdate, RefuseUpdate
  <1>2. i \in DOMAIN wire /\ wire \in Seq(Update) /\ wire[i] \in Update
    BY DEF Handled, PublicationInv, PublisherTyped
  <1>3. /\ UNCHANGED <<intents, batch, queries, crashes, view, transfer>>
        /\ wire' = Without(i)
        /\ zone' = zone \/ zone' = [zone EXCEPT ![wire[i].hostname] = wire[i].addresses]
        /\ \/ wire[i].live /\ phase' \in {"applied", "failed"}
           \/ ~wire[i].live /\ phase' = phase
    BY DEF ApplyUpdate, RefuseUpdate
  <1>4. zone' \in RRsets
    <2>1. wire[i].addresses \in AddressSets
      BY <1>2 DEF Update
    <2>2. zone \in [Hostnames -> AddressSets]
      BY DEF PublicationInv, PublisherTyped, RRsets
    <2>. QED
      BY <1>3, <2>1, <2>2 DEF RRsets
  <1>5. wire' \in Seq(Update) /\ Len(wire') <= MaxWire
    <2>1. MaxWire \in Nat /\ Len(wire) <= MaxWire
      BY PublicationAssumption DEF PublicationInv, PublisherTyped
    <2>. QED
      BY <1>2, <1>3, <2>1, WireHandled
  <1>6. wire[i].live => phase = "await" /\ DOMAIN batch # {}
    BY <1>2 DEF PublicationInv, WorkOK
  <1>7. ASSUME NEW j \in DOMAIN wire', wire'[j].live
        PROVE  phase' = "await" /\ j = Len(wire')
    <2>1. PICK k \in DOMAIN wire \ {i} :
            wire'[j] = wire[k] /\ (k = Len(wire) => j = Len(wire'))
      BY <1>2, <1>3, WireHandled
    <2>2. phase = "await" /\ k = Len(wire)
      BY <1>7, <2>1 DEF PublicationInv, WorkOK
    <2>3. ~wire[i].live
      BY <1>2, <2>1, <2>2 DEF PublicationInv, WorkOK
    <2>. QED
      BY <1>3, <2>1, <2>2, <2>3
  <1>8. PublisherTyped'
    BY <1>3, <1>4, <1>5, <1>6 DEF PublicationInv, PublisherTyped, Phases
  <1>9. WorkOK'
    BY <1>3, <1>6, <1>7 DEF PublicationInv, WorkOK
  <1>10. phase' \in Publishing => phase \in Publishing
    BY <1>3, <1>6 DEF Publishing
  <1>. QED
    BY <1>1, <1>3, <1>8, <1>9, <1>10, NothingMarked

(* A secondary takes a copy of the zone, and serves it later. *)
LEMMA TransferKeeps ==
    ASSUME PublicationInv, NEW s \in Servers, StartTransfer(s) \/ FinishTransfer(s)
    PROVE  PublicationInv'
  <1>1. Next /\ ControllerNext
    BY DEF Next, ControllerNext, StartTransfer, FinishTransfer
  <1>2. UNCHANGED <<intents, phase, batch, queries, crashes, wire, zone>>
    BY DEF StartTransfer, FinishTransfer, publisherVars
  <1>3. /\ zone \in RRsets /\ view \in [Servers -> RRsets]
        /\ transfer \in [Servers -> SUBSET RRsets]
    BY DEF PublicationInv, PublisherTyped
  <1>4. view' \in [Servers -> RRsets] /\ transfer' \in [Servers -> SUBSET RRsets]
    <2>1. CASE StartTransfer(s)
      BY <1>3, <2>1 DEF StartTransfer
    <2>2. CASE FinishTransfer(s)
      <3>1. (CHOOSE z \in transfer[s] : TRUE) \in RRsets
        BY <1>3, <2>2 DEF FinishTransfer
      <3>. QED
        BY <1>3, <2>2, <3>1 DEF FinishTransfer
    <2>. QED
      BY <2>1, <2>2
  <1>5. PublisherTyped' /\ WorkOK'
    BY <1>2, <1>4 DEF PublicationInv, PublisherTyped, WorkOK
  <1>. QED
    BY <1>1, <1>2, <1>5, NothingMarked

(* A question is asked, or a list is at its end. *)
LEMMA ObserveKeeps ==
    ASSUME PublicationInv, EndPublish \/ QueryAgrees \/ QueryFails \/ EndPass
    PROVE  PublicationInv'
  <1>1. Next /\ ControllerNext
    BY DEF Next, PublisherStep, ControllerNext, EndPublish, QueryAgrees, QueryFails, EndPass
  <1>2. /\ UNCHANGED <<intents, crashes, wire, zone, view, transfer>>
        /\ phase \in {"publish", "observe"}
        /\ phase' \notin Publishing
    BY DEF EndPublish, QueryAgrees, QueryFails, EndPass, dnsVars, StartObservation, Publishing
  <1>3. NumServers \in Nat /\ queries \in Nat /\ queries <= 2 * NumServers
    BY PublicationAssumption DEF PublicationInv, PublisherTyped
  <1>4. \A i \in DOMAIN wire' : ~wire'[i].live
    BY <1>2 DEF PublicationInv, WorkOK
  <1>5. \A d \in DOMAIN batch' : d \in DOMAIN batch /\ batch'[d] = batch[d]
    BY FirstOfBatch DEF EndPublish, QueryAgrees, QueryFails, EndPass
  <1>6. DOMAIN batch' \subseteq Devices
    BY <1>5 DEF PublicationInv, PublisherTyped
  <1>7. /\ queries' \in 0 .. 2 * NumServers
        /\ phase' = "observe" => queries' < 2 * NumServers
        /\ phase' \in Phases
        /\ phase' \in {"await", "applied", "failed", "observed"} => DOMAIN batch' # {}
        /\ phase' \in {"listObservation", "observe", "observed"} => NumServers > 0
    <2>1. CASE EndPublish
      BY <1>3, <2>1 DEF EndPublish, StartObservation, Phases
    <2>2. CASE QueryAgrees
      <3>1. queries < 2 * NumServers /\ NumServers > 0
        BY <2>2 DEF QueryAgrees, PublicationInv, PublisherTyped, WorkOK
      <3>. QED
        BY <1>3, <2>2, <3>1 DEF QueryAgrees, Phases
    <2>3. CASE QueryFails
      <3>1. NumServers > 0
        BY <2>3 DEF QueryFails, PublicationInv, WorkOK
      <3>. QED
        BY <1>3, <2>3, <3>1 DEF QueryFails, Phases
    <2>4. CASE EndPass
      BY <1>3, <2>4 DEF EndPass, Phases
    <2>. QED
      BY <2>1, <2>2, <2>3, <2>4
  <1>8. PublisherTyped' /\ WorkOK'
    BY <1>2, <1>4, <1>6, <1>7 DEF PublicationInv, PublisherTyped, WorkOK
  <1>. QED
    BY <1>1, <1>2, <1>5, <1>8, NothingMarked

----------------------------------------------------------------------------
(* The marks.  The row that is marked leaves the list, so that the others   *)
(* are as they were.                                                        *)

(* One row is marked, and goes. *)
LEMMA OneMarked ==
    ASSUME PublicationInv, Next, phase \in {"applied", "failed", "observed"},
           batch' = Rest,
           \A e \in Devices \ {First} : intents'[e] = intents[e],
           intents'[First].failed => intents'[First].origin < intents'[First].generation,
           UNCHANGED <<crashes, wire, zone, view, transfer>>,
           \/ phase # "observed" /\ phase' = "publish" /\ queries' = queries
           \/ phase = "observed" /\ phase' = "observe" /\ queries' = 0
    PROVE  PublicationInv'
  <1>1. NumServers \in Nat
    BY PublicationAssumption
  <1>2. DOMAIN batch' = DOMAIN batch \ {First} /\ \A d \in DOMAIN batch' : batch'[d] = batch[d]
    BY FirstOfBatch
  <1>3. PublisherTyped'
    BY <1>1, <1>2 DEF PublicationInv, PublisherTyped, WorkOK, Phases
  <1>4. WorkOK'
    BY DEF PublicationInv, WorkOK
  <1>5. ASSUME NEW d \in DOMAIN batch'
        PROVE  BatchOK(d)'
    <2>1. d \in DOMAIN batch /\ d \in Devices \ {First} /\ BatchOK(d)
      BY <1>2 DEF PublicationInv, PublisherTyped
    <2>2. phase' \in Publishing => phase \in Publishing
      BY DEF Publishing
    <2>3. phase' \in Publishing => intents'[d].origin < intents'[d].generation
      BY <2>1, <2>2 DEF BatchOK
    <2>. QED
      BY <1>2, <2>1, <2>3, BatchKept
  <1>6. ErrorMeansPending'
    BY DEF PublicationInv, ErrorMeansPending
  <1>. QED
    BY <1>3, <1>4, <1>5, <1>6, TableKept DEF PublicationInv

(* What each of the three marks does to its row, and that no other changes. *)
LEMMA MarksKeep ==
    ASSUME PublicationInv, RecordApplied \/ RecordFailure \/ RecordObserved
    PROVE  PublicationInv'
  <1>1. Next
    BY DEF Next, PublisherStep
  <1>2. /\ phase \in {"applied", "failed", "observed"}
        /\ batch' = Rest
        /\ UNCHANGED <<crashes, wire, zone, view, transfer>>
        /\ \/ phase # "observed" /\ phase' = "publish" /\ queries' = queries
           \/ phase = "observed" /\ phase' = "observe" /\ queries' = 0
    BY DEF RecordApplied, RecordFailure, RecordObserved, dnsVars
  <1>3. First \in Devices /\ BatchOK(First) /\ intents \in [Devices -> Intent]
    BY <1>2, MarksExpected DEF PublicationInv, NamesInv, TableInv, IntentsTypeOK
  <1>4. intents[First] \in Intent
    BY <1>3
  <1>5. intents[First].failed => intents[First].origin < intents[First].generation
    BY <1>3 DEF PublicationInv, ErrorMeansPending
  <1>6. CASE UNCHANGED intents
    BY <1>1, <1>2, <1>5, <1>6, OneMarked
  <1>7. CASE RecordApplied /\ MarkOriginApplied(First, batch[First].generation)
    <2>1. \A e \in Devices \ {First} : intents'[e] = intents[e]
      BY <1>3, <1>7 DEF MarkOriginApplied
    <2>2. intents'[First].failed => intents'[First].origin < intents'[First].generation
      BY <1>3, <1>4, <1>5, <1>7 DEF MarkOriginApplied, Intent
    <2>. QED
      BY <1>1, <1>2, <2>1, <2>2, OneMarked
  <1>8. CASE RecordFailure /\ MarkPublicationError(First, batch[First].generation)
    <2>1. \A e \in Devices \ {First} : intents'[e] = intents[e]
      BY <1>3, <1>8 DEF MarkPublicationError
    <2>2. intents[First].origin < intents[First].generation
      BY <1>3, <1>8 DEF BatchOK, RecordFailure, Publishing
    <2>3. intents'[First].origin = intents[First].origin
          /\ intents'[First].generation = intents[First].generation
      BY <1>3, <1>4, <1>8 DEF MarkPublicationError, Intent
    <2>. QED
      BY <1>1, <1>2, <2>1, <2>2, <2>3, OneMarked
  <1>9. CASE RecordObserved /\ MarkPubliclyObserved(First, batch[First].generation)
    <2>1. \A e \in Devices \ {First} : intents'[e] = intents[e]
      BY <1>3, <1>9 DEF MarkPubliclyObserved
    <2>2. /\ intents'[First].origin = intents[First].origin
          /\ intents'[First].generation = intents[First].generation
          /\ intents'[First].failed = intents[First].failed
      BY <1>3, <1>4, <1>9 DEF MarkPubliclyObserved, Intent
    <2>. QED
      BY <1>1, <1>2, <1>5, <2>1, <2>2, OneMarked
  <1>. QED
    BY <1>6, <1>7, <1>8, <1>9 DEF RecordApplied, RecordFailure, RecordObserved

----------------------------------------------------------------------------
(* The invariant, whatever P0 does *)

(* Nothing is under way when the programs start. *)
LEMMA PublicationInitInv ==
    ASSUME Init
    PROVE  PublicationInv
  <1>1. NamesInv
    BY NamesInit DEF Init
  <1>2. DOMAIN batch = {} /\ wire = << >> /\ phase = "idle"
    BY DEF Init
  <1>3. PublisherTyped
    <2>1. zone \in RRsets
      BY DEF Init, RRsets, AddressSets
    <2>2. view \in [Servers -> RRsets] /\ transfer \in [Servers -> SUBSET RRsets]
      BY <2>1 DEF Init
    <2>3. NumServers \in Nat /\ MaxCrashes \in Nat /\ MaxWire \in Nat
      BY PublicationAssumption
    <2>4. queries \in 0 .. 2 * NumServers /\ crashes \in 0 .. MaxCrashes
      BY <2>3 DEF Init
    <2>5. wire \in Seq(Update) /\ Len(wire) <= MaxWire
      BY <1>2, <2>3
    <2>. QED
      BY <1>2, <2>1, <2>2, <2>4, <2>5 DEF PublisherTyped, Phases
  <1>4. WorkOK
    BY <1>2 DEF WorkOK
  <1>5. ErrorMeansPending
    BY DEF Init, IntentsInit, ErrorMeansPending, Inserted, Absent
  <1>. QED
    BY <1>1, <1>2, <1>3, <1>4, <1>5 DEF PublicationInv

(* Every step keeps the invariant. *)
LEMMA PublicationStep ==
    ASSUME PublicationInv, [Next]_vars
    PROVE  PublicationInv'
  <1>1. CASE (\E d \in Devices : Register(d)) \/ ControllerExpiry \/ Clock \/ StartPass
    BY <1>1, ControllerKeeps
  <1>2. CASE ListOrigin \/ ListObservation
    BY <1>2, ListKeeps
  <1>3. CASE Publish
    BY <1>3, PublishKeeps
  <1>4. CASE GiveUp \/ Crash
    BY <1>4, GiveUpKeeps
  <1>5. CASE \E i \in Handled : ApplyUpdate(i) \/ RefuseUpdate(i)
    BY <1>5, HandledKeeps
  <1>6. CASE \E s \in Servers : StartTransfer(s) \/ FinishTransfer(s)
    BY <1>6, TransferKeeps
  <1>7. CASE EndPublish \/ QueryAgrees \/ QueryFails \/ EndPass
    BY <1>7, ObserveKeeps
  <1>8. CASE RecordApplied \/ RecordFailure \/ RecordObserved
    BY <1>8, MarksKeep
  <1>9. CASE UNCHANGED vars
    <2>1. ControllerNext /\ PublisherTyped' /\ WorkOK'
      BY <1>9 DEF vars, ControllerNext, PublicationInv, PublisherTyped, WorkOK
    <2>. QED
      BY <1>9, <2>1, NothingMarked DEF vars
  <1>. QED
    BY <1>1, <1>2, <1>3, <1>4, <1>5, <1>6, <1>7, <1>8, <1>9 DEF Next, PublisherStep

(* The invariant of the publisher holds through crashes and timeouts,       *)
(* whatever order P0 handles updates in.                                    *)
THEOREM PublicationCorrect == Spec => []PublicationInv
  <1>1. Init => PublicationInv
    BY PublicationInitInv
  <1>2. PublicationInv /\ [Next]_vars => PublicationInv'
    BY PublicationStep
  <1>. QED
    BY <1>1, <1>2, PTL DEF Spec

(* The publisher uses the table only as module Intents says it is used: no  *)
(* mark is about a generation that never was (RunOnce and the three mark    *)
(* statements), so that what is proved of the table holds here.             *)
THEOREM PublicationImplementsTable == Spec => IntentsSpec
  <1>1. Init => IntentsInit
    BY DEF Init
  <1>2. PublicationInv /\ [Next]_vars => [IntentsNext]_intentsVars
    BY PublicationStepIsTableStep
  <1>. QED
    BY <1>1, <1>2, PublicationCorrect, PTL DEF Spec, IntentsSpec

(* Publisher, P0 and authorities always have their types: a work list is of *)
(* rows that exist, only names of the zone are on the wire, and no question *)
(* is asked of an authority that is not there (ObserveAddressRRsets).       *)
THEOREM PublicationTyped == Spec => []TypeOK
  <1>1. ASSUME PublicationInv
        PROVE  TypeOK
    <2>1. \A i \in DOMAIN wire : wire[i] \in Update
      BY <1>1 DEF PublicationInv, PublisherTyped
    <2>2. \A s \in Servers : transfer[s] \subseteq RRsets
      BY <1>1 DEF PublicationInv, PublisherTyped
    <2>3. IntentsTypeOK /\ \A d \in DOMAIN batch : batch[d] \in Intent
      BY <1>1 DEF PublicationInv, NamesInv, TableInv, BatchOK
    <2>. QED
      BY <1>1, <2>1, <2>2, <2>3 DEF PublicationInv, PublisherTyped, TypeOK, Update
  <1>. QED
    BY <1>1, PublicationCorrect, PTL

(* A publication error is only shown for a generation that is still to be   *)
(* applied, however late a failure is recorded (RunOnce).                   *)
THEOREM PublicationErrorMeansPending == Spec => []ErrorMeansPending
  <1>1. PublicationInv => ErrorMeansPending
    BY DEF PublicationInv
  <1>. QED
    BY <1>1, PublicationCorrect, PTL

----------------------------------------------------------------------------
(* What P0 serves, when it handles updates in the order they were sent *)

(* A step that marks nothing as applied and sends nothing. *)
LEMMA OriginNotMarked ==
    ASSUME OriginInv, [Next]_vars,
           \A d \in Devices : intents'[d].origin = intents[d].origin,
           UNCHANGED <<wire, zone>>,
           batch' = batch \/ phase # "await",
           phase' = "applied" => phase = "applied" /\ batch' = batch
    PROVE  OriginInv'
  <1>1. PublicationInv'
    BY PublicationStep DEF OriginInv
  <1>2. ASSUME NEW d \in Devices
        PROVE  /\ Follows(intents'[d], intents[d])
               /\ Found(d) => intents'[d].hostname = intents[d].hostname
               /\ intents[d].generation \in Nat /\ intents'[d].generation \in Nat
               /\ intents[d].origin \in Nat
               /\ intents[d].origin <= intents[d].generation
    BY TableKept DEF OriginInv
  <1>3. LiveUpdate'
    BY DEF OriginInv, LiveUpdate, PublicationInv, WorkOK, First
  <1>4. JustApplied'
    BY DEF OriginInv, JustApplied, First
  <1>5. NothingStale'
    <2>. SUFFICES ASSUME NEW i \in DOMAIN wire, NEW d \in Devices,
                         Found(d)', wire[i].hostname = intents'[d].hostname
                  PROVE  intents'[d].origin < intents'[d].generation
      BY DEF NothingStale
    <2>1. CASE Found(d)
      <3>1. intents[d].origin < intents[d].generation
        BY <1>2, <2>1 DEF OriginInv, NothingStale
      <3>. QED
        BY <1>2, <3>1 DEF Follows
    <2>2. CASE ~Found(d)
      BY <1>2, <2>2 DEF Found
    <2>. QED
      BY <2>1, <2>2
  <1>6. OriginReflectsStore'
    <2>. SUFFICES ASSUME NEW d \in Devices, Found(d)',
                         intents'[d].origin = intents'[d].generation
                  PROVE  zone[intents'[d].hostname] = intents'[d].addresses
      BY DEF OriginReflectsStore
    <2>1. intents[d].generation = intents'[d].generation /\ intents[d].origin = intents[d].generation
      BY <1>2 DEF Follows
    <2>2. Found(d) /\ intents'[d].addresses = intents[d].addresses
      BY <1>2, <2>1 DEF Follows, Found
    <2>. QED
      BY <1>2, <2>1, <2>2 DEF OriginInv, OriginReflectsStore
  <1>. QED
    BY <1>1, <1>3, <1>4, <1>5, <1>6 DEF OriginInv

(* The row at hand, and no other, has its host name. *)
LEMMA RowAtHand ==
    ASSUME PublicationInv, DOMAIN batch # {}
    PROVE  /\ First \in Devices /\ Found(First) /\ BatchOK(First)
           /\ \A d \in Devices : Found(d) /\ intents[d].hostname = batch[First].hostname
                => d = First
  <1>1. First \in Devices /\ BatchOK(First)
    BY FirstOfBatch DEF PublicationInv, PublisherTyped
  <1>2. batch[First].generation \in Nat /\ intents[First].generation \in Nat
    BY <1>1 DEF BatchOK, PublicationInv, NamesInv, TableInv, IntentsTypeOK, Intent
  <1>3. Found(First)
    BY <1>1, <1>2 DEF BatchOK, Found
  <1>4. ASSUME NEW d \in Devices, Found(d), intents[d].hostname = batch[First].hostname
        PROVE  d = First
    BY <1>1, <1>3, <1>4 DEF BatchOK, PublicationInv, NamesInv, OneRowPerHostname
  <1>. QED
    BY <1>1, <1>3, <1>4

(* An update is sent for a row that is not applied. *)
LEMMA OriginPublish ==
    ASSUME OriginInv, Publish
    PROVE  OriginInv'
  <1>1. Next /\ PublicationInv
    BY DEF Next, PublisherStep, OriginInv
  <1>2. /\ UNCHANGED <<intents, batch, zone>>
        /\ phase = "publish" /\ DOMAIN batch # {}
    BY DEF Publish
  <1>3. CASE phase' = "failed" /\ UNCHANGED wire
    BY <1>1, <1>2, <1>3, OriginNotMarked
  <1>4. CASE phase' = "await" /\ batch[First].hostname \in ZoneHostnames
    <2>1. PICK u : u = [hostname |-> batch[First].hostname, addresses |-> batch[First].addresses,
                        live |-> TRUE]
      OBVIOUS
    <2>2. wire' = Append(wire, u) /\ wire \in Seq(Update)
      BY <1>1, <1>4, <2>1 DEF Publish, PublicationInv, PublisherTyped
    <2>3. u \in Update
      BY <1>1, <1>2, <1>4, <2>1, RowAtHand DEF Update, BatchOK, Intent
    <2>4. ASSUME NEW i \in DOMAIN wire'
          PROVE  wire'[i] = u \/ (i \in DOMAIN wire /\ wire'[i] = wire[i] /\ ~wire[i].live)
      <3>1. wire'[i] = u \/ (i \in DOMAIN wire /\ wire'[i] = wire[i])
        BY <2>2, <2>3
      <3>. QED
        BY <1>1, <1>2, <3>1 DEF PublicationInv, WorkOK
    <2>5. PublicationInv'
      BY <1>1, PublicationStep
    <2>6. LiveUpdate'
      BY <1>2, <2>1, <2>4 DEF LiveUpdate, First
    <2>7. JustApplied'
      BY <1>4 DEF JustApplied
    <2>8. NothingStale'
      <3>. SUFFICES ASSUME NEW i \in DOMAIN wire', NEW d \in Devices,
                           Found(d), wire'[i].hostname = intents[d].hostname
                    PROVE  intents[d].origin < intents[d].generation
        BY <1>2 DEF NothingStale, Found
      <3>1. CASE wire'[i] = u
        <4>1. d = First /\ BatchOK(First)
          BY <1>1, <1>2, <2>1, <3>1, RowAtHand
        <4>. QED
          BY <1>2, <4>1 DEF BatchOK, Publishing
      <3>2. CASE i \in DOMAIN wire /\ wire'[i] = wire[i]
        BY <3>2 DEF OriginInv, NothingStale
      <3>. QED
        BY <2>4, <3>1, <3>2
    <2>9. OriginReflectsStore'
      BY <1>2 DEF OriginInv, OriginReflectsStore, Found
    <2>. QED
      BY <2>5, <2>6, <2>7, <2>8, <2>9 DEF OriginInv
  <1>. QED
    BY <1>3, <1>4 DEF Publish

(* Updates that nobody waits for any more stay on the wire. *)
LEMMA OriginGivenUp ==
    ASSUME OriginInv, GiveUp \/ Crash
    PROVE  OriginInv'
  <1>1. Next /\ PublicationInv
    BY DEF Next, OriginInv
  <1>2. UNCHANGED <<intents, zone>> /\ phase' # "applied"
    BY DEF GiveUp, Crash
  <1>3. /\ DOMAIN wire' = DOMAIN wire
        /\ \A i \in DOMAIN wire : ~wire'[i].live /\ wire'[i].hostname = wire[i].hostname
    BY <1>1, WireGivenUp DEF GiveUp, Crash, PublicationInv, PublisherTyped
  <1>4. PublicationInv'
    BY <1>1, PublicationStep
  <1>5. LiveUpdate' /\ JustApplied'
    BY <1>2, <1>3 DEF LiveUpdate, JustApplied
  <1>6. NothingStale'
    BY <1>2, <1>3 DEF OriginInv, NothingStale, Found
  <1>7. OriginReflectsStore'
    BY <1>2 DEF OriginInv, OriginReflectsStore, Found
  <1>. QED
    BY <1>4, <1>5, <1>6, <1>7 DEF OriginInv

(* P0 handles the oldest update.  It is about no applied row; and if it is  *)
(* the one the publisher waits for, it is the last.                         *)
LEMMA OriginHandled ==
    ASSUME OriginInv, ~LateUpdates, NEW i \in Handled, ApplyUpdate(i) \/ RefuseUpdate(i)
    PROVE  OriginInv'
  <1>1. Next /\ PublicationInv
    BY DEF Next, OriginInv
  <1>2. i = 1 /\ i \in DOMAIN wire /\ wire \in Seq(Update) /\ wire[i] \in Update
    BY <1>1 DEF Handled, PublicationInv, PublisherTyped
  <1>3. /\ UNCHANGED <<intents, batch>>
        /\ wire' = Without(i)
        /\ \/ ApplyUpdate(i)
           \/ RefuseUpdate(i) /\ zone' = zone
        /\ phase' = "applied" => phase = "applied" \/ (ApplyUpdate(i) /\ wire[i].live)
    BY DEF ApplyUpdate, RefuseUpdate
  <1>4. /\ wire' \in Seq(Update) /\ Len(wire') = Len(wire) - 1
        /\ \A j \in DOMAIN wire' : \E k \in DOMAIN wire : wire'[j] = wire[k]
    BY <1>2, <1>3, WireHandled
  <1>5. PublicationInv'
    BY <1>1, PublicationStep
  <1>6. phase # "applied"
    BY <1>2 DEF OriginInv, JustApplied
  <1>7. zone \in [Hostnames -> AddressSets] /\ wire[i].hostname \in Hostnames
    BY <1>1, <1>2, PublicationAssumption DEF PublicationInv, PublisherTyped, RRsets, Update
  <1>8. LiveUpdate'
    BY <1>3, <1>4 DEF OriginInv, LiveUpdate, First
  <1>9. JustApplied'
    <2>. SUFFICES ASSUME phase' = "applied"
                  PROVE  /\ wire' = << >>
                         /\ zone'[batch[First].hostname] = batch[First].addresses
      BY <1>3 DEF JustApplied, First
    <2>1. ApplyUpdate(i) /\ wire[i].live
      BY <1>3, <1>6
    <2>2. i = Len(wire)
      BY <1>1, <1>2, <2>1 DEF PublicationInv, WorkOK
    <2>3. wire' = << >>
      BY <1>2, <1>4, <2>2
    <2>4. zone'[wire[i].hostname] = wire[i].addresses
      BY <1>7, <2>1 DEF ApplyUpdate
    <2>. QED
      BY <1>2, <2>1, <2>3, <2>4 DEF OriginInv, LiveUpdate
  <1>10. NothingStale'
    BY <1>3, <1>4 DEF OriginInv, NothingStale, Found
  <1>11. OriginReflectsStore'
    <2>. SUFFICES ASSUME NEW d \in Devices, Found(d), intents[d].origin = intents[d].generation
                  PROVE  zone'[intents[d].hostname] = intents[d].addresses
      BY <1>3 DEF OriginReflectsStore, Found
    <2>1. zone[intents[d].hostname] = intents[d].addresses
      BY DEF OriginInv, OriginReflectsStore
    <2>2. intents[d].generation \in Nat /\ intents[d].hostname \in Hostnames
      BY <1>1 DEF PublicationInv, NamesInv, TableInv, IntentsTypeOK, Intent, OneRowPerHostname
    <2>3. wire[i].hostname # intents[d].hostname
      BY <1>2, <2>2 DEF OriginInv, NothingStale
    <2>. QED
      BY <1>3, <1>7, <2>1, <2>2, <2>3 DEF ApplyUpdate
  <1>. QED
    BY <1>5, <1>8, <1>9, <1>10, <1>11 DEF OriginInv

(* A row is marked as applied when P0 holds it and nothing is on the wire. *)
LEMMA OriginMarked ==
    ASSUME OriginInv, RecordApplied, MarkOriginApplied(First, batch[First].generation)
    PROVE  OriginInv'
  <1>1. Next /\ PublicationInv
    BY DEF Next, PublisherStep, OriginInv
  <1>2. /\ phase = "applied" /\ phase' = "publish"
        /\ UNCHANGED <<wire, zone>>
    BY DEF RecordApplied, dnsVars
  <1>3. /\ First \in Devices /\ BatchOK(First)
        /\ intents \in [Devices -> Intent]
    BY <1>1, <1>2, MarksExpected DEF PublicationInv, NamesInv, TableInv, IntentsTypeOK
  <1>4. wire = << >> /\ zone[batch[First].hostname] = batch[First].addresses
    BY <1>2 DEF OriginInv, JustApplied
  <1>5. PublicationInv'
    BY <1>1, PublicationStep
  <1>6. LiveUpdate' /\ JustApplied' /\ NothingStale'
    BY <1>2, <1>4 DEF LiveUpdate, JustApplied, NothingStale
  <1>7. OriginReflectsStore'
    <2>. SUFFICES ASSUME NEW d \in Devices, Found(d)',
                         intents'[d].origin = intents'[d].generation
                  PROVE  zone[intents'[d].hostname] = intents'[d].addresses
      BY <1>2 DEF OriginReflectsStore
    <2>1. CASE d = First /\ intents[First].generation = batch[First].generation
      <3>1. intents'[d].hostname = intents[d].hostname /\ intents'[d].addresses = intents[d].addresses
        BY <1>3, <2>1 DEF MarkOriginApplied, Intent
      <3>. QED
        BY <1>3, <1>4, <2>1, <3>1 DEF BatchOK
    <2>2. CASE intents'[d] = intents[d]
      BY <2>2 DEF OriginInv, OriginReflectsStore, Found
    <2>. QED
      BY <1>3, <2>1, <2>2 DEF MarkOriginApplied
  <1>. QED
    BY <1>5, <1>6, <1>7 DEF OriginInv

(* The three marks, and the database calls that fail. *)
LEMMA OriginMarks ==
    ASSUME OriginInv, RecordApplied \/ RecordFailure \/ RecordObserved
    PROVE  OriginInv'
  <1>1. Next /\ PublicationInv
    BY DEF Next, PublisherStep, OriginInv
  <1>2. /\ phase \in {"applied", "failed", "observed"} /\ phase' # "applied"
        /\ UNCHANGED <<wire, zone>>
    BY DEF RecordApplied, RecordFailure, RecordObserved, dnsVars
  <1>3. \A d \in Devices : intents[d] \in Intent
    BY <1>1 DEF PublicationInv, NamesInv, TableInv, IntentsTypeOK
  <1>4. CASE RecordApplied /\ MarkOriginApplied(First, batch[First].generation)
    BY <1>4, OriginMarked
  <1>5. CASE UNCHANGED intents
    BY <1>1, <1>2, <1>5, OriginNotMarked
  <1>6. CASE RecordFailure /\ MarkPublicationError(First, batch[First].generation)
    <2>1. \A d \in Devices : intents'[d].origin = intents[d].origin
      BY <1>3, <1>6 DEF MarkPublicationError, Intent
    <2>. QED
      BY <1>1, <1>2, <2>1, OriginNotMarked
  <1>7. CASE RecordObserved /\ MarkPubliclyObserved(First, batch[First].generation)
    <2>1. \A d \in Devices : intents'[d].origin = intents[d].origin
      BY <1>3, <1>7 DEF MarkPubliclyObserved, Intent
    <2>. QED
      BY <1>1, <1>2, <2>1, OriginNotMarked
  <1>. QED
    BY <1>4, <1>5, <1>6, <1>7 DEF RecordApplied, RecordFailure, RecordObserved

(* Every step keeps the invariant. *)
LEMMA OriginStep ==
    ASSUME OriginInv, ~LateUpdates, [Next]_vars
    PROVE  OriginInv'
  <1>1. PublicationInv
    BY DEF OriginInv
  <1>2. CASE (\E d \in Devices : Register(d)) \/ ControllerExpiry \/ Clock \/ StartPass
    <2>1. now \in Times
      BY <1>1, IntentsAssumption DEF PublicationInv, NamesInv, TableInv, IntentsTypeOK, Times
    <2>2. ControllerNext
      BY <1>2, <2>1 DEF ControllerNext, Register, ControllerExpiry, Clock, Tick, StartPass
    <2>3. \A d \in Devices : intents'[d].origin = intents[d].origin
      BY <1>1, <2>2, ControllerRow DEF PublicationInv, Quietly
    <2>4. UNCHANGED <<batch, wire, zone>> /\ (phase' = phase \/ phase' = "listOrigin")
      BY <1>2 DEF Register, ControllerExpiry, Clock, StartPass, publisherVars, dnsVars
    <2>. QED
      BY <2>3, <2>4, OriginNotMarked
  <1>3. CASE \/ ListOrigin \/ ListObservation \/ EndPublish
            \/ QueryAgrees \/ QueryFails \/ EndPass
    <2>1. /\ UNCHANGED <<intents, wire, zone>>
          /\ phase # "await" /\ phase' # "applied"
      BY <1>3 DEF ListOrigin, ListObservation, EndPublish, QueryAgrees, QueryFails, EndPass,
                  StartObservation, dnsVars
    <2>. QED
      BY <2>1, OriginNotMarked
  <1>4. CASE (\E s \in Servers : StartTransfer(s) \/ FinishTransfer(s)) \/ UNCHANGED vars
    <2>1. UNCHANGED <<intents, phase, batch, wire, zone>>
      BY <1>4 DEF StartTransfer, FinishTransfer, publisherVars, vars
    <2>. QED
      BY <2>1, OriginNotMarked
  <1>5. CASE Publish
    BY <1>5, OriginPublish
  <1>6. CASE GiveUp \/ Crash
    BY <1>6, OriginGivenUp
  <1>7. CASE \E i \in Handled : ApplyUpdate(i) \/ RefuseUpdate(i)
    BY <1>7, OriginHandled
  <1>8. CASE RecordApplied \/ RecordFailure \/ RecordObserved
    BY <1>8, OriginMarks
  <1>. QED
    BY <1>2, <1>3, <1>4, <1>5, <1>6, <1>7, <1>8 DEF Next, PublisherStep

(* DNS is a projection of the table: when P0 handles updates in the order   *)
(* they were sent, what the table calls applied is what P0 serves, for any  *)
(* number of devices, however often the publisher crashes, gives up or      *)
(* retries, and whatever the controller writes meanwhile (RunOnce,          *)
(* MarkOriginApplied).                                                      *)
THEOREM PublicationReflectsStore ==
    ASSUME ~LateUpdates
    PROVE  Spec => []OriginReflectsStore
  <1>1. Init => OriginInv
    <2>. SUFFICES ASSUME Init
                  PROVE  OriginInv
      OBVIOUS
    <2>1. PublicationInv
      BY PublicationInitInv
    <2>2. wire = << >> /\ phase = "idle"
      BY DEF Init
    <2>3. LiveUpdate /\ JustApplied /\ NothingStale
      BY <2>2 DEF LiveUpdate, JustApplied, NothingStale
    <2>4. OriginReflectsStore
      BY DEF Init, IntentsInit, OriginReflectsStore, Found, Inserted, Absent
    <2>. QED
      BY <2>1, <2>3, <2>4 DEF OriginInv
  <1>2. OriginInv /\ [Next]_vars => OriginInv'
    BY OriginStep
  <1>3. OriginInv => OriginReflectsStore
    BY DEF OriginInv
  <1>. QED
    BY <1>1, <1>2, <1>3, PTL DEF Spec
============================================================================

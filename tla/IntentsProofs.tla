--------------------------- MODULE IntentsProofs ---------------------------
(***************************************************************************)
(* Proofs about the intents table (module Intents), for every set of       *)
(* devices, host names and address sets, every lease duration and every    *)
(* bound.  The argument is about rows: each operation of the table puts    *)
(* in the place of a row one that `Follows' it, whatever operation it is.  *)
(***************************************************************************)
EXTENDS Intents, TLAPS

(* What is true of every stored row. *)
RowOK(row) ==
    /\ row \in Intent
    /\ row.public <= row.origin
    /\ row.origin <= row.generation

(* What every step does to every row. *)
Follows(new, row) ==
    /\ new.generation >= row.generation
    /\ new.generation = row.generation => new.addresses = row.addresses
    /\ new.origin >= row.origin
    /\ new.public >= row.public

(* Replacing fields of a row by values of their type gives a row. *)
LEMMA ReplacedFields ==
    ASSUME NEW row \in Intent, NEW A \in AddressSets, NEW g \in Nat, NEW l \in Nat
    PROVE  /\ [row EXCEPT !.addresses = A, !.generation = g, !.failed = FALSE] \in Intent
           /\ [row EXCEPT !.addresses = A, !.lease = l,
                          !.generation = g, !.failed = FALSE] \in Intent
           /\ [row EXCEPT !.lease = l] \in Intent
  <1>1. [row EXCEPT !.addresses = A, !.generation = g, !.failed = FALSE] \in Intent
    BY DEF Intent
  <1>2. [row EXCEPT !.addresses = A, !.lease = l,
                    !.generation = g, !.failed = FALSE] \in Intent
    BY DEF Intent
  <1>3. [row EXCEPT !.lease = l] \in Intent
    BY DEF Intent
  <1>. QED
    BY <1>1, <1>2, <1>3

(* Expiring a row, or leaving it alone because its lease runs, gives a      *)
(* well-formed row that follows it and keeps its host name.                 *)
LEMMA CurrentRow ==
    ASSUME NEW row, RowOK(row), NEW t \in Nat
    PROVE  /\ RowOK(Current(row, t))
           /\ Follows(Current(row, t), row)
           /\ Current(row, t).hostname = row.hostname
  <1>1. row \in Intent
    BY DEF RowOK
  <1>2. row.generation \in Nat /\ row.origin \in Nat /\ row.public \in Nat
    BY <1>1 DEF Intent
  <1>3. Expired(row) \in Intent
    <2>1. {} \in AddressSets /\ row.generation + 1 \in Nat
      BY <1>2 DEF AddressSets
    <2>2. [row EXCEPT !.addresses = {}, !.generation = row.generation + 1,
                      !.failed = FALSE] \in Intent
      BY <1>1, <2>1, ReplacedFields
    <2>. QED
      BY <2>2 DEF Expired
  <1>4. /\ Expired(row).hostname = row.hostname
        /\ Expired(row).generation = row.generation + 1
        /\ Expired(row).origin = row.origin
        /\ Expired(row).public = row.public
    BY <1>1 DEF Expired, Intent
  <1>5. RowOK(Expired(row)) /\ Follows(Expired(row), row)
    BY <1>2, <1>3, <1>4 DEF RowOK, Follows
  <1>6. Follows(row, row)
    BY <1>2 DEF Follows
  <1>. QED
    BY <1>4, <1>5, <1>6 DEF Current

(* Renewing or changing a row gives a well-formed row that follows it.      *)
LEMMA UpdatedRow ==
    ASSUME NEW row, RowOK(row), NEW A \in Payloads, NEW t \in Nat
    PROVE  /\ RowOK(Updated(row, A, t))
           /\ Follows(Updated(row, A, t), row)
           /\ Updated(row, A, t).hostname = row.hostname
           /\ Updated(row, A, t).addresses = A
  <1>1. row \in Intent
    BY DEF RowOK
  <1>2. row.generation \in Nat /\ row.origin \in Nat /\ row.public \in Nat
    BY <1>1 DEF Intent
  <1>3. Updated(row, A, t) \in Intent
    <2>1. t + LeaseDuration \in Nat /\ row.generation + 1 \in Nat
      BY <1>2, IntentsAssumption
    <2>2. A \in AddressSets
      BY DEF AddressSets
    <2>3. /\ [row EXCEPT !.addresses = A, !.lease = t + LeaseDuration,
                         !.generation = row.generation + 1, !.failed = FALSE] \in Intent
          /\ [row EXCEPT !.lease = t + LeaseDuration] \in Intent
      BY <1>1, <2>1, <2>2, ReplacedFields
    <2>. QED
      BY <2>3 DEF Updated
  <1>4. /\ Updated(row, A, t).hostname = row.hostname
        /\ Updated(row, A, t).addresses = A
        /\ Updated(row, A, t).origin = row.origin
        /\ Updated(row, A, t).public = row.public
    BY <1>1 DEF Updated, Intent
  <1>5. \/ Updated(row, A, t).generation = row.generation + 1
        \/ Updated(row, A, t).generation = row.generation /\ row.addresses = A
    BY <1>1 DEF Updated, Intent
  <1>. QED
    BY <1>2, <1>3, <1>4, <1>5 DEF RowOK, Follows

(* A new row is well formed. *)
LEMMA InsertedRow ==
    ASSUME NEW h \in Hostnames, NEW A \in Payloads, NEW t \in Nat
    PROVE  /\ RowOK(Inserted(h, A, t))
           /\ Inserted(h, A, t).hostname = h
           /\ Inserted(h, A, t).addresses = A
           /\ Inserted(h, A, t).generation = 1
  <1>1. t + LeaseDuration \in Nat /\ A \in AddressSets
    BY IntentsAssumption DEF AddressSets
  <1>2. Inserted(h, A, t) \in Intent
    BY <1>1 DEF Inserted, Intent
  <1>. QED
    BY <1>2 DEF RowOK, Inserted

(* The row a write leaves is well formed and follows the one it found. *)
LEMMA WrittenRow ==
    ASSUME NEW d \in Devices, NEW h \in Hostnames, NEW A \in Payloads, NEW t \in Nat,
           RowOK(intents[d])
    PROVE  /\ RowOK(Written(d, h, A, t))
           /\ Follows(Written(d, h, A, t), intents[d])
           /\ Written(d, h, A, t).addresses = A
           /\ Written(d, h, A, t).generation > 0
           /\ HostnameAccepted(d, h) => Written(d, h, A, t).hostname = h
  <1>1. CASE Found(d)
    <2>. DEFINE seen == Current(intents[d], t)
    <2>1. RowOK(seen) /\ Follows(seen, intents[d]) /\ seen.hostname = intents[d].hostname
      BY CurrentRow
    <2>2. /\ RowOK(Updated(seen, A, t))
          /\ Follows(Updated(seen, A, t), seen)
          /\ Updated(seen, A, t).hostname = seen.hostname
          /\ Updated(seen, A, t).addresses = A
      BY <2>1, UpdatedRow
    <2>3. Written(d, h, A, t) = Updated(seen, A, t)
      BY <1>1 DEF Written
    <2>. HIDE DEF seen
    <2>4. Follows(Updated(seen, A, t), intents[d])
      <3>1. /\ Updated(seen, A, t).generation >= seen.generation
            /\ Updated(seen, A, t).origin >= seen.origin
            /\ Updated(seen, A, t).public >= seen.public
            /\ Updated(seen, A, t).generation = seen.generation
                 => Updated(seen, A, t).addresses = seen.addresses
        BY <2>2 DEF Follows
      <3>2. /\ seen.generation >= intents[d].generation
            /\ seen.origin >= intents[d].origin
            /\ seen.public >= intents[d].public
            /\ seen.generation = intents[d].generation
                 => seen.addresses = intents[d].addresses
        BY <2>1 DEF Follows
      <3>3. /\ seen \in Intent
            /\ intents[d] \in Intent
            /\ Updated(seen, A, t) \in Intent
        BY <2>1, <2>2 DEF RowOK
      <3>. QED
        BY <3>1, <3>2, <3>3 DEF Follows, Intent
    <2>5. Updated(seen, A, t).generation > 0
      BY <2>4, <2>2, <1>1 DEF Follows, Found, RowOK, Intent
    <2>. QED
      BY <1>1, <2>1, <2>2, <2>3, <2>4, <2>5 DEF HostnameAccepted
  <1>2. CASE ~Found(d)
    <2>1. Written(d, h, A, t) = Inserted(h, A, t)
      BY <1>2 DEF Written
    <2>2. intents[d].generation = 0 /\ intents[d].origin = 0 /\ intents[d].public = 0
      BY <1>2 DEF Found, RowOK, Intent
    <2>. QED
      BY <2>1, <2>2, InsertedRow DEF Follows, Inserted
  <1>. QED
    BY <1>1, <1>2

----------------------------------------------------------------------------
(* The inductive invariant of the table. *)
TableInv == IntentsTypeOK /\ ProgressOrdered

(* A step that replaces one row by a well-formed row that follows it, and    *)
(* leaves the clock alone, keeps the invariant and makes every row follow.  *)
LEMMA OneRowStep ==
    ASSUME TableInv, NEW d \in Devices, NEW row,
           RowOK(row), Follows(row, intents[d]),
           intents' = [intents EXCEPT ![d] = row], UNCHANGED now
    PROVE  TableInv' /\ \A e \in Devices : Follows(intents'[e], intents[e])
  <1>1. intents' \in [Devices -> Intent]
    BY DEF TableInv, IntentsTypeOK, RowOK
  <1>2. ASSUME NEW e \in Devices
        PROVE  RowOK(intents'[e]) /\ Follows(intents'[e], intents[e])
    <2>1. CASE e = d
      BY <2>1 DEF TableInv, IntentsTypeOK
    <2>2. CASE e # d
      <3>1. intents'[e] = intents[e] /\ intents[e] \in Intent
        BY <2>2 DEF TableInv, IntentsTypeOK
      <3>. QED
        BY <3>1 DEF TableInv, ProgressOrdered, RowOK, Follows, Intent
    <2>. QED
      BY <2>1, <2>2
  <1>. QED
    BY <1>1, <1>2 DEF TableInv, IntentsTypeOK, ProgressOrdered, RowOK

(* Under the invariant every row is well formed, and follows itself. *)
LEMMA InvRow ==
    ASSUME TableInv, NEW d \in Devices
    PROVE  RowOK(intents[d]) /\ Follows(intents[d], intents[d])
  <1>1. intents[d] \in Intent
    BY DEF TableInv, IntentsTypeOK
  <1>. QED
    BY <1>1 DEF TableInv, ProgressOrdered, RowOK, Follows, Intent

(* The publisher's marks put a well-formed row that follows in the place of *)
(* the row they name, or change nothing.                                    *)
LEMMA MarkedRow ==
    ASSUME TableInv, NEW d \in Devices, NEW g \in Nat,
           \/ MarkOriginApplied(d, g)
           \/ MarkPubliclyObserved(d, g)
           \/ MarkPublicationError(d, g)
    PROVE  \E row : /\ RowOK(row)
                    /\ Follows(row, intents[d])
                    /\ row.hostname = intents[d].hostname
                    /\ row.generation = intents[d].generation
                    /\ intents' = [intents EXCEPT ![d] = row]
  <1>1. RowOK(intents[d]) /\ Follows(intents[d], intents[d])
    BY InvRow
  <1>2. /\ intents[d] \in Intent
        /\ intents \in [Devices -> Intent]
        /\ intents[d].generation \in Nat
        /\ intents[d].origin \in Nat
        /\ intents[d].public \in Nat
    BY <1>1 DEF RowOK, Intent, TableInv, IntentsTypeOK
  <1>3. CASE intents' = intents
    <2>1. intents' = [intents EXCEPT ![d] = intents[d]]
      BY <1>2, <1>3
    <2>. QED
      BY <1>1, <2>1
  <1>4. CASE intents[d].generation = g /\ MarkOriginApplied(d, g)
    <2>. DEFINE row == [intents[d] EXCEPT !.origin = g, !.failed = FALSE]
    <2>1. /\ row \in Intent
          /\ row.origin = g
          /\ row.public = intents[d].public
          /\ row.hostname = intents[d].hostname
          /\ row.addresses = intents[d].addresses
          /\ row.generation = intents[d].generation
      BY <1>2 DEF Intent
    <2>2. intents' = [intents EXCEPT ![d] = row]
      BY <1>2, <1>4 DEF MarkOriginApplied
    <2>. HIDE DEF row
    <2>3. RowOK(row) /\ Follows(row, intents[d])
      BY <1>1, <1>2, <1>4, <2>1 DEF RowOK, Follows
    <2>. QED
      BY <2>1, <2>2, <2>3
  <1>5. CASE /\ intents[d].generation = g
             /\ intents[d].origin >= g
             /\ MarkPubliclyObserved(d, g)
    <2>. DEFINE row == [intents[d] EXCEPT !.public = g]
    <2>1. /\ row \in Intent
          /\ row.origin = intents[d].origin
          /\ row.public = g
          /\ row.hostname = intents[d].hostname
          /\ row.addresses = intents[d].addresses
          /\ row.generation = intents[d].generation
      BY <1>2 DEF Intent
    <2>2. intents' = [intents EXCEPT ![d] = row]
      BY <1>2, <1>5 DEF MarkPubliclyObserved
    <2>. HIDE DEF row
    <2>3. RowOK(row) /\ Follows(row, intents[d])
      BY <1>1, <1>2, <1>5, <2>1 DEF RowOK, Follows
    <2>. QED
      BY <2>1, <2>2, <2>3
  <1>6. CASE intents[d].generation = g /\ MarkPublicationError(d, g)
    <2>. DEFINE row == [intents[d] EXCEPT !.failed = TRUE]
    <2>1. /\ row \in Intent
          /\ row.origin = intents[d].origin
          /\ row.public = intents[d].public
          /\ row.hostname = intents[d].hostname
          /\ row.addresses = intents[d].addresses
          /\ row.generation = intents[d].generation
      BY <1>2 DEF Intent
    <2>2. intents' = [intents EXCEPT ![d] = row]
      BY <1>2, <1>6 DEF MarkPublicationError
    <2>. HIDE DEF row
    <2>3. RowOK(row) /\ Follows(row, intents[d])
      BY <1>1, <1>2, <2>1 DEF RowOK, Follows
    <2>. QED
      BY <2>1, <2>2, <2>3
  <1>. QED
    BY <1>3, <1>4, <1>5, <1>6
       DEF MarkOriginApplied, MarkPubliclyObserved, MarkPublicationError

----------------------------------------------------------------------------
(* Every step of the table keeps the invariant and makes every row follow   *)
(* the one it replaces.                                                     *)
LEMMA TableStep ==
    ASSUME TableInv, [IntentsNext]_intentsVars
    PROVE  TableInv' /\ \A e \in Devices : Follows(intents'[e], intents[e])
  <1>. USE DEF TableInv
  <1>0. now \in Nat /\ Times \subseteq Nat /\ intents \in [Devices -> Intent]
    BY IntentsAssumption DEF IntentsTypeOK, Times
  <1>1. ASSUME NEW d \in Devices, NEW h \in Hostnames, NEW A \in Payloads,
               NEW t \in Times, Write(d, h, A, t)
        PROVE  TableInv' /\ \A e \in Devices : Follows(intents'[e], intents[e])
    <2>1. RowOK(intents[d])
      BY InvRow
    <2>2. RowOK(Written(d, h, A, t)) /\ Follows(Written(d, h, A, t), intents[d])
      BY <1>0, <2>1, WrittenRow
    <2>3. intents' = [intents EXCEPT ![d] = Written(d, h, A, t)] /\ UNCHANGED now
      BY <1>1 DEF Write
    <2>. QED
      BY <2>2, <2>3, OneRowStep
  <1>2. ASSUME NEW d \in Devices, NEW t \in Times, RealizeExpiry(d, t)
        PROVE  TableInv' /\ \A e \in Devices : Follows(intents'[e], intents[e])
    <2>1. RowOK(intents[d])
      BY InvRow
    <2>2. RowOK(Current(intents[d], t)) /\ Follows(Current(intents[d], t), intents[d])
      BY <1>0, <2>1, CurrentRow
    <2>3. intents' = [intents EXCEPT ![d] = Current(intents[d], t)] /\ UNCHANGED now
      BY <1>2 DEF RealizeExpiry
    <2>. QED
      BY <2>2, <2>3, OneRowStep
  <1>3. ASSUME NEW t \in Times, ExpireLeases(t)
        PROVE  TableInv' /\ \A e \in Devices : Follows(intents'[e], intents[e])
    <2>1. ASSUME NEW e \in Devices
          PROVE  RowOK(intents'[e]) /\ Follows(intents'[e], intents[e])
      <3>1. RowOK(intents[e])
        BY InvRow
      <3>2. intents'[e] = Current(intents[e], t)
        BY <1>3 DEF ExpireLeases
      <3>. QED
        BY <1>0, <3>1, <3>2, CurrentRow
    <2>2. intents' \in [Devices -> Intent]
      <3>1. intents' = [e \in Devices |-> Current(intents[e], t)]
        BY <1>3 DEF ExpireLeases
      <3>2. \A e \in Devices : Current(intents[e], t) \in Intent
        BY <2>1, <3>1 DEF RowOK
      <3>. QED
        BY <3>1, <3>2
    <2>. QED
      BY <1>3, <2>1, <2>2 DEF ExpireLeases, IntentsTypeOK, ProgressOrdered, RowOK
  <1>4. ASSUME NEW d \in Devices, NEW g \in 1 .. intents[d].generation,
               \/ MarkOriginApplied(d, g)
               \/ MarkPubliclyObserved(d, g)
               \/ MarkPublicationError(d, g)
        PROVE  TableInv' /\ \A e \in Devices : Follows(intents'[e], intents[e])
    <2>1. g \in Nat
      BY <1>0 DEF Intent
    <2>2. PICK row : /\ RowOK(row)
                     /\ Follows(row, intents[d])
                     /\ intents' = [intents EXCEPT ![d] = row]
      BY <1>4, <2>1, MarkedRow
    <2>3. UNCHANGED now
      BY <1>4 DEF MarkOriginApplied, MarkPubliclyObserved, MarkPublicationError
    <2>. QED
      BY <2>2, <2>3, OneRowStep
  <1>5. CASE Tick
    <2>1. intents' = intents /\ now' \in 0 .. MaxTime
      BY <1>0, <1>5, IntentsAssumption DEF Tick
    <2>. QED
      BY <2>1, InvRow DEF IntentsTypeOK, ProgressOrdered
  <1>6. CASE UNCHANGED intentsVars
    <2>1. intents' = intents /\ now' = now
      BY <1>6 DEF intentsVars
    <2>. QED
      BY <2>1, InvRow DEF IntentsTypeOK, ProgressOrdered
  <1>. QED
    BY <1>1, <1>2, <1>3, <1>4, <1>5, <1>6 DEF IntentsNext

(* The initial table satisfies the invariant. *)
LEMMA TableInit ==
    ASSUME IntentsInit
    PROVE  TableInv
  <1>1. Absent \in Intent
    BY DEF Absent, Intent, AddressSets
  <1>2. ASSUME NEW d \in Devices
        PROVE  RowOK(intents[d])
    <2>1. CASE intents[d] = Absent
      BY <1>1, <2>1 DEF RowOK, Absent
    <2>2. ASSUME NEW h \in Hostnames, NEW A \in Payloads, intents[d] = Inserted(h, A, 0)
          PROVE  RowOK(intents[d])
      BY <2>2, InsertedRow
    <2>. QED
      BY <2>1, <2>2 DEF IntentsInit
  <1>3. intents \in [Devices -> Intent]
    <2>1. \A d \in Devices : intents[d] \in Intent
      BY <1>2 DEF RowOK
    <2>2. intents = [d \in Devices |-> intents[d]]
      BY DEF IntentsInit
    <2>. QED
      BY <2>1, <2>2
  <1>. QED
    BY <1>2, <1>3, IntentsAssumption
       DEF TableInv, IntentsTypeOK, ProgressOrdered, RowOK, IntentsInit

(* The table is always well typed and publication progress is always        *)
(* ordered, whatever the controller, expiry and the publisher do to it.     *)
THEOREM TableCorrect == IntentsSpec => [](IntentsTypeOK /\ ProgressOrdered)
  <1>1. IntentsInit => TableInv
    BY TableInit
  <1>2. TableInv /\ [IntentsNext]_intentsVars => TableInv'
    BY TableStep
  <1>. QED
    BY <1>1, <1>2, PTL DEF IntentsSpec, TableInv

(* A generation names one address set and is never taken back. *)
THEOREM GenerationsName == IntentsSpec => GenerationNamesAddresses
  <1>1. TableInv /\ [IntentsNext]_intentsVars =>
          [\A d \in Devices :
             /\ intents'[d].generation >= intents[d].generation
             /\ intents'[d].generation = intents[d].generation
                  => intents'[d].addresses = intents[d].addresses]_intentsVars
    BY TableStep DEF Follows
  <1>2. IntentsSpec => []TableInv
    BY TableCorrect, PTL DEF TableInv
  <1>. QED
    BY <1>1, <1>2, PTL DEF IntentsSpec, GenerationNamesAddresses

(* Publication progress is never taken back. *)
THEOREM ProgressNeverLost == IntentsSpec => ProgressKept
  <1>1. TableInv /\ [IntentsNext]_intentsVars =>
          [\A d \in Devices :
             /\ intents'[d].origin >= intents[d].origin
             /\ intents'[d].public >= intents[d].public]_intentsVars
    BY TableStep DEF Follows
  <1>2. IntentsSpec => []TableInv
    BY TableCorrect, PTL DEF TableInv
  <1>. QED
    BY <1>1, <1>2, PTL DEF IntentsSpec, ProgressKept

----------------------------------------------------------------------------
(* Host names.  The column is UNIQUE, so that a name in DNS has one row it  *)
(* is the projection of.  A device without a row has no addresses, so that  *)
(* expiry does not touch it; every step but a write keeps all names.        *)
AbsentBare == \A d \in Devices : ~Found(d) => intents[d].addresses = {}

OneRowPerHostname ==
    \A d, e \in Devices :
        /\ Found(d) <=> intents[d].hostname # NoHostname
        /\ d # e /\ Found(d) => intents[d].hostname # intents[e].hostname

NamesInv == TableInv /\ OneRowPerHostname /\ AbsentBare

KeepsName(new, row) ==
    /\ new.hostname = row.hostname
    /\ new.generation > 0 <=> row.generation > 0
    /\ ~(row.generation > 0) => new.addresses = {}

(* The row a transaction sees has the name of the row that is stored. *)
LEMMA CurrentKeepsName ==
    ASSUME NamesInv, NEW d \in Devices, NEW t \in Nat
    PROVE  KeepsName(Current(intents[d], t), intents[d]) /\ KeepsName(intents[d], intents[d])
  <1>1. RowOK(intents[d])
    BY InvRow DEF NamesInv
  <1>2. intents[d] \in Intent /\ intents[d].generation \in Nat
    BY <1>1 DEF RowOK, Intent
  <1>3. KeepsName(intents[d], intents[d])
    BY DEF NamesInv, AbsentBare, Found, KeepsName
  <1>4. CASE Lapsed(intents[d], t)
    <2>1. intents[d].generation > 0
      BY <1>4 DEF NamesInv, AbsentBare, Found, Lapsed
    <2>2. /\ Expired(intents[d]).generation = intents[d].generation + 1
          /\ Expired(intents[d]).hostname = intents[d].hostname
      BY <1>2 DEF Expired, Intent
    <2>3. KeepsName(Expired(intents[d]), intents[d])
      BY <1>2, <2>1, <2>2 DEF KeepsName
    <2>. QED
      BY <1>3, <1>4, <2>3 DEF Current
  <1>5. CASE ~Lapsed(intents[d], t)
    BY <1>3, <1>5 DEF Current
  <1>. QED
    BY <1>4, <1>5

(* A step under which every row keeps its name keeps the invariant. *)
LEMMA NamesKept ==
    ASSUME NamesInv, TableInv', \A d \in Devices : KeepsName(intents'[d], intents[d])
    PROVE  NamesInv'
  <1>1. OneRowPerHostname'
    BY DEF NamesInv, OneRowPerHostname, Found, KeepsName
  <1>2. AbsentBare'
    BY DEF AbsentBare, Found, KeepsName
  <1>. QED
    BY <1>1, <1>2 DEF NamesInv

(* A write gives its row a name that no other row has. *)
LEMMA NamesWritten ==
    ASSUME NamesInv, TableInv', NEW d \in Devices, NEW h \in Hostnames, NEW A \in Payloads,
           NEW t \in Nat, Write(d, h, A, t)
    PROVE  NamesInv'
  <1>1. RowOK(intents[d])
    BY InvRow DEF NamesInv
  <1>2. /\ HostnameAccepted(d, h)
        /\ intents' = [intents EXCEPT ![d] = Written(d, h, A, t)]
        /\ intents \in [Devices -> Intent]
    BY DEF Write, NamesInv, TableInv, IntentsTypeOK
  <1>3. intents'[d].hostname = h /\ intents'[d].generation > 0
    BY <1>1, <1>2, WrittenRow
  <1>4. \A e \in Devices \ {d} : intents'[e] = intents[e] /\ intents[e].hostname # h
    BY <1>2 DEF HostnameAccepted
  <1>5. h # NoHostname
    BY IntentsAssumption
  <1>6. OneRowPerHostname'
    BY <1>3, <1>4, <1>5 DEF NamesInv, OneRowPerHostname, Found
  <1>7. AbsentBare'
    BY <1>3, <1>4 DEF NamesInv, AbsentBare, Found
  <1>. QED
    BY <1>6, <1>7 DEF NamesInv

(* A step of the table that is no write. *)
QuietNext ==
    \/ \E d \in Devices, t \in Times : RealizeExpiry(d, t)
    \/ \E t \in Times : ExpireLeases(t)
    \/ \E d \in Devices : \E g \in 1 .. intents[d].generation :
          \/ MarkOriginApplied(d, g)
          \/ MarkPubliclyObserved(d, g)
          \/ MarkPublicationError(d, g)
    \/ UNCHANGED intents

(* Only a write creates a row or gives one its name. *)
LEMMA QuietKeepsNames ==
    ASSUME NamesInv, QuietNext
    PROVE  \A e \in Devices : KeepsName(intents'[e], intents[e])
  <1>0. TableInv /\ now \in Nat /\ Times \subseteq Nat /\ intents \in [Devices -> Intent]
    BY IntentsAssumption DEF NamesInv, TableInv, IntentsTypeOK, Times
  <1>. SUFFICES ASSUME NEW e \in Devices PROVE KeepsName(intents'[e], intents[e])
    OBVIOUS
  <1>1. ASSUME NEW d \in Devices, NEW t \in Times, RealizeExpiry(d, t)
        PROVE  KeepsName(intents'[e], intents[e])
    <2>1. intents'[e] = Current(intents[e], t) \/ intents'[e] = intents[e]
      BY <1>0, <1>1 DEF RealizeExpiry
    <2>. QED
      BY <1>0, <2>1, CurrentKeepsName
  <1>2. ASSUME NEW t \in Times, ExpireLeases(t)
        PROVE  KeepsName(intents'[e], intents[e])
    BY <1>0, <1>2, CurrentKeepsName DEF ExpireLeases
  <1>3. ASSUME NEW d \in Devices, NEW g \in 1 .. intents[d].generation,
               \/ MarkOriginApplied(d, g)
               \/ MarkPubliclyObserved(d, g)
               \/ MarkPublicationError(d, g)
        PROVE  KeepsName(intents'[e], intents[e])
    <2>1. g \in Nat /\ g > 0 /\ intents[d].generation > 0
      BY <1>0 DEF Intent
    <2>2. PICK row : /\ row.hostname = intents[d].hostname
                     /\ row.generation = intents[d].generation
                     /\ intents' = [intents EXCEPT ![d] = row]
      BY <1>0, <1>3, <2>1, MarkedRow
    <2>3. CASE e = d
      BY <1>0, <2>1, <2>2, <2>3 DEF KeepsName
    <2>4. CASE e # d
      <3>1. intents'[e] = intents[e]
        BY <1>0, <2>2, <2>4
      <3>. QED
        BY <1>0, <3>1, CurrentKeepsName
    <2>. QED
      BY <2>3, <2>4
  <1>4. CASE UNCHANGED intents
    BY <1>0, <1>4, CurrentKeepsName
  <1>. QED
    BY <1>1, <1>2, <1>3, <1>4 DEF QuietNext

(* Every step of the table is a write or a quiet one. *)
LEMMA WriteOrQuiet ==
    ASSUME [IntentsNext]_intentsVars
    PROVE  \/ QuietNext
           \/ \E d \in Devices, h \in Hostnames, A \in Payloads, t \in Times :
                 Write(d, h, A, t)
  BY DEF IntentsNext, QuietNext, Tick, intentsVars

(* Every step of the table keeps the invariant on names. *)
LEMMA NamesStep ==
    ASSUME NamesInv, [IntentsNext]_intentsVars
    PROVE  NamesInv'
  <1>1. TableInv' /\ Times \subseteq Nat
    BY TableStep, IntentsAssumption DEF NamesInv, TableInv, IntentsTypeOK, Times
  <1>2. CASE QuietNext
    BY <1>1, <1>2, QuietKeepsNames, NamesKept
  <1>3. ASSUME NEW d \in Devices, NEW h \in Hostnames, NEW A \in Payloads,
               NEW t \in Times, Write(d, h, A, t)
        PROVE  NamesInv'
    BY <1>1, <1>3, NamesWritten
  <1>. QED
    BY <1>2, <1>3, WriteOrQuiet

(* The initial table satisfies the invariant on names. *)
LEMMA NamesInit ==
    ASSUME IntentsInit
    PROVE  NamesInv
  <1>1. ASSUME NEW d \in Devices
        PROVE  /\ Found(d) <=> intents[d].hostname # NoHostname
               /\ ~Found(d) => intents[d].addresses = {}
    <2>1. CASE intents[d] = Absent
      BY <2>1 DEF Absent, Found
    <2>2. ASSUME NEW h \in Hostnames, NEW A \in Payloads, intents[d] = Inserted(h, A, 0)
          PROVE  Found(d) /\ intents[d].hostname # NoHostname
      BY <2>2, InsertedRow, IntentsAssumption DEF Found
    <2>. QED
      BY <2>1, <2>2 DEF IntentsInit
  <1>. QED
    BY <1>1, TableInit DEF NamesInv, OneRowPerHostname, AbsentBare, IntentsInit

----------------------------------------------------------------------------
(* The bound on generations leaves room for the expiry of what has          *)
(* addresses, so that it never stops a lease from running out.              *)
BoundedRow(row) ==
    /\ row.generation <= MaxGeneration
    /\ row.addresses # {} => row.generation < MaxGeneration

GenerationsBounded ==
    \A d \in Devices : BoundedRow(intents[d])

(* The row a transaction sees is within the bound. *)
LEMMA CurrentBounded ==
    ASSUME NEW row \in Intent, BoundedRow(row), NEW t \in Nat
    PROVE  BoundedRow(Current(row, t))
  <1>1. row.generation \in Nat /\ MaxGeneration \in Nat
    BY IntentsAssumption DEF Intent
  <1>2. CASE Lapsed(row, t)
    <2>1. Current(row, t).generation = row.generation + 1 /\ Current(row, t).addresses = {}
      BY <1>2 DEF Current, Expired, Intent
    <2>2. row.generation < MaxGeneration
      BY <1>2 DEF Lapsed, BoundedRow
    <2>. QED
      BY <1>1, <2>1, <2>2 DEF BoundedRow
  <1>3. CASE ~Lapsed(row, t)
    BY <1>3 DEF Current
  <1>. QED
    BY <1>2, <1>3

(* Every step of the table stays within the bound. *)
LEMMA BoundedStep ==
    ASSUME TableInv, GenerationsBounded, [IntentsNext]_intentsVars
    PROVE  GenerationsBounded'
  <1>. SUFFICES ASSUME NEW e \in Devices PROVE BoundedRow(intents'[e])
    BY DEF GenerationsBounded, BoundedRow
  <1>1. /\ intents \in [Devices -> Intent] /\ BoundedRow(intents[e])
        /\ intents[e].generation \in Nat
    BY DEF TableInv, IntentsTypeOK, GenerationsBounded, BoundedRow, Intent
  <1>2. Times \subseteq Nat
    BY IntentsAssumption DEF TableInv, IntentsTypeOK, Times
  <1>3. ASSUME NEW d \in Devices, NEW h \in Hostnames, NEW A \in Payloads,
               NEW t \in Times, Write(d, h, A, t)
        PROVE  BoundedRow(intents'[e])
    <2>1. CASE e = d
      <3>1. intents'[e].generation < MaxGeneration
        BY <1>1, <1>3, <2>1 DEF Write
      <3>2. intents'[e].generation \in Nat
        BY <1>3, <2>1, TableStep DEF TableInv, IntentsTypeOK, Intent, IntentsNext
      <3>. QED
        BY <3>1, <3>2, IntentsAssumption DEF BoundedRow
    <2>2. CASE e # d
      BY <1>1, <1>3, <2>2 DEF Write
    <2>. QED
      BY <2>1, <2>2
  <1>4. ASSUME NEW t \in Times, ExpireLeases(t) \/ \E d \in Devices : RealizeExpiry(d, t)
        PROVE  BoundedRow(intents'[e])
    <2>1. intents'[e] = Current(intents[e], t) \/ intents'[e] = intents[e]
      BY <1>1, <1>4 DEF ExpireLeases, RealizeExpiry
    <2>2. BoundedRow(Current(intents[e], t))
      BY <1>1, <1>2, CurrentBounded
    <2>. QED
      BY <1>1, <2>1, <2>2
  <1>5. ASSUME NEW d \in Devices, NEW g \in 1 .. intents[d].generation,
               \/ MarkOriginApplied(d, g)
               \/ MarkPubliclyObserved(d, g)
               \/ MarkPublicationError(d, g)
        PROVE  BoundedRow(intents'[e])
    <2>1. g \in Nat
      BY <1>1 DEF Intent
    <2>2. PICK row : /\ Follows(row, intents[d])
                     /\ row.generation = intents[d].generation
                     /\ intents' = [intents EXCEPT ![d] = row]
      BY <1>5, <2>1, MarkedRow
    <2>3. row.addresses = intents[d].addresses
      BY <2>2 DEF Follows
    <2>. QED
      BY <1>1, <2>2, <2>3 DEF BoundedRow
  <1>6. CASE UNCHANGED intents
    BY <1>1, <1>6
  <1>. QED
    BY <1>3, <1>4, <1>5, <1>6 DEF IntentsNext, Tick, intentsVars

(* ... and so does what an earlier release left. *)
LEMMA BoundedInit ==
    ASSUME IntentsInit
    PROVE  GenerationsBounded
  <1>. SUFFICES ASSUME NEW d \in Devices PROVE BoundedRow(intents[d])
    BY DEF GenerationsBounded, BoundedRow
  <1>1. intents[d].generation \in Nat /\ intents[d].generation < MaxGeneration
    BY TableInit DEF TableInv, IntentsTypeOK, Intent, IntentsInit
  <1>. QED
    BY <1>1, IntentsAssumption DEF BoundedRow
============================================================================

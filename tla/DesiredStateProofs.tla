------------------------- MODULE DesiredStateProofs -------------------------
(***************************************************************************)
(* Proofs about the desired-state store (module DesiredState).  The store  *)
(* implements the intents table's own specification, so what module        *)
(* IntentsProofs proves of the table holds of the store; the rest is about *)
(* the idempotency table and its relation to the intents.                  *)
(***************************************************************************)
EXTENDS DesiredState, IntentsProofs

(* Every step of the store is a step of the intents table, or none of it.   *)
LEMMA StoreStepIsTableStep ==
    ASSUME [Next]_storeVars
    PROVE  [IntentsNext]_intentsVars
  <1>1. ASSUME NEW d \in Devices, NEW h \in Hostnames, NEW A \in Payloads, NEW k \in Keys,
               NEW p \in Preconditions, NEW t \in Times, NEW m \in RenewAfterMillis,
               UpsertIntent(d, h, A, k, p, t, m)
        PROVE  [IntentsNext]_intentsVars
    <2>1. CASE UpsertAccept(d, h, A, k, p, t, m)
      <3>1. Write(d, h, A, t)
        BY <2>1 DEF UpsertAccept
      <3>. QED
        BY <3>1 DEF IntentsNext
    <2>2. CASE UpsertStale(d, h, A, k, p, t, m)
      <3>1. RealizeExpiry(d, t)
        BY <2>2 DEF UpsertStale
      <3>. QED
        BY <3>1 DEF IntentsNext
    <2>3. CASE UpsertReplay(d, h, A, k, p, t, m)
      BY <2>3 DEF UpsertReplay, intentsVars
    <2>4. CASE \/ UpsertConflict(d, h, A, k, p, t, m)
               \/ UpsertUnconditional(d, h, A, k, p, t, m)
               \/ UpsertMisnamed(d, h, A, k, p, t, m)
      BY <2>4 DEF UpsertConflict, UpsertUnconditional, UpsertMisnamed, storeVars, intentsVars
    <2>. QED
      BY <1>1, <2>1, <2>2, <2>3, <2>4 DEF UpsertIntent
  <1>2. CASE UNCHANGED storeVars
    BY <1>2 DEF storeVars, intentsVars
  <1>3. ASSUME NEW t \in Times, ExpireLeases(t)
        PROVE  [IntentsNext]_intentsVars
    BY <1>3 DEF IntentsNext
  <1>4. ASSUME NEW d \in Devices, NEW g \in 1 .. intents[d].generation,
               \/ MarkOriginApplied(d, g)
               \/ MarkPubliclyObserved(d, g)
               \/ MarkPublicationError(d, g)
        PROVE  [IntentsNext]_intentsVars
    BY <1>4 DEF IntentsNext
  <1>5. CASE Tick
    BY <1>5 DEF IntentsNext
  <1>. QED
    BY <1>1, <1>2, <1>3, <1>4, <1>5 DEF Next

(* The store implements the table: idempotency keys and preconditions only  *)
(* restrict which of the table's writes happen, and a refused write changes *)
(* nothing but the expiry it found due.                                     *)
THEOREM StoreImplementsTable == Spec => IntentsSpec
  <1>1. Init => IntentsInit
    BY DEF Init
  <1>2. [Next]_storeVars => [IntentsNext]_intentsVars
    BY StoreStepIsTableStep
  <1>. QED
    BY <1>1, <1>2, PTL DEF Spec, IntentsSpec

(* In the store, publication progress is always ordered. *)
THEOREM StoreProgressOrdered == Spec => []ProgressOrdered
  BY StoreImplementsTable, TableCorrect, PTL

(* In the store, a generation names one address set and is never taken back. *)
THEOREM StoreGenerationsName == Spec => GenerationNamesAddresses
  BY StoreImplementsTable, GenerationsName, PTL

(* In the store, publication progress is never taken back. *)
THEOREM StoreProgressNeverLost == Spec => ProgressKept
  BY StoreImplementsTable, ProgressNeverLost, PTL

----------------------------------------------------------------------------
(* What is true of every row of the idempotency table: it was answered for  *)
(* a generation that is still there with its addresses, or was replaced.    *)
RowsKept ==
    \A r \in idempotency :
        /\ r.intent.generation <= intents[r.device].generation
        /\ r.intent.generation = intents[r.device].generation
             => r.addresses = intents[r.device].addresses

(* Every key has at most one row: the primary key is never violated by the  *)
(* order in which UpsertIntent looks a key up and inserts it.               *)
OneRowPerKey ==
    \A r1, r2 \in idempotency :
        r1.device = r2.device /\ r1.key = r2.key => r1 = r2

(* Every answer is that of a row. *)
RepliesRecorded ==
    \A r \in replies : \E row \in idempotency :
        /\ row.device = r.device
        /\ row.key = r.key
        /\ row.addresses = r.addresses
        /\ row.intent = r.intent
        /\ row.precondition = r.precondition

(* The inductive invariant of the store. *)
StoreInv ==
    /\ TableInv
    /\ idempotency \subseteq IdempotencyRow
    /\ replies \subseteq IdempotencyRow
    /\ OneRowPerKey
    /\ RowsKept
    /\ RepliesRecorded
    /\ SingleSuccessor

(* The initial store satisfies the invariant. *)
LEMMA StoreInit ==
    ASSUME Init
    PROVE  StoreInv
  <1>1. TableInv
    BY TableInit DEF Init
  <1>2. replies = {} /\ idempotency = {MigratedRow(d) : d \in {e \in Devices : Found(e)}}
    BY DEF Init
  <1>3. ASSUME NEW d \in Devices, Found(d)
        PROVE  /\ MigratedRow(d) \in IdempotencyRow
               /\ MigratedRow(d).device = d
               /\ MigratedRow(d).key = LegacyKey
               /\ MigratedRow(d).intent = intents[d]
               /\ MigratedRow(d).addresses = intents[d].addresses
               /\ Migrated(MigratedRow(d))
    <2>1. intents[d] \in Intent
      BY <1>1 DEF TableInv, IntentsTypeOK
    <2>2. intents[d].addresses \in Payloads
      <3>1. intents[d] # Absent
        BY <1>3 DEF Found, Absent
      <3>2. PICK h \in Hostnames, A \in Payloads : intents[d] = Inserted(h, A, 0)
        BY <3>1 DEF Init, IntentsInit
      <3>. QED
        BY <3>2, InsertedRow
    <2>3. BlankKey \in PreconditionKeys
      BY DEF BlankKey, PreconditionKeys
    <2>. QED
      BY <2>1, <2>2, <2>3, DesiredStateAssumption DEF MigratedRow, IdempotencyRow, Migrated
  <1>4. idempotency \subseteq IdempotencyRow
    BY <1>2, <1>3
  <1>5. OneRowPerKey
    BY <1>2, <1>3 DEF OneRowPerKey
  <1>6. RowsKept
    <2>1. ASSUME NEW r \in idempotency
          PROVE  /\ r.intent = intents[r.device]
                 /\ r.addresses = intents[r.device].addresses
                 /\ r.intent.generation \in Nat
      <3>1. PICK d \in Devices : Found(d) /\ r = MigratedRow(d)
        BY <1>2
      <3>2. intents[d].generation \in Nat
        BY <1>1 DEF TableInv, IntentsTypeOK, Intent
      <3>. QED
        BY <1>3, <3>1, <3>2
    <2>. QED
      BY <2>1 DEF RowsKept
  <1>7. SingleSuccessor
    BY <1>2, <1>3 DEF SingleSuccessor
  <1>. QED
    BY <1>1, <1>2, <1>4, <1>5, <1>6, <1>7 DEF StoreInv, RepliesRecorded

(* Rows of the idempotency table stay true of the intents as these move on. *)
LEMMA KeptStep ==
    ASSUME StoreInv, TableInv',
           \A e \in Devices : Follows(intents'[e], intents[e]),
           NEW r \in idempotency
    PROVE  /\ r.intent.generation <= intents'[r.device].generation
           /\ r.intent.generation = intents'[r.device].generation
                => r.addresses = intents'[r.device].addresses
  <1>1. r.device \in Devices /\ r.intent \in Intent
    BY DEF StoreInv, IdempotencyRow
  <1>2. /\ r.intent.generation \in Nat
        /\ intents[r.device].generation \in Nat
        /\ intents'[r.device].generation \in Nat
    BY <1>1 DEF StoreInv, TableInv, IntentsTypeOK, Intent
  <1>3. /\ r.intent.generation <= intents[r.device].generation
        /\ r.intent.generation = intents[r.device].generation
             => r.addresses = intents[r.device].addresses
    BY DEF StoreInv, RowsKept
  <1>4. /\ intents'[r.device].generation >= intents[r.device].generation
        /\ intents'[r.device].generation = intents[r.device].generation
             => intents'[r.device].addresses = intents[r.device].addresses
    BY <1>1 DEF Follows
  <1>. QED
    BY <1>2, <1>3, <1>4

(* The stored text of a precondition has its type, and under Holds it names *)
(* the generation of the row that was found.                                *)
LEMMA KeyOfPrecondition ==
    ASSUME NEW p \in Preconditions
    PROVE  /\ PreconditionKey(p) \in PreconditionKeys
           /\ PreconditionKey(p) # BlankKey
           /\ \A row : Valid(p) /\ Holds(p, row)
                         => PreconditionKey(p).generation = row.generation
  <1>1. p \in Precondition
    <2>1. CASE p = NoPrecondition \/ p = RequireAbsent
      <3>1. NoPrecondition \in Precondition
        BY DEF NoPrecondition, Precondition
      <3>2. RequireAbsent \in Precondition
        BY DEF RequireAbsent, Precondition
      <3>. QED
        BY <2>1, <3>1, <3>2
    <2>2. ASSUME NEW g \in 1 .. MaxGeneration, p = MatchGeneration(g)
          PROVE  p \in Precondition
      <3>1. g \in Nat
        BY IntentsAssumption
      <3>. QED
        BY <2>2, <3>1 DEF MatchGeneration, Precondition
    <2>. QED
      BY <2>1, <2>2 DEF Preconditions
  <1>2. PreconditionKey(p) \in PreconditionKeys /\ PreconditionKey(p) # BlankKey
    BY <1>1 DEF PreconditionKey, PreconditionKeys, BlankKey, Precondition
  <1>3. \A row : Valid(p) /\ Holds(p, row)
                   => PreconditionKey(p).generation = row.generation
    BY <1>1 DEF PreconditionKey, Holds, Valid, Precondition
  <1>. QED
    BY <1>2, <1>3

(* The fields of an answer. *)
LEMMA ReplyFields ==
    ASSUME NEW d \in Devices, NEW k \in Keys, NEW A \in Payloads, NEW p \in Preconditions,
           NEW intent \in Intent, NEW renew \in Nat
    PROVE  /\ Reply(d, k, A, p, intent, renew) \in IdempotencyRow
           /\ Reply(d, k, A, p, intent, renew).device = d
           /\ Reply(d, k, A, p, intent, renew).key = k
           /\ Reply(d, k, A, p, intent, renew).addresses = A
           /\ Reply(d, k, A, p, intent, renew).precondition = PreconditionKey(p)
           /\ Reply(d, k, A, p, intent, renew).intent = intent
           /\ Reply(d, k, A, p, intent, renew).renew = renew
  <1>1. PreconditionKey(p) \in PreconditionKeys
    BY KeyOfPrecondition
  <1>. QED
    BY <1>1 DEF Reply, IdempotencyRow

(* A policy is a whole number of seconds. *)
LEMMA RenewIsNat ==
    ASSUME NEW m \in RenewAfterMillis
    PROVE  RenewAfterSeconds(m) \in Nat
  <1>1. m \in Nat
    BY DesiredStateAssumption
  <1>. QED
    BY <1>1 DEF RenewAfterSeconds

(* A step that touches neither the idempotency rows nor the answers. *)
LEMMA QuietStep ==
    ASSUME StoreInv, TableInv',
           \A e \in Devices : Follows(intents'[e], intents[e]),
           UNCHANGED <<idempotency, replies>>
    PROVE  StoreInv'
  <1>1. RowsKept'
    BY KeptStep DEF RowsKept
  <1>. QED
    BY <1>1 DEF StoreInv, OneRowPerKey, RepliesRecorded, SingleSuccessor, Migrated

(* A replay records an answer that a row of the table already holds. *)
LEMMA ReplayStep ==
    ASSUME StoreInv, TableInv',
           \A e \in Devices : Follows(intents'[e], intents[e]),
           NEW d \in Devices, NEW h \in Hostnames, NEW A \in Payloads, NEW k \in Keys,
           NEW p \in Preconditions, NEW t \in Times, NEW m \in RenewAfterMillis,
           UpsertReplay(d, h, A, k, p, t, m)
    PROVE  StoreInv'
  <1>1. PICK row \in Rows(d, k) :
          /\ Binds(row, A, p)
          /\ replies' = IF Migrated(row) THEN replies ELSE replies \cup
               {Reply(d, k, A, p, row.intent, ReplayedRenew(row, m))}
    BY DEF UpsertReplay
  <1>2. idempotency' = idempotency
    BY DEF UpsertReplay
  <1>3. CASE Migrated(row)
    BY <1>1, <1>2, <1>3, QuietStep
  <1>4. CASE ~Migrated(row)
    <2>. DEFINE reply == Reply(d, k, A, p, row.intent, ReplayedRenew(row, m))
    <2>1. /\ row \in idempotency /\ row.device = d /\ row.key = k
          /\ row.addresses = A /\ row.precondition = PreconditionKey(p)
      BY <1>1, <1>4 DEF Rows, Binds
    <2>2. row.intent \in Intent /\ row.renew \in Nat
      BY <2>1 DEF StoreInv, IdempotencyRow
    <2>3. ReplayedRenew(row, m) \in Nat
      BY <2>2, RenewIsNat DEF ReplayedRenew
    <2>4. /\ reply \in IdempotencyRow /\ reply.device = d /\ reply.key = k
          /\ reply.addresses = A /\ reply.precondition = PreconditionKey(p)
          /\ reply.intent = row.intent
      BY <2>2, <2>3, ReplyFields
    <2>5. replies' = replies \cup {reply}
      BY <1>1, <1>4
    <2>. HIDE DEF reply
    <2>6. replies' \subseteq IdempotencyRow
      BY <2>4, <2>5 DEF StoreInv
    <2>7. RepliesRecorded'
      BY <1>2, <2>1, <2>4, <2>5 DEF StoreInv, RepliesRecorded
    <2>8. RowsKept'
      BY <1>2, KeptStep DEF RowsKept
    <2>. QED
      BY <1>2, <2>6, <2>7, <2>8 DEF StoreInv, OneRowPerKey, SingleSuccessor, Migrated
  <1>. QED
    BY <1>3, <1>4

(* A first acceptance adds a row that no other row contradicts: its key had *)
(* none, and no row was computed from the generation it was found to hold   *)
(* against and moved on from it, for the intents would have moved on too.   *)
LEMMA AcceptStep ==
    ASSUME StoreInv, TableInv',
           \A e \in Devices : Follows(intents'[e], intents[e]),
           NEW d \in Devices, NEW h \in Hostnames, NEW A \in Payloads, NEW k \in Keys,
           NEW p \in Preconditions, NEW t \in Nat, NEW m \in RenewAfterMillis,
           UpsertAccept(d, h, A, k, p, t, m)
    PROVE  StoreInv'
  <1>. DEFINE written == Written(d, h, A, t)
              reply == Reply(d, k, A, p, written, RenewAfterSeconds(m))
  <1>1. /\ Rows(d, k) = {}
        /\ Valid(p)
        /\ Holds(p, Current(intents[d], t))
        /\ intents' = [intents EXCEPT ![d] = written]
        /\ idempotency' = idempotency \cup {reply}
        /\ replies' = replies \cup {reply}
    BY DEF UpsertAccept, Write
  <1>2. RowOK(intents[d])
    BY InvRow DEF StoreInv
  <1>3. RowOK(written) /\ written.addresses = A
    BY <1>2, WrittenRow
  <1>4. written \in Intent /\ RenewAfterSeconds(m) \in Nat
    BY <1>3, RenewIsNat DEF RowOK
  <1>5. /\ reply \in IdempotencyRow /\ reply.device = d /\ reply.key = k
        /\ reply.addresses = A /\ reply.precondition = PreconditionKey(p)
        /\ reply.intent = written
    <2>. HIDE DEF written
    <2>. QED
      BY <1>4, ReplyFields
  <1>6. intents'[d] = written
    BY <1>1 DEF StoreInv, TableInv, IntentsTypeOK
  <1>. DEFINE seen == Current(intents[d], t)
  <1>7. /\ seen.generation >= intents[d].generation
        /\ seen.generation \in Nat
        /\ PreconditionKey(p).generation = seen.generation
    <2>1. RowOK(seen) /\ Follows(seen, intents[d])
      BY <1>2, CurrentRow
    <2>. HIDE DEF seen
    <2>2. seen.generation >= intents[d].generation /\ seen.generation \in Nat
      BY <2>1 DEF RowOK, Follows, Intent
    <2>3. Holds(p, seen)
      BY <1>1 DEF seen
    <2>. QED
      BY <1>1, <2>2, <2>3, KeyOfPrecondition
  <1>. HIDE DEF written, reply, seen
  <1>8. idempotency' \subseteq IdempotencyRow /\ replies' \subseteq IdempotencyRow
    BY <1>1, <1>5 DEF StoreInv
  <1>9. OneRowPerKey'
    <2>1. \A r \in idempotency : ~(r.device = d /\ r.key = k)
      BY <1>1 DEF Rows
    <2>. QED
      BY <1>1, <1>5, <2>1 DEF StoreInv, OneRowPerKey
  <1>10. RowsKept'
    <2>1. ASSUME NEW r \in idempotency'
          PROVE  /\ r.intent.generation <= intents'[r.device].generation
                 /\ r.intent.generation = intents'[r.device].generation
                      => r.addresses = intents'[r.device].addresses
      <3>1. CASE r = reply
        <4>1. written.generation \in Nat
          BY <1>4 DEF Intent
        <4>. QED
          BY <1>3, <1>5, <1>6, <3>1, <4>1
      <3>2. CASE r \in idempotency
        BY <3>2, KeptStep
      <3>. QED
        BY <1>1, <3>1, <3>2
    <2>. QED
      BY <2>1 DEF RowsKept
  <1>11. RepliesRecorded'
    BY <1>1 DEF StoreInv, RepliesRecorded
  <1>12. SingleSuccessor'
    <2>1. ASSUME NEW r \in idempotency, r.device = d, r.precondition = PreconditionKey(p)
          PROVE  ~(r.intent.generation > r.precondition.generation)
      <3>1. r.intent.generation \in Nat /\ intents[d].generation \in Nat
        BY <1>2 DEF StoreInv, IdempotencyRow, Intent, RowOK
      <3>2. r.intent.generation <= intents[d].generation
        BY <2>1 DEF StoreInv, RowsKept
      <3>. QED
        BY <1>7, <2>1, <3>1, <3>2
    <2>. QED
      BY <1>1, <1>5, <2>1 DEF StoreInv, SingleSuccessor, Migrated
  <1>. QED
    BY <1>8, <1>9, <1>10, <1>11, <1>12 DEF StoreInv

(* Every step of the store keeps its invariant. *)
LEMMA StoreStep ==
    ASSUME StoreInv, [Next]_storeVars
    PROVE  StoreInv'
  <1>1. TableInv' /\ \A e \in Devices : Follows(intents'[e], intents[e])
    BY StoreStepIsTableStep, TableStep DEF StoreInv
  <1>2. Times \subseteq Nat
    BY IntentsAssumption DEF StoreInv, TableInv, IntentsTypeOK, Times
  <1>3. CASE UNCHANGED <<idempotency, replies>>
    BY <1>1, <1>3, QuietStep
  <1>4. ASSUME NEW d \in Devices, NEW h \in Hostnames, NEW A \in Payloads, NEW k \in Keys,
               NEW p \in Preconditions, NEW t \in Times, NEW m \in RenewAfterMillis,
               UpsertIntent(d, h, A, k, p, t, m)
        PROVE  StoreInv'
    <2>1. CASE UpsertReplay(d, h, A, k, p, t, m)
      BY <1>1, <2>1, ReplayStep
    <2>2. CASE UpsertAccept(d, h, A, k, p, t, m)
      BY <1>1, <1>2, <2>2, AcceptStep
    <2>3. CASE \/ UpsertConflict(d, h, A, k, p, t, m)
               \/ UpsertUnconditional(d, h, A, k, p, t, m)
               \/ UpsertStale(d, h, A, k, p, t, m)
               \/ UpsertMisnamed(d, h, A, k, p, t, m)
      BY <1>3, <2>3
         DEF UpsertConflict, UpsertUnconditional, UpsertStale, UpsertMisnamed, storeVars
    <2>. QED
      BY <1>4, <2>1, <2>2, <2>3 DEF UpsertIntent
  <1>. QED
    BY <1>3, <1>4 DEF Next, storeVars

(* The invariant of the store. *)
THEOREM StoreCorrect == Spec => []StoreInv
  <1>1. Init => StoreInv
    BY StoreInit
  <1>2. StoreInv /\ [Next]_storeVars => StoreInv'
    BY StoreStep
  <1>. QED
    BY <1>1, <1>2, PTL DEF Spec

(* Both tables, and every answer, always have their types. *)
THEOREM StoreTyped == Spec => []TypeOK
  <1>1. StoreInv => TypeOK
    BY DEF StoreInv, TableInv, TypeOK
  <1>. QED
    BY <1>1, StoreCorrect, PTL

(* Compare-and-set: of all requests computed from one generation, at most   *)
(* one ever moved the device on from it (UpsertIntent's precondition test). *)
THEOREM StoreSingleSuccessor == Spec => []SingleSuccessor
  <1>1. StoreInv => SingleSuccessor
    BY DEF StoreInv
  <1>. QED
    BY <1>1, StoreCorrect, PTL

(* What was answered 202 is in the table, or a newer generation is.         *)
THEOREM StoreKeepsAccepted == Spec => []AcceptedKept
  <1>1. StoreInv => AcceptedKept
    BY DEF StoreInv, RowsKept, RepliesRecorded, AcceptedKept
  <1>. QED
    BY <1>1, StoreCorrect, PTL

----------------------------------------------------------------------------
(* The strengthening of ExactReplay: every answer is a row, unchanged.  It  *)
(* needs every policy to be at least a second, for a row that holds 0       *)
(* seconds is taken for a migrated one and answered with another policy.    *)
ReplayInv ==
    /\ StoreInv
    /\ replies \subseteq idempotency
    /\ \A r \in idempotency : Migrated(r) \/ r.renew > 0

(* Every answer ever given for a key is the answer first given, provided    *)
(* the controller is only run with policies of at least one second.         *)
THEOREM StoreReplaysExactly ==
    ASSUME \A m \in RenewAfterMillis : m >= 1000
    PROVE  Spec => []ExactReplay
  <1>1. Init => ReplayInv
    <2>. SUFFICES ASSUME Init PROVE ReplayInv
      OBVIOUS
    <2>1. StoreInv
      BY StoreInit
    <2>2. \A r \in idempotency : Migrated(r)
      BY DEF Init, MigratedRow, Migrated
    <2>. QED
      BY <2>1, <2>2 DEF ReplayInv, Init
  <1>2. ReplayInv /\ [Next]_storeVars => ReplayInv'
    <2>. SUFFICES ASSUME ReplayInv, [Next]_storeVars PROVE ReplayInv'
      OBVIOUS
    <2>1. StoreInv'
      BY StoreStep DEF ReplayInv
    <2>2. CASE UNCHANGED <<idempotency, replies>>
      BY <2>1, <2>2 DEF ReplayInv, Migrated
    <2>3. ASSUME NEW d \in Devices, NEW h \in Hostnames, NEW A \in Payloads, NEW k \in Keys,
                 NEW p \in Preconditions, NEW t \in Times, NEW m \in RenewAfterMillis,
                 UpsertReplay(d, h, A, k, p, t, m)
          PROVE  ReplayInv'
      <3>1. PICK row \in Rows(d, k) :
              /\ Binds(row, A, p)
              /\ replies' = IF Migrated(row) THEN replies ELSE replies \cup
                   {Reply(d, k, A, p, row.intent, ReplayedRenew(row, m))}
        BY <2>3 DEF UpsertReplay
      <3>2. idempotency' = idempotency
        BY <2>3 DEF UpsertReplay
      <3>3. row \in idempotency /\ row.device = d /\ row.key = k
        BY DEF Rows
      <3>4. ASSUME ~Migrated(row)
            PROVE  Reply(d, k, A, p, row.intent, ReplayedRenew(row, m)) = row
        <4>1. row.addresses = A /\ row.precondition = PreconditionKey(p)
          BY <3>1, <3>4 DEF Binds
        <4>2. ReplayedRenew(row, m) = row.renew
          BY <3>3, <3>4 DEF ReplayInv, ReplayedRenew
        <4>3. row \in IdempotencyRow
          BY <3>3 DEF ReplayInv, StoreInv
        <4>. QED
          BY <3>3, <4>1, <4>2, <4>3 DEF Reply, IdempotencyRow
      <3>5. replies' \subseteq idempotency'
        BY <3>1, <3>2, <3>3, <3>4 DEF ReplayInv
      <3>. QED
        BY <2>1, <3>2, <3>5 DEF ReplayInv, Migrated
    <2>4. ASSUME NEW d \in Devices, NEW h \in Hostnames, NEW A \in Payloads, NEW k \in Keys,
                 NEW p \in Preconditions, NEW t \in Times, NEW m \in RenewAfterMillis,
                 UpsertAccept(d, h, A, k, p, t, m)
          PROVE  ReplayInv'
      <3>. DEFINE reply == Reply(d, k, A, p, Written(d, h, A, t), RenewAfterSeconds(m))
      <3>1. /\ idempotency' = idempotency \cup {reply}
            /\ replies' = replies \cup {reply}
        BY <2>4 DEF UpsertAccept
      <3>2. reply.renew > 0
        <4>1. m \in Nat /\ m >= 1000
          BY DesiredStateAssumption
        <4>2. m \div 1000 > 0
          BY <4>1
        <4>. QED
          BY <4>2 DEF Reply, RenewAfterSeconds
      <3>. HIDE DEF reply
      <3>. QED
        BY <2>1, <3>1, <3>2 DEF ReplayInv, Migrated
    <2>5. ASSUME NEW d \in Devices, NEW h \in Hostnames, NEW A \in Payloads, NEW k \in Keys,
                 NEW p \in Preconditions, NEW t \in Times, NEW m \in RenewAfterMillis,
                 \/ UpsertConflict(d, h, A, k, p, t, m)
                 \/ UpsertUnconditional(d, h, A, k, p, t, m)
                 \/ UpsertStale(d, h, A, k, p, t, m)
                 \/ UpsertMisnamed(d, h, A, k, p, t, m)
          PROVE  ReplayInv'
      BY <2>2, <2>5
         DEF UpsertConflict, UpsertUnconditional, UpsertStale, UpsertMisnamed, storeVars
    <2>. QED
      BY <2>2, <2>3, <2>4, <2>5 DEF Next, UpsertIntent, storeVars
  <1>3. ReplayInv => ExactReplay
    BY DEF ReplayInv, StoreInv, OneRowPerKey, ExactReplay
  <1>. QED
    BY <1>1, <1>2, <1>3, PTL DEF Spec

----------------------------------------------------------------------------
(* What the log is before and after a step that leaves the table alone.     *)
LEMMA SameLog ==
    ASSUME UNCHANGED idempotency
    PROVE  UNCHANGED Answered
  BY DEF Answered, Entry

(* A first acceptance adds one entry, under an identifier that had none.    *)
LEMMA AcceptRecords ==
    ASSUME NEW d, NEW h, NEW A, NEW k, NEW p, NEW t, NEW m,
           UpsertAccept(d, h, A, k, p, t, m)
    PROVE  Log!Next
  <1>. DEFINE reply == Reply(d, k, A, p, Written(d, h, A, t), RenewAfterSeconds(m))
              e == Entry(reply)
  <1>1. idempotency' = idempotency \cup {reply}
    BY DEF UpsertAccept
  <1>2. reply.device = d /\ reply.key = k
    BY DEF Reply
  <1>3. e.id = <<d, k>>
    BY <1>2 DEF Entry
  <1>4. Answered' = Answered \cup {e}
    BY <1>1 DEF Answered, Entry
  <1>5. \A f \in Answered : f.id # e.id
    <2>. SUFFICES ASSUME NEW r \in idempotency PROVE Entry(r).id # <<d, k>>
      BY <1>3 DEF Answered
    <2>1. r.device # d \/ r.key # k
      BY DEF UpsertAccept, Rows
    <2>. QED
      BY <2>1 DEF Entry
  <1>. QED
    BY <1>4, <1>5 DEF Log!Next, Log!Record

(* The store implements the log of answers (module AnswerLog): for every    *)
(* set of devices, keys and address sets, the answer to a key is written    *)
(* once and never changed or removed (upsertIntent).                        *)
THEOREM StoreKeepsAnswers == Spec => AnswersKept
  <1>1. Init => Log!Init
    <2>. SUFFICES ASSUME Init, NEW r \in idempotency, NEW q \in idempotency,
                         Entry(r).id = Entry(q).id
                  PROVE  Entry(r) = Entry(q)
      BY DEF Log!Init, Log!OneAnswerEach, Answered
    <2>1. PICK d \in Devices : r = MigratedRow(d)
      BY DEF Init
    <2>2. PICK c \in Devices : q = MigratedRow(c)
      BY DEF Init
    <2>3. r.device = q.device
      BY DEF Entry
    <2>. QED
      BY <2>1, <2>2, <2>3 DEF MigratedRow
  <1>2. [Next]_storeVars => [Log!Next]_Answered
    <2>. SUFFICES ASSUME [Next]_storeVars PROVE [Log!Next]_Answered
      OBVIOUS
    <2>1. CASE UNCHANGED idempotency
      BY <2>1, SameLog
    <2>2. ASSUME NEW d \in Devices, NEW h \in Hostnames, NEW A \in Payloads, NEW k \in Keys,
                 NEW p \in Preconditions, NEW t \in Times, NEW m \in RenewAfterMillis,
                 UpsertIntent(d, h, A, k, p, t, m)
          PROVE  Log!Next \/ UNCHANGED idempotency
      BY <2>2, AcceptRecords
         DEF UpsertIntent, UpsertReplay, UpsertConflict, UpsertUnconditional, UpsertStale,
             UpsertMisnamed, storeVars
    <2>. QED
      BY <2>1, <2>2 DEF Next, storeVars
  <1>. QED
    BY <1>1, <1>2, PTL DEF Spec, AnswersKept, Log!Spec
============================================================================

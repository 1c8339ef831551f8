---------------------------- MODULE DesiredState ----------------------------
(***************************************************************************)
(* The desired-state store as the controller uses it: the intents table    *)
(* (module Intents) and the idempotency table, written together by         *)
(* UpsertIntent (dns/internal/store/sqlite.go).                            *)
(*                                                                         *)
(* A request is bound to a key the client chose.  The first time its key   *)
(* is seen it must name the generation it was computed from (or that there *)
(* is no row); it then either takes effect and leaves a row holding its    *)
(* answer, or leaves no row.  A request whose key has a row gets that      *)
(* answer back.                                                            *)
(*                                                                         *)
(* The controller may be restarted with another renewal policy, so each    *)
(* request brings the policy in force when it is handled.                  *)
(***************************************************************************)
EXTENDS Intents

CONSTANTS
    Keys,              \* idempotency keys
    LegacyKey,         \* the key of a row migrated from the pre-ETag release
    RenewAfterMillis   \* the renew-after policies the controller is run with

ASSUME DesiredStateAssumption ==
    /\ LegacyKey \in Keys
    /\ RenewAfterMillis \subseteq Nat \ {0}

VARIABLES
    idempotency,       \* the rows of idempotency_requests
    replies            \* history: every 202 answer UpsertIntent has produced,
                       \* but for the replays of migrated rows

storeVars == <<intents, now, idempotency, replies>>

----------------------------------------------------------------------------
(* Write preconditions *)

MatchGeneration(g) == [expectedGeneration |-> g, requireAbsent |-> FALSE]
RequireAbsent == [expectedGeneration |-> 0, requireAbsent |-> TRUE]

(* The zero value of IntentPrecondition: the client stated none. *)
NoPrecondition == [expectedGeneration |-> 0, requireAbsent |-> FALSE]

Precondition == [expectedGeneration : Nat, requireAbsent : BOOLEAN]

Valid(p) ==
    \/ p.requireAbsent /\ p.expectedGeneration = 0
    \/ ~p.requireAbsent /\ p.expectedGeneration > 0

(* The text stored with a key.  The migrated rows hold the empty text. *)
PreconditionKey(p) ==
    IF p.requireAbsent THEN [kind |-> "if-none-match", generation |-> 0]
                       ELSE [kind |-> "if-match", generation |-> p.expectedGeneration]

BlankKey == [kind |-> "", generation |-> 0]

PreconditionKeys == [kind : {"", "if-none-match", "if-match"}, generation : Nat]

(* Mutant of Holds: If-Match is let in when the row has moved on. *)
HoldsStale(p, row) ==
    IF p.requireAbsent THEN row.generation = 0
                       ELSE row.generation > 0 /\ row.generation >= p.expectedGeneration

Holds(p, row) ==
    IF p.requireAbsent THEN row.generation = 0
                       ELSE row.generation > 0 /\ row.generation = p.expectedGeneration

----------------------------------------------------------------------------
(* The idempotency table.  `result' is the durable answer: the intent as    *)
(* the write left it and the number of seconds after which to renew; the    *)
(* latter is omitted from the JSON when it is 0 and read back as 0.         *)

IdempotencyRow ==
    [device : Devices, key : Keys, addresses : Payloads,
     precondition : PreconditionKeys, intent : Intent, renew : Nat]

Rows(d, k) == {row \in idempotency : row.device = d /\ row.key = k}

Migrated(row) == row.precondition = BlankKey

Binds(row, A, p) ==
    /\ row.addresses = A
    /\ Migrated(row) \/ row.precondition = PreconditionKey(p)

(* int64(renewAfter / time.Second) *)
RenewAfterSeconds(millis) == millis \div 1000

(* Mutant of ReplayedRenew: a replay answers with the policy now in force. *)
ReplayedRenewCurrent(row, millis) == RenewAfterSeconds(millis)

ReplayedRenew(row, millis) ==
    IF row.renew > 0 THEN row.renew ELSE RenewAfterSeconds(millis)

(* Mutant of Reply: the precondition is stored as it came, not as its text. *)
ReplyUncoded(d, k, A, p, intent, renew) ==
    [device |-> d, key |-> k, addresses |-> A,
     precondition |-> p, intent |-> intent, renew |-> renew]

Reply(d, k, A, p, intent, renew) ==
    [device |-> d, key |-> k, addresses |-> A,
     precondition |-> PreconditionKey(p), intent |-> intent, renew |-> renew]

----------------------------------------------------------------------------
(* UpsertIntent for device d with host name h, addresses A, key k,          *)
(* precondition p, time t and renewal policy m; one action per outcome.     *)

(* Mutant of UpsertReplay: a replay puts the intent it answers back. *)
UpsertReplayRestoring(d, h, A, k, p, t, m) ==
    /\ \E row \in Rows(d, k) :
         /\ Binds(row, A, p)
         /\ intents' = [intents EXCEPT ![d] = row.intent]
    /\ UNCHANGED <<now, idempotency, replies>>

(* Mutant of UpsertReplay: the row is stored again with what it is now      *)
(* answered with.                                                           *)
UpsertReplayStoring(d, h, A, k, p, t, m) ==
    /\ \E row \in Rows(d, k) :
         /\ Binds(row, A, p)
         /\ idempotency' = (idempotency \ {row}) \cup
              {Reply(d, k, A, p, row.intent, RenewAfterSeconds(m))}
    /\ UNCHANGED <<intents, now, replies>>

(* 202, replayed *)
UpsertReplay(d, h, A, k, p, t, m) ==
    /\ \E row \in Rows(d, k) :
         /\ Binds(row, A, p)
         /\ replies' = IF Migrated(row) THEN replies ELSE replies \cup
              {Reply(d, k, A, p, row.intent, ReplayedRenew(row, m))}
    /\ UNCHANGED <<intents, now, idempotency>>

(* ErrIdempotencyConflict, 409 *)
UpsertConflict(d, h, A, k, p, t, m) ==
    /\ \E row \in Rows(d, k) : ~Binds(row, A, p)
    /\ UNCHANGED storeVars

(* ErrPreconditionRequired, 428 *)
UpsertUnconditional(d, h, A, k, p, t, m) ==
    /\ Rows(d, k) = {}
    /\ ~Valid(p)
    /\ UNCHANGED storeVars

(* Mutant of UpsertStale: the expiry that refused the write is rolled back. *)
UpsertStaleRolledBack(d, h, A, k, p, t, m) ==
    /\ Rows(d, k) = {}
    /\ Valid(p)
    /\ ~Holds(p, Current(intents[d], t))
    /\ UNCHANGED storeVars

(* ErrPreconditionFailed, 412 *)
UpsertStale(d, h, A, k, p, t, m) ==
    /\ Rows(d, k) = {}
    /\ Valid(p)
    /\ ~Holds(p, Current(intents[d], t))
    /\ RealizeExpiry(d, t)
    /\ UNCHANGED <<idempotency, replies>>

(* A host name that is another device's, or not the one the device has had: *)
(* the transaction is rolled back, the expiry it had realized included. 500 *)
UpsertMisnamed(d, h, A, k, p, t, m) ==
    /\ Rows(d, k) = {}
    /\ Valid(p)
    /\ Holds(p, Current(intents[d], t))
    /\ ~HostnameAccepted(d, h)
    /\ UNCHANGED storeVars

(* 202, first acceptance *)
UpsertAccept(d, h, A, k, p, t, m) ==
    /\ Rows(d, k) = {}
    /\ Valid(p)
    /\ Holds(p, Current(intents[d], t))
    /\ Write(d, h, A, t)
    /\ LET reply == Reply(d, k, A, p, Written(d, h, A, t), RenewAfterSeconds(m))
       IN  /\ idempotency' = idempotency \cup {reply}
           /\ replies' = replies \cup {reply}

UpsertIntent(d, h, A, k, p, t, m) ==
    \/ UpsertReplay(d, h, A, k, p, t, m)
    \/ UpsertConflict(d, h, A, k, p, t, m)
    \/ UpsertUnconditional(d, h, A, k, p, t, m)
    \/ UpsertStale(d, h, A, k, p, t, m)
    \/ UpsertMisnamed(d, h, A, k, p, t, m)
    \/ UpsertAccept(d, h, A, k, p, t, m)

----------------------------------------------------------------------------
(* The preconditions that can tell the reachable generations apart. *)
Preconditions ==
    {NoPrecondition, RequireAbsent} \cup {MatchGeneration(g) : g \in 1 .. MaxGeneration}

(* A row of an earlier release has the answer it gave, no precondition and  *)
(* no renewal policy.                                                       *)
MigratedRow(d) ==
    [device |-> d, key |-> LegacyKey, addresses |-> intents[d].addresses,
     precondition |-> BlankKey, intent |-> intents[d], renew |-> 0]

Init ==
    /\ IntentsInit
    /\ idempotency = {MigratedRow(d) : d \in {e \in Devices : Found(e)}}
    /\ replies = {}

Next ==
    \/ \E d \in Devices, h \in Hostnames, A \in Payloads, k \in Keys,
          p \in Preconditions, t \in Times, m \in RenewAfterMillis :
          UpsertIntent(d, h, A, k, p, t, m)
    \/ /\ \/ \E t \in Times : ExpireLeases(t)
          \/ \E d \in Devices : \E g \in 1 .. intents[d].generation :
               \/ MarkOriginApplied(d, g)
               \/ MarkPubliclyObserved(d, g)
               \/ MarkPublicationError(d, g)
          \/ Tick
       /\ UNCHANGED <<idempotency, replies>>

Spec == Init /\ [][Next]_storeVars

----------------------------------------------------------------------------
(* Type correctness of both tables and of the history of answers. *)
TypeOK ==
    /\ IntentsTypeOK
    /\ idempotency \subseteq IdempotencyRow
    /\ replies \subseteq IdempotencyRow

(* Requests sent again get the original answer: all answers ever given for  *)
(* one key are one answer, to one payload and one precondition, whatever    *)
(* the rows and the renewal policy have become meanwhile (sqlite.go: "all   *)
(* newly accepted requests retain the original response value               *)
(* indefinitely").  Keys of migrated rows are exempt, as they are there.    *)
ExactReplay ==
    \A r1, r2 \in replies :
        r1.device = r2.device /\ r1.key = r2.key => r1 = r2

(* An accepted write is only ever undone by a later generation: what was    *)
(* answered to the device is still in the table, or a newer generation has  *)
(* replaced it; a generation has meant one address set in every answer.     *)
AcceptedKept ==
    \A r \in replies :
        /\ r.intent.generation <= intents[r.device].generation
        /\ r.intent.generation = intents[r.device].generation
             => r.addresses = intents[r.device].addresses

(* The idempotency table as the log that module AnswerLog speaks of. *)
Entry(r) ==
    [id |-> <<r.device, r.key>>,
     answer |-> <<r.addresses, r.precondition, r.intent, r.renew>>]

Answered == {Entry(r) : r \in idempotency}

Log == INSTANCE AnswerLog WITH log <- Answered

(* The store implements the log of answers: whatever is asked again, and    *)
(* whatever becomes of the intent, the row of a key is written once and     *)
(* for all (upsertIntent; "retains idempotency responses indefinitely").    *)
AnswersKept == Log!Spec

(* Compare-and-set: of all requests computed from one generation, at most   *)
(* one ever moved the device on from it.  Two writers that read the same    *)
(* generation cannot both replace it.                                       *)
SingleSuccessor ==
    \A r1, r2 \in idempotency :
        /\ r1.device = r2.device
        /\ r1.precondition = r2.precondition
        /\ ~Migrated(r1)
        /\ r1.intent.generation > r1.precondition.generation
        /\ r2.intent.generation > r2.precondition.generation
        => r1.key = r2.key
============================================================================

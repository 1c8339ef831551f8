---------------------------- MODULE Registration ----------------------------
(***************************************************************************)
(* How a device gets its addresses into the store: the agent               *)
(* (dns/internal/agent), the controller's two handlers                     *)
(* (dns/internal/controller) and the network between them, on top of the   *)
(* store (module DesiredState).                                            *)
(*                                                                         *)
(* The agent keeps one file: the idempotency key, payload and precondition *)
(* of the request under way.  It is written before the request is sent and *)
(* removed when the request is settled.  The agent may crash anywhere and  *)
(* is restarted; the machine may lose power, and with it what was not      *)
(* synced.  A request may be lost, delayed beyond the agent's timeout, or  *)
(* delivered twice, and its answer may be lost.  The handler reads the     *)
(* clock before its transaction begins.                                    *)
(*                                                                         *)
(* Identity and payload validation accept what the agent sends.  Agent and *)
(* controller read one clock.                                              *)
(***************************************************************************)
EXTENDS DesiredState

CONSTANTS
    Identity,        \* device -> the host name its certificate maps to
    RenewIntervals,  \* the lengths the jittered renewal interval can take
    MaxMoves,        \* bound: address changes of a device
    MaxCrashes       \* bound: crashes of an agent

ASSUME RegistrationAssumption ==
    /\ Identity \in [Devices -> Hostnames]
    /\ \A d, e \in Devices : d # e => Identity[d] # Identity[e]
    /\ Keys \subseteq Nat   \* numbered in the order the agent draws them
    /\ RenewIntervals \subseteq 1 .. LeaseDuration - 1
    /\ MaxMoves \in Nat
    /\ MaxCrashes \in Nat

VARIABLES
    local,      \* device -> the addresses it has now
    moves,      \* device -> address changes so far
    crashes,    \* device -> crashes of its agent so far
    phase,      \* device -> where its agent is in Run
    payload,    \* device -> the addresses updateOnce read, until they are in the file
    refresh,    \* device -> refreshStaleState
    pending,    \* device -> the pending file: one record or none
    written,    \* device -> everything the file has held; a power failure may bring it back
    drawn,      \* device -> the last key drawn
    wake,       \* device -> when the sleep its agent is in ends
    calls,      \* PUT requests in the network or in a handler
    answer,     \* device -> the answer on its open connection, or none
    refused     \* history: <<device, key>> of every request answered 412

agentVars == <<local, moves, crashes, phase, payload, refresh, pending, written, drawn, wake>>
tableVars == <<storeVars, refused>>
vars == <<intents, now, idempotency, replies, local, moves, crashes, phase,
          payload, refresh, pending, written, drawn, wake, calls, answer, refused>>

Phases == {"ready", "fetch", "send", "await", "asleep"}
Statuses == {202, 409, 412, 428, 500}

Pending == [addresses : Payloads, key : Keys, precondition : Precondition]

(* time = 0: still in the network; otherwise 1 + the time the handler read *)
Call == [device : Devices, addresses : Payloads, key : Keys,
         precondition : Precondition, live : BOOLEAN, time : Nat]

Answer == [status : Statuses, lease : Nat]

----------------------------------------------------------------------------
(* Run and updateOnce *)

(* An attempt that ends in a retryable error is followed, after a pause, by *)
(* a new one.                                                               *)
Retry(d) ==
    /\ phase' = [phase EXCEPT ![d] = "ready"]
    /\ refresh' = [refresh EXCEPT ![d] = TRUE]

(* updateOnce(ctx, false), once; a second time the error is returned. *)
RefreshOrRetry(d) ==
    /\ phase' = [phase EXCEPT ![d] = "ready"]
    /\ refresh' = [refresh EXCEPT ![d] = ~@]

(* The connection of d's request is closed; what was sent on it stays. *)
Hangup(d) ==
    /\ calls' = {IF c.device = d THEN [c EXCEPT !.live = FALSE] ELSE c : c \in calls}
    /\ answer' = [answer EXCEPT ![d] = {}]

(* Mutant of Begin: the payload of a new request is not kept. *)
BeginUnread(d) ==
    /\ phase[d] = "ready"
    /\ IF \E p \in pending[d] : p.addresses = local[d]
       THEN phase' = [phase EXCEPT ![d] = "send"]
       ELSE phase' = [phase EXCEPT ![d] = "fetch"]
    /\ UNCHANGED <<tableVars, local, moves, crashes, payload, refresh, pending, written, drawn, wake, calls, answer>>

(* Read the addresses and the pending file, which is reused if it is for    *)
(* this payload.                                                            *)
Begin(d) ==
    /\ phase[d] = "ready"
    /\ IF \E p \in pending[d] : p.addresses = local[d]
       THEN phase' = [phase EXCEPT ![d] = "send"] /\ UNCHANGED payload
       ELSE /\ phase' = [phase EXCEPT ![d] = "fetch"]
            /\ payload' = [payload EXCEPT ![d] = local[d]]
    /\ UNCHANGED <<tableVars, local, moves, crashes, refresh, pending, written, drawn, wake, calls, answer>>

(* The controller's getStatus: an expired lease is realized first. *)
GetStatus(d) ==
    /\ IF Lapsed(intents[d], now) THEN ExpireLeases(now) ELSE UNCHANGED <<intents, now>>
    /\ UNCHANGED <<idempotency, replies, refused>>

StatusPrecondition(d) ==
    LET g == Current(intents[d], now).generation
    IN  IF g = 0 THEN RequireAbsent ELSE MatchGeneration(g)

(* The file is renamed into place; nothing is synced. *)
WritePending(d, p) ==
    /\ pending' = [pending EXCEPT ![d] = {p}]
    /\ written' = [written EXCEPT ![d] = @ \cup {p}]

(* Mutant of Fetch: a key that is at hand is used for the new payload too. *)
FetchKeepingKey(d) ==
    /\ phase[d] = "fetch"
    /\ drawn[d] + 1 \in Keys
    /\ GetStatus(d)
    /\ LET k == IF pending[d] = {} THEN drawn[d] + 1 ELSE drawn[d]
       IN  /\ drawn' = [drawn EXCEPT ![d] = k]
           /\ WritePending(d, [addresses |-> payload[d], key |-> k,
                               precondition |-> StatusPrecondition(d)])
    /\ payload' = [payload EXCEPT ![d] = {}]
    /\ phase' = [phase EXCEPT ![d] = "send"]
    /\ UNCHANGED <<local, moves, crashes, refresh, wake, calls, answer>>

(* fetchPrecondition, a new key, and the pending file: all before the PUT. *)
Fetch(d) ==
    /\ phase[d] = "fetch"
    /\ drawn[d] + 1 \in Keys
    /\ GetStatus(d)
    /\ drawn' = [drawn EXCEPT ![d] = @ + 1]
    /\ WritePending(d, [addresses |-> payload[d], key |-> drawn[d] + 1,
                        precondition |-> StatusPrecondition(d)])
    /\ payload' = [payload EXCEPT ![d] = {}]
    /\ phase' = [phase EXCEPT ![d] = "send"]
    /\ UNCHANGED <<local, moves, crashes, refresh, wake, calls, answer>>

FetchFails(d) ==
    /\ phase[d] = "fetch"
    /\ Retry(d)
    /\ payload' = [payload EXCEPT ![d] = {}]
    /\ UNCHANGED <<tableVars, local, moves, crashes, pending, written, drawn, wake, calls, answer>>

Send(d) ==
    /\ phase[d] = "send"
    /\ \E p \in pending[d] :
         calls' = calls \cup
           {[device |-> d, addresses |-> p.addresses, key |-> p.key,
             precondition |-> p.precondition, live |-> TRUE, time |-> 0]}
    /\ phase' = [phase EXCEPT ![d] = "await"]
    /\ UNCHANGED <<tableVars, local, moves, crashes, payload, refresh, pending, written, drawn, wake, answer>>

(* The request times out, or its connection breaks. *)
TimeOut(d) ==
    /\ phase[d] = "await"
    /\ Retry(d)
    /\ Hangup(d)
    /\ UNCHANGED <<tableVars, local, moves, crashes, payload, pending, written, drawn, wake>>

(* 202.  A lease that has run out on the way is renewed at once. *)
Settle(d) ==
    /\ \E a \in answer[d] :
         /\ a.status = 202
         /\ pending' = [pending EXCEPT ![d] = {}]
         /\ IF a.lease > now
            THEN /\ phase' = [phase EXCEPT ![d] = "asleep"]
                 /\ refresh' = [refresh EXCEPT ![d] = TRUE]
                 /\ \E n \in RenewIntervals : wake' = [wake EXCEPT ![d] = now + n]
            ELSE RefreshOrRetry(d) /\ UNCHANGED wake
    /\ Hangup(d)
    /\ UNCHANGED <<tableVars, local, moves, crashes, payload, written, drawn>>

(* Mutant of Rejected: the pending file is kept. *)
RejectedKeepingPending(d) ==
    /\ \E a \in answer[d] :
         /\ a.status \in {409, 412}
         /\ IF a.status = 412 THEN RefreshOrRetry(d) ELSE Retry(d)
    /\ Hangup(d)
    /\ UNCHANGED <<tableVars, local, moves, crashes, payload, pending, written, drawn, wake>>

(* 412: the pending request can never be accepted.  409: its key belongs to *)
(* another one, which is not retryable: the agent exits and is restarted.   *)
Rejected(d) ==
    /\ \E a \in answer[d] :
         /\ a.status \in {409, 412}
         /\ IF a.status = 412 THEN RefreshOrRetry(d) ELSE Retry(d)
    /\ pending' = [pending EXCEPT ![d] = {}]
    /\ Hangup(d)
    /\ UNCHANGED <<tableVars, local, moves, crashes, payload, written, drawn, wake>>

(* 500 *)
Failed(d) ==
    /\ \E a \in answer[d] : a.status = 500
    /\ Retry(d)
    /\ Hangup(d)
    /\ UNCHANGED <<tableVars, local, moves, crashes, payload, pending, written, drawn, wake>>

Wake(d) ==
    /\ phase[d] = "asleep"
    /\ now >= wake[d]
    /\ Retry(d)
    /\ wake' = [wake EXCEPT ![d] = 0]
    /\ UNCHANGED <<tableVars, local, moves, crashes, payload, pending, written, drawn, calls, answer>>

(* The process ends and is started again. *)
Restart(d) ==
    /\ phase[d] # "ready"
    /\ crashes[d] < MaxCrashes
    /\ crashes' = [crashes EXCEPT ![d] = @ + 1]
    /\ Retry(d)
    /\ Hangup(d)
    /\ payload' = [payload EXCEPT ![d] = {}]
    /\ wake' = [wake EXCEPT ![d] = 0]
    /\ UNCHANGED <<tableVars, local, moves, written, drawn>>

Crash(d) ==
    /\ Restart(d)
    /\ UNCHANGED pending

(* What was never synced may be lost, and what was removed may be back; a   *)
(* file that is empty or torn is read as none.                              *)
PowerFailure(d) ==
    /\ Restart(d)
    /\ \E file \in {{}} \cup {{p} : p \in written[d]} :
         pending' = [pending EXCEPT ![d] = file]

----------------------------------------------------------------------------
(* The device's environment and the network.  A request that is lost is one *)
(* that is never delivered.                                                 *)

Move(d) ==
    /\ moves[d] < MaxMoves
    /\ \E A \in Payloads \ {local[d]} : local' = [local EXCEPT ![d] = A]
    /\ moves' = [moves EXCEPT ![d] = @ + 1]
    /\ UNCHANGED <<tableVars, crashes, phase, payload, refresh, pending, written, drawn, wake, calls, answer>>

(* A request reaches its handler, which reads the clock; the HTTP transport *)
(* may have sent it a second time.                                          *)
Deliver(c) ==
    /\ c.time = 0
    /\ \E again \in BOOLEAN :
         calls' = (calls \ {c}) \cup {[c EXCEPT !.time = now + 1]}
                    \cup (IF again /\ c.live THEN {[c EXCEPT !.live = FALSE]} ELSE {})
    /\ UNCHANGED <<tableVars, agentVars, answer>>

(* The handler answers on the connection the request came on. *)
Finish(c, status, leaseEnd) ==
    /\ calls' = calls \ {c}
    /\ answer' = IF c.live
                 THEN [answer EXCEPT ![c.device] = {[status |-> status, lease |-> leaseEnd]}]
                 ELSE answer

(* The answer to a request, as the tables stand before its transaction. *)
PutStatus(d, h, A, k, p, t) ==
    IF Rows(d, k) # {}
    THEN IF \A row \in Rows(d, k) : Binds(row, A, p) THEN 202 ELSE 409
    ELSE IF ~Valid(p) THEN 428
    ELSE IF ~Holds(p, Current(intents[d], t)) THEN 412
    ELSE IF ~HostnameAccepted(d, h) THEN 500
    ELSE 202

PutLease(d, k, t) ==
    IF Rows(d, k) # {} THEN (CHOOSE row \in Rows(d, k) : TRUE).intent.lease
                       ELSE t + LeaseDuration

(* putEndpoints: the transaction, at the time the handler read, and the     *)
(* answer.                                                                  *)
PutEndpoints(c) ==
    /\ c.time > 0
    /\ LET d == c.device  h == Identity[d]  t == c.time - 1
       IN  /\ \E m \in RenewAfterMillis :
                UpsertIntent(d, h, c.addresses, c.key, c.precondition, t, m)
           /\ Finish(c, PutStatus(d, h, c.addresses, c.key, c.precondition, t),
                     PutLease(d, c.key, t))
           /\ refused' = IF PutStatus(d, h, c.addresses, c.key, c.precondition, t) = 412
                         THEN refused \cup {<<d, c.key>>}
                         ELSE refused
    /\ UNCHANGED agentVars

(* The transaction fails, for instance because the database stayed busy. *)
PutEndpointsFails(c) ==
    /\ c.time > 0
    /\ Finish(c, 500, 0)
    /\ UNCHANGED <<tableVars, agentVars>>

(* The publisher's expiry pass. *)
Sweep ==
    /\ ExpireLeases(now)
    /\ UNCHANGED <<idempotency, replies, refused, agentVars, calls, answer>>

Clock ==
    /\ Tick
    /\ UNCHANGED <<idempotency, replies, refused, agentVars, calls, answer>>

----------------------------------------------------------------------------
RegistrationInit ==
    /\ Init
    /\ local \in [Devices -> Payloads]
    /\ moves = [d \in Devices |-> 0]
    /\ crashes = [d \in Devices |-> 0]
    /\ phase = [d \in Devices |-> "ready"]
    /\ payload = [d \in Devices |-> {}]
    /\ refresh = [d \in Devices |-> TRUE]
    /\ pending = [d \in Devices |-> {}]
    /\ written = [d \in Devices |-> {}]
    /\ drawn = [d \in Devices |-> LegacyKey]
    /\ wake = [d \in Devices |-> 0]
    /\ calls = {}
    /\ answer = [d \in Devices |-> {}]
    /\ refused = {}

AgentStep(d) ==
    \/ Begin(d) \/ Fetch(d) \/ FetchFails(d) \/ Send(d) \/ TimeOut(d)
    \/ Settle(d) \/ Rejected(d) \/ Failed(d) \/ Wake(d)

RegistrationNext ==
    \/ \E d \in Devices : AgentStep(d) \/ Crash(d) \/ PowerFailure(d) \/ Move(d)
    \/ \E c \in calls :
         Deliver(c) \/ PutEndpoints(c) \/ PutEndpointsFails(c)
    \/ Sweep
    \/ Clock

RegistrationSpec == RegistrationInit /\ [][RegistrationNext]_vars

(* Fairness: the agent runs, and neither the network nor the database nor   *)
(* a crash defeats every attempt.                                           *)
Fairness ==
    \A d \in Devices :
        /\ WF_vars(Begin(d))
        /\ SF_vars(Fetch(d))
        /\ SF_vars(Send(d))
        /\ SF_vars(\E c \in calls : c.device = d /\ c.live /\ Deliver(c))
        /\ SF_vars(\E c \in calls : c.device = d /\ c.live /\ PutEndpoints(c))
        /\ SF_vars(Settle(d))
        /\ SF_vars(Rejected(d))
        /\ WF_vars(Failed(d))
        /\ WF_vars(TimeOut(d))

RegistrationFairSpec == RegistrationSpec /\ Fairness

----------------------------------------------------------------------------
(* Type correctness of the agents, the network and the store. *)
RegistrationTypeOK ==
    /\ TypeOK
    /\ local \in [Devices -> Payloads]
    /\ moves \in [Devices -> 0 .. MaxMoves]
    /\ crashes \in [Devices -> 0 .. MaxCrashes]
    /\ phase \in [Devices -> Phases]
    /\ payload \in [Devices -> AddressSets]
    /\ refresh \in [Devices -> BOOLEAN]
    /\ \A d \in Devices : pending[d] \subseteq written[d] /\ written[d] \subseteq Pending
    /\ drawn \in [Devices -> Keys]
    /\ wake \in [Devices -> Nat]
    /\ calls \subseteq Call
    /\ \A d \in Devices : answer[d] \subseteq Answer
    /\ refused \subseteq Devices \X Keys

(* The agent never uses a key for two requests: it is never answered 409,   *)
(* the answer that makes it exit, whatever it forgets in a crash and        *)
(* however late its requests are.                                           *)
NeverConflicts ==
    \A d \in Devices : \A a \in answer[d] : a.status # 409

(* 412 is final.  The agent drops a request that was answered 412 and       *)
(* computes a new one; no copy of the old one, wherever it was held up and  *)
(* whatever time its handler had read, is accepted after that.              *)
RefusalFinal ==
    \A row \in idempotency : <<row.device, row.key>> \notin refused

(* "A never-before-accepted request against an old generation fails with    *)
(* HTTP 412, so delayed requests cannot overwrite newer desired state"      *)
(* (architecture.md): once a request the agent made later has been          *)
(* accepted, no first acceptance of an earlier one changes the addresses.   *)
DelayedWriteRejected ==
    [][\A row \in idempotency' \ idempotency :
         (\E later \in idempotency : later.device = row.device /\ later.key > row.key)
            => intents'[row.device].addresses = intents[row.device].addresses]_vars

(* The agent is not caught in timeouts, refusals or stale answers: again    *)
(* and again it gets an acceptance it can settle with.                      *)
AgentSettles ==
    \A d \in Devices : []<>(phase[d] = "asleep")
============================================================================

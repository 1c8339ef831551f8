------------------------- MODULE RegistrationProofs -------------------------
(***************************************************************************)
(* Proofs about the agents, the network and the controller (module         *)
(* Registration), for any number of devices, keys, crashes and moves and   *)
(* for any clock.                                                          *)
(*                                                                         *)
(* What ties the agents to the store is the pending file.  Every request   *)
(* in the network and every answer in the idempotency table goes back to   *)
(* something that was once written into it, and no two things that were    *)
(* written into it have one key (WrittenOK, CallsWritten, RowsWritten).    *)
(* So a key is never met with other contents, and a precondition that once *)
(* failed is that of every copy of the request (RefusedDead).              *)
(***************************************************************************)
EXTENDS Registration, DesiredStateProofs

(* Type correctness of the agents ... *)
AgentsTyped ==
    /\ local \in [Devices -> Payloads]
    /\ moves \in [Devices -> 0 .. MaxMoves]
    /\ crashes \in [Devices -> 0 .. MaxCrashes]
    /\ phase \in [Devices -> Phases]
    /\ payload \in [Devices -> AddressSets]
    /\ refresh \in [Devices -> BOOLEAN]
    /\ pending \in [Devices -> SUBSET Pending]
    /\ written \in [Devices -> SUBSET Pending]
    /\ drawn \in [Devices -> Keys]
    /\ wake \in [Devices -> Nat]

(* ... and of the network. *)
NetworkTyped ==
    /\ calls \subseteq Call
    /\ answer \in [Devices -> SUBSET Answer]
    /\ refused \subseteq Devices \X Keys

(* The agent's addresses have been read when it asks for a precondition,    *)
(* its file is one it has written, and the key of migrated rows is not one  *)
(* it can still draw.                                                       *)
AgentsOK ==
    \A d \in Devices :
        /\ phase[d] = "fetch" => payload[d] \in Payloads
        /\ pending[d] \subseteq written[d]
        /\ LegacyKey <= drawn[d]

(* A request that was written has a key of its own, drawn by then, and a    *)
(* precondition computed from a generation the row has had.                 *)
WrittenOK ==
    \A d \in Devices : \A p \in written[d] :
        /\ p.precondition \in Preconditions
        /\ Valid(p.precondition)
        /\ p.precondition.expectedGeneration <= intents[d].generation
        /\ LegacyKey < p.key
        /\ p.key <= drawn[d]
        /\ \A q \in written[d] : q.key = p.key => q = p

(* A call carries a request that was written, and its handler has read no   *)
(* time that is still to come.                                              *)
CallsWritten ==
    \A c \in calls :
        /\ c.time <= now + 1
        /\ \E p \in written[c.device] :
              /\ p.addresses = c.addresses
              /\ p.key = c.key
              /\ p.precondition = c.precondition

(* A row is a migrated one or the answer to a request that was written. *)
RowsWritten ==
    \A row \in idempotency :
        \/ row.key = LegacyKey
        \/ \E p \in written[row.device] :
              /\ p.addresses = row.addresses
              /\ p.key = row.key
              /\ PreconditionKey(p.precondition) = row.precondition

(* The precondition can not hold again. *)
Dead(p, row) ==
    IF p.requireAbsent THEN row.generation > 0 ELSE row.generation > p.expectedGeneration

(* What was refused was written, and its precondition is dead. *)
RefusedDead ==
    \A x \in refused : \E p \in written[x[1]] :
        p.key = x[2] /\ Dead(p.precondition, intents[x[1]])

(* The inductive invariant. *)
RegistrationInv ==
    /\ StoreInv
    /\ GenerationsBounded
    /\ AgentsTyped
    /\ NetworkTyped
    /\ AgentsOK
    /\ WrittenOK
    /\ CallsWritten
    /\ RowsWritten
    /\ RefusedDead
    /\ RefusalFinal
    /\ NeverConflicts

----------------------------------------------------------------------------
(* A call is a request the store knows. *)
LEMMA CallFacts ==
    ASSUME RegistrationInv, NEW c \in calls
    PROVE  /\ c.device \in Devices /\ c.addresses \in Payloads /\ c.key \in Keys
           /\ c.live \in BOOLEAN /\ c.time \in Nat
           /\ c.precondition \in Preconditions /\ Valid(c.precondition)
           /\ Identity[c.device] \in Hostnames
           /\ LegacyKey < c.key
           /\ c.time > 0 => c.time - 1 \in Times /\ c.time - 1 \in Nat
           /\ now \in Nat
  <1>1. now \in Nat
    BY IntentsAssumption DEF RegistrationInv, StoreInv, TableInv, IntentsTypeOK
  <1>2. /\ c.device \in Devices /\ c.addresses \in Payloads /\ c.key \in Keys
        /\ c.live \in BOOLEAN /\ c.time \in Nat
    BY DEF RegistrationInv, NetworkTyped, Call
  <1>3. c.time <= now + 1
    BY DEF RegistrationInv, CallsWritten
  <1>4. PICK p \in written[c.device] : p.key = c.key /\ p.precondition = c.precondition
    BY DEF RegistrationInv, CallsWritten
  <1>5. c.precondition \in Preconditions /\ Valid(c.precondition) /\ LegacyKey < c.key
    BY <1>2, <1>4 DEF RegistrationInv, WrittenOK
  <1>6. Identity[c.device] \in Hostnames
    BY <1>2, RegistrationAssumption
  <1>. QED
    BY <1>1, <1>2, <1>3, <1>5, <1>6 DEF Times

(* An action that is neither a transaction nor the clock leaves the tables  *)
(* alone.                                                                   *)
NetworkNext ==
    \/ \E d \in Devices :
         \/ Begin(d) \/ FetchFails(d) \/ Send(d) \/ TimeOut(d)
         \/ Settle(d) \/ Rejected(d) \/ Failed(d) \/ Wake(d)
         \/ Crash(d) \/ PowerFailure(d) \/ Move(d)
    \/ \E c \in calls : Deliver(c) \/ PutEndpointsFails(c)

(* ... which is what each of them says. *)
LEMMA TablesAlone ==
    ASSUME NetworkNext
    PROVE  UNCHANGED storeVars /\ UNCHANGED refused
  BY DEF NetworkNext, Begin, FetchFails, Send, TimeOut, Settle, Rejected, Failed, Wake, Crash,
         PowerFailure, Restart, Move, Deliver, PutEndpointsFails, tableVars

(* Every step is a step of the store, or none of it. *)
LEMMA RegistrationStepIsStoreStep ==
    ASSUME RegistrationInv, [RegistrationNext]_vars
    PROVE  [Next]_storeVars
  <1>1. now \in Times
    BY IntentsAssumption DEF RegistrationInv, StoreInv, TableInv, IntentsTypeOK, Times
  <1>2. ASSUME NEW c \in calls, PutEndpoints(c)
        PROVE  [Next]_storeVars
    <2>1. PICK m \in RenewAfterMillis :
            UpsertIntent(c.device, Identity[c.device], c.addresses, c.key, c.precondition,
                         c.time - 1, m)
      BY <1>2 DEF PutEndpoints
    <2>2. c.time > 0
      BY <1>2 DEF PutEndpoints
    <2>. QED
      BY <2>1, <2>2, CallFacts DEF Next
  <1>3. ASSUME NEW d \in Devices, Fetch(d)
        PROVE  [Next]_storeVars
    BY <1>1, <1>3 DEF Fetch, GetStatus, Next, storeVars
  <1>4. CASE Sweep \/ Clock
    BY <1>1, <1>4 DEF Sweep, Clock, Next
  <1>5. CASE NetworkNext
    BY <1>5, TablesAlone
  <1>6. CASE UNCHANGED vars
    BY <1>6 DEF vars, storeVars
  <1>. QED
    BY <1>2, <1>3, <1>4, <1>5, <1>6 DEF RegistrationNext, AgentStep, NetworkNext

(* What every step does to the tables. *)
LEMMA TablesKept ==
    ASSUME RegistrationInv, [RegistrationNext]_vars
    PROVE  /\ StoreInv' /\ GenerationsBounded'
           /\ \A e \in Devices : Follows(intents'[e], intents[e])
           /\ now \in Nat /\ now' \in Nat /\ now' >= now
           /\ \A e \in Devices : intents[e].generation \in Nat /\ intents'[e].generation \in Nat
  <1>1. [Next]_storeVars
    BY RegistrationStepIsStoreStep
  <1>2. [IntentsNext]_intentsVars
    BY <1>1, StoreStepIsTableStep
  <1>3. StoreInv' /\ GenerationsBounded' /\ \A e \in Devices : Follows(intents'[e], intents[e])
    BY <1>1, <1>2, StoreStep, TableStep, BoundedStep DEF RegistrationInv, StoreInv
  <1>4. now \in Nat /\ now' \in Nat
    BY <1>3, IntentsAssumption DEF RegistrationInv, StoreInv, TableInv, IntentsTypeOK
  <1>5. now' = now \/ now' = now + 1
    BY <1>2 DEF IntentsNext, Write, RealizeExpiry, ExpireLeases, MarkOriginApplied,
       MarkPubliclyObserved, MarkPublicationError, Tick, intentsVars
  <1>6. \A e \in Devices : intents[e].generation \in Nat /\ intents'[e].generation \in Nat
    BY <1>3 DEF RegistrationInv, StoreInv, TableInv, IntentsTypeOK, Intent
  <1>. QED
    BY <1>3, <1>4, <1>5, <1>6

(* The fields of what was written. *)
LEMMA WrittenFields ==
    ASSUME RegistrationInv, NEW d \in Devices, NEW p \in written[d]
    PROVE  /\ p \in Pending /\ p.key \in Nat
           /\ p.precondition.expectedGeneration \in Nat
           /\ p.precondition.requireAbsent \in BOOLEAN
  <1>1. p \in Pending
    BY DEF RegistrationInv, AgentsTyped
  <1>2. p.precondition \in Precondition /\ p.key \in Nat
    BY <1>1, RegistrationAssumption DEF Pending
  <1>. QED
    BY <1>1, <1>2 DEF Precondition

(* What is dead stays dead. *)
LEMMA DeadKept ==
    ASSUME RegistrationInv, [RegistrationNext]_vars,
           \A e \in Devices : written[e] \subseteq written'[e],
           NEW x \in refused
    PROVE  \E p \in written'[x[1]] : p.key = x[2] /\ Dead(p.precondition, intents'[x[1]])
  <1>1. PICK p \in written[x[1]] : p.key = x[2] /\ Dead(p.precondition, intents[x[1]])
    BY DEF RegistrationInv, RefusedDead
  <1>2. x[1] \in Devices
    BY DEF RegistrationInv, NetworkTyped
  <1>3. intents'[x[1]].generation >= intents[x[1]].generation
    BY <1>2, TablesKept DEF Follows
  <1>4. Dead(p.precondition, intents'[x[1]])
    BY <1>1, <1>2, <1>3, TablesKept, WrittenFields DEF Dead
  <1>. QED
    BY <1>1, <1>2, <1>4

(* What was written stays as good as it was. *)
LEMMA WrittenKept ==
    ASSUME RegistrationInv, [RegistrationNext]_vars, UNCHANGED <<written, drawn>>
    PROVE  WrittenOK'
  <1>1. ASSUME NEW d \in Devices, NEW p \in written[d]
        PROVE  p.precondition.expectedGeneration <= intents'[d].generation
    <2>1. p.precondition.expectedGeneration <= intents[d].generation
      BY DEF RegistrationInv, WrittenOK
    <2>2. intents'[d].generation >= intents[d].generation
      BY TablesKept DEF Follows
    <2>. QED
      BY <2>1, <2>2, TablesKept, WrittenFields
  <1>. QED
    BY <1>1 DEF RegistrationInv, WrittenOK

(* A step that neither writes the file nor adds a row or a refusal. *)
LEMMA QuietAgents ==
    ASSUME RegistrationInv, [RegistrationNext]_vars,
           UNCHANGED <<written, drawn, idempotency, refused>>,
           AgentsTyped', NetworkTyped', AgentsOK', CallsWritten', NeverConflicts'
    PROVE  RegistrationInv'
  <1>1. RowsWritten' /\ RefusalFinal'
    BY DEF RegistrationInv, RowsWritten, RefusalFinal
  <1>2. RefusedDead'
    BY DeadKept DEF RefusedDead
  <1>. QED
    BY <1>1, <1>2, TablesKept, WrittenKept DEF RegistrationInv

----------------------------------------------------------------------------
(* The network *)

(* It keeps what it holds. *)
LEMMA NetworkSame ==
    ASSUME RegistrationInv, [RegistrationNext]_vars, UNCHANGED <<calls, answer, refused>>,
           \A d \in Devices : written[d] \subseteq written'[d]
    PROVE  NetworkTyped' /\ CallsWritten' /\ NeverConflicts'
  <1>1. ASSUME NEW c \in calls
        PROVE  /\ c.time <= now' + 1
               /\ \E p \in written'[c.device] :
                     /\ p.addresses = c.addresses
                     /\ p.key = c.key
                     /\ p.precondition = c.precondition
    <2>1. c.time \in Nat /\ c.time <= now + 1 /\ c.device \in Devices
      BY CallFacts DEF RegistrationInv, CallsWritten
    <2>2. c.time <= now' + 1
      BY <2>1, TablesKept
    <2>. QED
      BY <2>1, <2>2 DEF RegistrationInv, CallsWritten
  <1>. QED
    BY <1>1 DEF RegistrationInv, NetworkTyped, CallsWritten, NeverConflicts

(* A closed connection leaves the requests and takes the answer. *)
LEMMA HangupKeeps ==
    ASSUME RegistrationInv, NEW d \in Devices, Hangup(d), UNCHANGED <<written, now, refused>>
    PROVE  NetworkTyped' /\ CallsWritten' /\ NeverConflicts'
  <1>1. ASSUME NEW b \in calls'
        PROVE  /\ b \in Call
               /\ b.time <= now + 1
               /\ \E p \in written[b.device] :
                     /\ p.addresses = b.addresses
                     /\ p.key = b.key
                     /\ p.precondition = b.precondition
    <2>1. PICK c \in calls : b = IF c.device = d THEN [c EXCEPT !.live = FALSE] ELSE c
      BY DEF Hangup
    <2>2. c \in Call
      BY DEF RegistrationInv, NetworkTyped
    <2>3. /\ b \in Call /\ b.device = c.device /\ b.addresses = c.addresses /\ b.key = c.key
          /\ b.precondition = c.precondition /\ b.time = c.time
      BY <2>1, <2>2 DEF Call
    <2>. QED
      BY <2>3 DEF RegistrationInv, CallsWritten
  <1>2. answer' \in [Devices -> SUBSET Answer] /\ NeverConflicts'
    BY DEF Hangup, RegistrationInv, NetworkTyped, NeverConflicts
  <1>. QED
    BY <1>1, <1>2 DEF RegistrationInv, NetworkTyped, CallsWritten

(* A call that is taken off the network, and an answer that is not 409. *)
LEMMA FinishKeeps ==
    ASSUME RegistrationInv, NEW c \in calls, NEW status \in Statuses \ {409}, NEW end \in Nat,
           Finish(c, status, end), UNCHANGED <<written, now>>, refused' \subseteq Devices \X Keys
    PROVE  NetworkTyped' /\ CallsWritten' /\ NeverConflicts'
  <1>. DEFINE a == [status |-> status, lease |-> end]
  <1>1. a \in Answer /\ a.status # 409
    BY DEF Answer
  <1>2. c.device \in Devices
    BY CallFacts
  <1>3. answer' = answer \/ answer' = [answer EXCEPT ![c.device] = {a}]
    BY DEF Finish
  <1>. HIDE DEF a
  <1>4. answer' \in [Devices -> SUBSET Answer] /\ NeverConflicts'
    BY <1>1, <1>2, <1>3 DEF RegistrationInv, NetworkTyped, NeverConflicts
  <1>5. calls' \subseteq calls
    BY DEF Finish
  <1>. QED
    BY <1>4, <1>5 DEF RegistrationInv, NetworkTyped, CallsWritten

----------------------------------------------------------------------------
(* The agents *)

(* The flag is a flag, whichever of the two ways it is set. *)
LEMMA RefreshType ==
    ASSUME RegistrationInv, NEW d \in Devices
    PROVE  /\ Retry(d) => refresh' \in [Devices -> BOOLEAN]
           /\ RefreshOrRetry(d) => refresh' \in [Devices -> BOOLEAN]
           /\ refresh' = [refresh EXCEPT ![d] = TRUE] => refresh' \in [Devices -> BOOLEAN]
           /\ UNCHANGED refresh => refresh' \in [Devices -> BOOLEAN]
  <1>1. refresh \in [Devices -> BOOLEAN]
    BY DEF RegistrationInv, AgentsTyped
  <1>2. refresh' = [refresh EXCEPT ![d] = TRUE] => refresh' \in [Devices -> BOOLEAN]
    BY <1>1
  <1>3. refresh' = [refresh EXCEPT ![d] = ~@] => refresh' \in [Devices -> BOOLEAN]
    BY <1>1
  <1>. QED
    BY <1>1, <1>2, <1>3 DEF Retry, RefreshOrRetry

(* What there is of an agent. *)
LEMMA AgentFacts ==
    ASSUME RegistrationInv, NEW d \in Devices
    PROVE  /\ phase[d] \in Phases /\ payload[d] \in AddressSets
           /\ pending[d] \subseteq written[d] /\ wake[d] \in Nat
           /\ crashes[d] \in 0 .. MaxCrashes /\ local[d] \in Payloads
           /\ local[d] \in AddressSets /\ {} \in AddressSets
           /\ now \in Nat
  <1>1. now \in Nat
    BY IntentsAssumption DEF RegistrationInv, StoreInv, TableInv, IntentsTypeOK
  <1>. QED
    BY <1>1 DEF RegistrationInv, AgentsTyped, AgentsOK, AddressSets

(* An attempt begins with the addresses of the device. *)
LEMMA BeginKeeps ==
    ASSUME RegistrationInv, NEW d \in Devices, Begin(d)
    PROVE  RegistrationInv'
  <1>1. AgentsTyped' /\ AgentsOK'
    <2>1. CASE payload' = [payload EXCEPT ![d] = local[d]] /\ phase' = [phase EXCEPT ![d] = "fetch"]
      BY <2>1, AgentFacts, RefreshType
         DEF Begin, Phases, RegistrationInv, AgentsTyped, AgentsOK
    <2>2. CASE phase' = [phase EXCEPT ![d] = "send"] /\ UNCHANGED payload
      BY <2>2, AgentFacts, RefreshType
         DEF Begin, Phases, RegistrationInv, AgentsTyped, AgentsOK
    <2>. QED
      BY <2>1, <2>2 DEF Begin
  <1>2. RegistrationNext
    BY DEF RegistrationNext, AgentStep
  <1>3. UNCHANGED <<written, drawn, idempotency, refused, calls, answer>>
    BY DEF Begin, tableVars, storeVars
  <1>. QED
    BY <1>1, <1>2, <1>3, NetworkSame, QuietAgents

(* The precondition could not be fetched, or the sleep is over. *)
LEMMA RetryKeeps ==
    ASSUME RegistrationInv, NEW d \in Devices, FetchFails(d) \/ Wake(d)
    PROVE  RegistrationInv'
  <1>1. AgentsTyped' /\ AgentsOK'
    <2>1. CASE FetchFails(d)
      BY <2>1, AgentFacts, RefreshType
         DEF FetchFails, Retry, Phases, RegistrationInv, AgentsTyped, AgentsOK
    <2>2. CASE Wake(d)
      BY <2>2, AgentFacts, RefreshType
         DEF Wake, Retry, Phases, RegistrationInv, AgentsTyped, AgentsOK
    <2>. QED
      BY <2>1, <2>2
  <1>2. RegistrationNext
    BY DEF RegistrationNext, AgentStep
  <1>3. UNCHANGED <<written, drawn, idempotency, refused, calls, answer>>
    BY DEF FetchFails, Wake, tableVars, storeVars
  <1>. QED
    BY <1>1, <1>2, <1>3, NetworkSame, QuietAgents

(* The attempt ends and its connection is closed. *)
LEMMA AttemptEnds ==
    ASSUME RegistrationInv, NEW d \in Devices,
           \/ TimeOut(d) \/ Settle(d) \/ Rejected(d) \/ Failed(d)
           \/ Crash(d) \/ PowerFailure(d)
    PROVE  RegistrationInv'
  <1>1. ASSUME NEW file, file \subseteq written[d], pending' = [pending EXCEPT ![d] = file],
               Restart(d)
        PROVE  AgentsTyped' /\ AgentsOK'
    <2>1. crashes[d] + 1 \in 0 .. MaxCrashes
      BY <1>1, AgentFacts, RegistrationAssumption DEF Restart
    <2>2. crashes' = [crashes EXCEPT ![d] = crashes[d] + 1]
      BY <1>1, AgentFacts DEF Restart
    <2>. QED
      BY <1>1, <2>1, <2>2, AgentFacts, RefreshType
         DEF Restart, Retry, Phases, RegistrationInv, AgentsTyped, AgentsOK
  <1>2. ASSUME RefreshOrRetry(d)
        PROVE  /\ phase' = [phase EXCEPT ![d] = "ready"]
               /\ refresh' \in [Devices -> BOOLEAN]
    BY <1>2, RefreshType DEF RefreshOrRetry
  <1>3. AgentsTyped' /\ AgentsOK'
    <2>1. CASE TimeOut(d) \/ Failed(d)
      BY <2>1, AgentFacts, RefreshType
         DEF TimeOut, Failed, Retry, Phases, RegistrationInv, AgentsTyped, AgentsOK
    <2>2. CASE Rejected(d)
      <3>1. /\ pending' = [pending EXCEPT ![d] = {}] /\ {} \subseteq written[d]
            /\ Retry(d) \/ RefreshOrRetry(d)
            /\ UNCHANGED <<local, moves, crashes, payload, written, drawn, wake>>
        BY <2>2 DEF Rejected
      <3>2. CASE Retry(d)
        BY <3>1, <3>2, AgentFacts, RefreshType
           DEF Retry, Phases, RegistrationInv, AgentsTyped, AgentsOK
      <3>3. CASE RefreshOrRetry(d)
        BY <1>2, <3>1, <3>3, AgentFacts, RefreshType
           DEF Phases, RegistrationInv, AgentsTyped, AgentsOK
      <3>. QED
        BY <3>1, <3>2, <3>3
    <2>3. CASE Settle(d)
      <3>1. /\ pending' = [pending EXCEPT ![d] = {}] /\ {} \subseteq written[d]
            /\ UNCHANGED <<local, moves, crashes, payload, written, drawn>>
        BY <2>3 DEF Settle
      <3>2. ASSUME phase' = [phase EXCEPT ![d] = "asleep"], refresh' = [refresh EXCEPT ![d] = TRUE],
                   NEW n \in RenewIntervals, wake' = [wake EXCEPT ![d] = now + n]
            PROVE  AgentsTyped' /\ AgentsOK'
        <4>1. now + n \in Nat
          BY AgentFacts, RegistrationAssumption, IntentsAssumption
        <4>. QED
          BY <3>1, <3>2, <4>1, AgentFacts, RefreshType
             DEF Phases, RegistrationInv, AgentsTyped, AgentsOK
      <3>3. CASE RefreshOrRetry(d) /\ UNCHANGED wake
        BY <1>2, <3>1, <3>3, AgentFacts, RefreshType
           DEF Phases, RegistrationInv, AgentsTyped, AgentsOK
      <3>. QED
        BY <2>3, <3>2, <3>3 DEF Settle
    <2>4. CASE Crash(d)
      <3>1. pending' = [pending EXCEPT ![d] = pending[d]]
        BY <2>4 DEF Crash, RegistrationInv, AgentsTyped
      <3>. QED
        BY <1>1, <2>4, <3>1, AgentFacts DEF Crash
    <2>5. CASE PowerFailure(d)
      <3>1. PICK file \in {{}} \cup {{p} : p \in written[d]} : pending' = [pending EXCEPT ![d] = file]
        BY <2>5 DEF PowerFailure
      <3>2. file \subseteq written[d] /\ Restart(d)
        BY <2>5 DEF PowerFailure
      <3>. QED
        BY <1>1, <3>1, <3>2
    <2>. QED
      BY <2>1, <2>2, <2>3, <2>4, <2>5
  <1>4. RegistrationNext
    BY DEF RegistrationNext, AgentStep
  <1>5. /\ Hangup(d)
        /\ UNCHANGED <<written, drawn, idempotency, refused, now>>
    BY DEF TimeOut, Settle, Rejected, Failed, Crash, PowerFailure, Restart, tableVars, storeVars
  <1>. QED
    BY <1>3, <1>4, <1>5, HangupKeeps, QuietAgents

(* What is sent is what the file holds. *)
LEMMA SendKeeps ==
    ASSUME RegistrationInv, NEW d \in Devices, Send(d)
    PROVE  RegistrationInv'
  <1>1. AgentsTyped' /\ AgentsOK'
    BY AgentFacts, RefreshType
       DEF Send, Phases, RegistrationInv, AgentsTyped, AgentsOK
  <1>2. RegistrationNext
    BY DEF RegistrationNext, AgentStep
  <1>3. UNCHANGED <<written, drawn, idempotency, refused, answer, now>>
    BY DEF Send, tableVars, storeVars
  <1>4. PICK p \in pending[d] : calls' = calls \cup
          {[device |-> d, addresses |-> p.addresses, key |-> p.key,
            precondition |-> p.precondition, live |-> TRUE, time |-> 0]}
    BY DEF Send
  <1>5. PICK c : c = [device |-> d, addresses |-> p.addresses, key |-> p.key,
                      precondition |-> p.precondition, live |-> TRUE, time |-> 0]
    OBVIOUS
  <1>6. p \in written[d] /\ p \in Pending
    BY AgentFacts, WrittenFields
  <1>7. /\ c \in Call /\ c.device = d /\ c.time = 0 /\ c.addresses = p.addresses
        /\ c.key = p.key /\ c.precondition = p.precondition
    BY <1>5, <1>6 DEF Call, Pending
  <1>8. 0 <= now + 1
    BY AgentFacts
  <1>9. calls' = calls \cup {c}
    BY <1>4, <1>5
  <1>10. ASSUME NEW b \in calls'
         PROVE  /\ b.time <= now + 1
                /\ \E q \in written[b.device] :
                      /\ q.addresses = b.addresses
                      /\ q.key = b.key
                      /\ q.precondition = b.precondition
    <2>1. CASE b = c
      BY <1>6, <1>7, <1>8, <2>1
    <2>2. CASE b \in calls
      BY <2>2 DEF RegistrationInv, CallsWritten
    <2>. QED
      BY <1>9, <2>1, <2>2
  <1>11. NetworkTyped' /\ NeverConflicts'
    BY <1>3, <1>7, <1>9 DEF RegistrationInv, NetworkTyped, NeverConflicts
  <1>12. CallsWritten'
    BY <1>3, <1>10 DEF CallsWritten
  <1>. QED
    BY <1>1, <1>2, <1>3, <1>11, <1>12, QuietAgents

(* The addresses of a device change under its agent. *)
LEMMA MoveKeeps ==
    ASSUME RegistrationInv, NEW d \in Devices, Move(d)
    PROVE  RegistrationInv'
  <1>1. moves[d] + 1 \in 0 .. MaxMoves
    BY RegistrationAssumption DEF Move, RegistrationInv, AgentsTyped
  <1>2. AgentsTyped' /\ AgentsOK'
    BY <1>1 DEF Move, RegistrationInv, AgentsTyped, AgentsOK
  <1>3. RegistrationNext
    BY DEF RegistrationNext
  <1>4. UNCHANGED <<written, drawn, idempotency, refused, calls, answer>>
    BY DEF Move, tableVars, storeVars
  <1>. QED
    BY <1>2, <1>3, <1>4, NetworkSame, QuietAgents

(* The precondition is computed from the generation the row is left with,   *)
(* and the key is new.                                                      *)
LEMMA FetchKeeps ==
    ASSUME RegistrationInv, NEW d \in Devices, Fetch(d)
    PROVE  RegistrationInv'
  <1>. DEFINE g == Current(intents[d], now).generation
  <1>1. PICK p : p = [addresses |-> payload[d], key |-> drawn[d] + 1,
                      precondition |-> StatusPrecondition(d)]
    OBVIOUS
  <1>2. RegistrationNext
    BY DEF RegistrationNext, AgentStep
  <1>3. /\ intents \in [Devices -> Intent] /\ now \in Nat /\ BoundedRow(intents[d])
        /\ RowOK(Current(intents[d], now)) /\ BoundedRow(Current(intents[d], now))
    BY AgentFacts, InvRow, CurrentRow, CurrentBounded
       DEF RegistrationInv, StoreInv, TableInv, IntentsTypeOK, GenerationsBounded
  <1>4. g \in Nat /\ g <= MaxGeneration /\ MaxGeneration \in Nat
    BY <1>3, IntentsAssumption DEF RowOK, Intent, BoundedRow
  <1>5. intents'[d].generation = g
    <2>1. CASE Lapsed(intents[d], now)
      BY <2>1 DEF Fetch, GetStatus, ExpireLeases
    <2>2. CASE ~Lapsed(intents[d], now)
      BY <2>2 DEF Fetch, GetStatus, Current
    <2>. QED
      BY <2>1, <2>2
  <1>6. /\ StatusPrecondition(d) \in Preconditions
        /\ StatusPrecondition(d) \in Precondition
        /\ Valid(StatusPrecondition(d))
        /\ StatusPrecondition(d).expectedGeneration <= g
    <2>1. CASE g = 0
      <3>1. StatusPrecondition(d) = RequireAbsent
        BY <2>1 DEF StatusPrecondition
      <3>. QED
        BY <1>4, <2>1, <3>1 DEF RequireAbsent, Preconditions, Precondition, Valid
    <2>2. CASE g # 0
      <3>1. g \in 1 .. MaxGeneration /\ StatusPrecondition(d) = MatchGeneration(g)
        BY <1>4, <2>2 DEF StatusPrecondition
      <3>2. MatchGeneration(g) \in Preconditions
        BY <3>1 DEF Preconditions
      <3>3. MatchGeneration(g) \in Precondition
        BY <1>4 DEF MatchGeneration, Precondition
      <3>4. MatchGeneration(g).expectedGeneration = g /\ ~MatchGeneration(g).requireAbsent
        BY DEF MatchGeneration
      <3>. QED
        BY <1>4, <3>1, <3>2, <3>3, <3>4 DEF Valid
    <2>. QED
      BY <2>1, <2>2
  <1>. HIDE DEF g
  <1>7. /\ drawn[d] \in Nat /\ drawn[d] + 1 \in Keys /\ drawn[d] + 1 \in Nat /\ LegacyKey \in Nat
        /\ drawn \in [Devices -> Keys] /\ written \in [Devices -> SUBSET Pending]
        /\ payload[d] \in Payloads
    BY RegistrationAssumption, DesiredStateAssumption
       DEF Fetch, RegistrationInv, AgentsTyped, AgentsOK
  <1>8. /\ p \in Pending /\ p.addresses = payload[d] /\ p.key = drawn[d] + 1
        /\ p.precondition = StatusPrecondition(d)
    BY <1>1, <1>6, <1>7 DEF Pending
  <1>9. /\ drawn' = [drawn EXCEPT ![d] = drawn[d] + 1]
        /\ pending' = [pending EXCEPT ![d] = {p}]
        /\ written' = [written EXCEPT ![d] = written[d] \cup {p}]
        /\ payload' = [payload EXCEPT ![d] = {}]
        /\ phase' = [phase EXCEPT ![d] = "send"]
        /\ UNCHANGED <<local, moves, crashes, refresh, wake, calls, answer, idempotency, refused>>
    BY <1>1, <1>7 DEF Fetch, WritePending, GetStatus
  <1>10. LegacyKey <= drawn[d]
    BY DEF RegistrationInv, AgentsOK
  <1>11. AgentsTyped'
    BY <1>7, <1>8, <1>9, AgentFacts DEF RegistrationInv, AgentsTyped, Phases
  <1>12. AgentsOK'
    <2>1. ASSUME NEW e \in Devices
          PROVE  /\ phase'[e] = "fetch" => payload'[e] \in Payloads
                 /\ pending'[e] \subseteq written'[e]
                 /\ LegacyKey <= drawn'[e]
      <3>1. CASE e = d
        BY <1>7, <1>9, <1>10, <3>1 DEF RegistrationInv, AgentsTyped
      <3>2. CASE e # d
        BY <1>7, <1>9, <3>2 DEF RegistrationInv, AgentsTyped, AgentsOK
      <3>. QED
        BY <3>1, <3>2
    <2>. QED
      BY <2>1 DEF AgentsOK
  <1>13. NetworkTyped' /\ CallsWritten' /\ NeverConflicts'
    BY <1>2, <1>7, <1>9, NetworkSame
  <1>14. WrittenOK'
    <2>1. ASSUME NEW e \in Devices, NEW q \in written'[e]
          PROVE  /\ q.precondition \in Preconditions
                 /\ Valid(q.precondition)
                 /\ q.precondition.expectedGeneration <= intents'[e].generation
                 /\ LegacyKey < q.key
                 /\ q.key <= drawn'[e]
                 /\ \A r \in written'[e] : r.key = q.key => r = q
      <3>1. \A r \in written[e] :
              /\ r.precondition \in Preconditions
              /\ Valid(r.precondition)
              /\ r.precondition.expectedGeneration <= intents[e].generation
              /\ LegacyKey < r.key /\ r.key <= drawn[e] /\ r.key \in Nat
              /\ r.precondition.expectedGeneration \in Nat
              /\ \A s \in written[e] : s.key = r.key => s = r
        BY WrittenFields DEF RegistrationInv, WrittenOK
      <3>2. intents'[e].generation >= intents[e].generation
        BY <1>2, TablesKept DEF Follows
      <3>3. intents'[e].generation \in Nat /\ intents[e].generation \in Nat
        BY <1>2, TablesKept
      <3>4. CASE e # d
        <4>1. written'[e] = written[e] /\ drawn'[e] = drawn[e]
          BY <1>7, <1>9, <3>4
        <4>. QED
          BY <3>1, <3>2, <3>3, <4>1
      <3>5. CASE e = d
        <4>1. written'[e] = written[e] \cup {p} /\ drawn'[e] = drawn[e] + 1
          BY <1>7, <1>9, <3>5
        <4>2. \A r \in written[e] : r.key < p.key /\ r.key <= drawn'[e]
          BY <1>7, <1>8, <3>1, <3>5, <4>1
        <4>3. CASE q = p
          <5>1. p.key <= drawn'[e] /\ LegacyKey < p.key
            BY <1>7, <1>8, <1>10, <3>5, <4>1
          <5>2. \A r \in written'[e] : r.key = p.key => r = p
            BY <1>7, <1>8, <3>1, <4>1, <4>2
          <5>. QED
            BY <1>4, <1>5, <1>6, <1>8, <3>5, <4>3, <5>1, <5>2
        <4>4. CASE q \in written[e]
          <5>1. \A r \in written'[e] : r.key = q.key => r = q
            BY <1>7, <1>8, <3>1, <4>1, <4>2, <4>4
          <5>. QED
            BY <3>1, <3>2, <3>3, <4>2, <4>4, <5>1
        <4>. QED
          BY <4>1, <4>3, <4>4
      <3>. QED
        BY <3>4, <3>5
    <2>. QED
      BY <2>1 DEF WrittenOK
  <1>15. \A e \in Devices : written[e] \subseteq written'[e]
    BY <1>7, <1>9
  <1>16. RowsWritten'
    <2>1. \A row \in idempotency : row.device \in Devices
      BY DEF RegistrationInv, StoreInv, IdempotencyRow
    <2>. QED
      BY <1>9, <1>15, <2>1 DEF RegistrationInv, RowsWritten
  <1>17. RefusedDead'
    BY <1>2, <1>9, <1>15, DeadKept DEF RefusedDead
  <1>18. RefusalFinal'
    BY <1>9 DEF RegistrationInv, RefusalFinal
  <1>. QED
    BY <1>2, <1>11, <1>12, <1>13, <1>14, <1>16, <1>17, <1>18, TablesKept DEF RegistrationInv

----------------------------------------------------------------------------
(* The controller *)

(* A handler reads the clock, and the transport may send a request again. *)
LEMMA DeliverKeeps ==
    ASSUME RegistrationInv, NEW c \in calls, Deliver(c)
    PROVE  RegistrationInv'
  <1>1. UNCHANGED <<written, drawn, idempotency, refused, answer, now>> /\ UNCHANGED agentVars
    BY DEF Deliver, tableVars, storeVars, agentVars
  <1>2. AgentsTyped' /\ AgentsOK'
    BY <1>1 DEF RegistrationInv, AgentsTyped, AgentsOK, agentVars
  <1>3. RegistrationNext
    BY DEF RegistrationNext
  <1>4. c \in Call /\ now \in Nat /\ now + 1 \in Nat
    BY CallFacts DEF RegistrationInv, NetworkTyped
  <1>5. /\ c.time <= now + 1
        /\ \E p \in written[c.device] :
              /\ p.addresses = c.addresses
              /\ p.key = c.key
              /\ p.precondition = c.precondition
    BY DEF RegistrationInv, CallsWritten
  <1>6. PICK b1, b2 : b1 = [c EXCEPT !.time = now + 1] /\ b2 = [c EXCEPT !.live = FALSE]
    OBVIOUS
  <1>7. /\ b1 \in Call /\ b1.device = c.device /\ b1.addresses = c.addresses /\ b1.key = c.key
        /\ b1.precondition = c.precondition /\ b1.time = now + 1
    BY <1>4, <1>6 DEF Call
  <1>8. /\ b2 \in Call /\ b2.device = c.device /\ b2.addresses = c.addresses /\ b2.key = c.key
        /\ b2.precondition = c.precondition /\ b2.time = c.time
    BY <1>4, <1>6 DEF Call
  <1>9. \A b \in calls' : b \in calls \/ b = b1 \/ b = b2
    BY <1>6 DEF Deliver
  <1>10. ASSUME NEW b \in calls'
         PROVE  /\ b \in Call
                /\ b.time <= now + 1
                /\ \E p \in written[b.device] :
                      /\ p.addresses = b.addresses
                      /\ p.key = b.key
                      /\ p.precondition = b.precondition
    <2>1. CASE b = b1
      BY <1>4, <1>5, <1>7, <2>1
    <2>2. CASE b = b2
      BY <1>5, <1>8, <2>2
    <2>3. CASE b \in calls
      BY <2>3 DEF RegistrationInv, NetworkTyped, CallsWritten
    <2>. QED
      BY <1>9, <2>1, <2>2, <2>3
  <1>11. NetworkTyped' /\ CallsWritten' /\ NeverConflicts'
    BY <1>1, <1>10 DEF RegistrationInv, NetworkTyped, CallsWritten, NeverConflicts
  <1>. QED
    BY <1>1, <1>2, <1>3, <1>11, QuietAgents

(* A transaction that fails is answered 500. *)
LEMMA PutEndpointsFailsKeeps ==
    ASSUME RegistrationInv, NEW c \in calls, PutEndpointsFails(c)
    PROVE  RegistrationInv'
  <1>1. UNCHANGED <<written, drawn, idempotency, refused, now>> /\ UNCHANGED agentVars
    BY DEF PutEndpointsFails, tableVars, storeVars, agentVars
  <1>2. AgentsTyped' /\ AgentsOK'
    BY <1>1 DEF RegistrationInv, AgentsTyped, AgentsOK, agentVars
  <1>3. RegistrationNext
    BY DEF RegistrationNext
  <1>4. 500 \in Statuses \ {409} /\ refused' \subseteq Devices \X Keys
    BY <1>1 DEF Statuses, RegistrationInv, NetworkTyped
  <1>5. NetworkTyped' /\ CallsWritten' /\ NeverConflicts'
    BY <1>1, <1>4, FinishKeeps DEF PutEndpointsFails
  <1>. QED
    BY <1>1, <1>2, <1>3, <1>5, QuietAgents

(* The publisher's expiry pass and the clock leave the agents alone. *)
LEMMA BackgroundKeeps ==
    ASSUME RegistrationInv, Sweep \/ Clock
    PROVE  RegistrationInv'
  <1>1. UNCHANGED <<written, drawn, idempotency, refused, calls, answer>> /\ UNCHANGED agentVars
    BY DEF Sweep, Clock, agentVars
  <1>2. AgentsTyped' /\ AgentsOK'
    BY <1>1 DEF RegistrationInv, AgentsTyped, AgentsOK, agentVars
  <1>3. RegistrationNext
    BY DEF RegistrationNext
  <1>. QED
    BY <1>1, <1>2, <1>3, NetworkSame, QuietAgents

(* The row of a call's key, if there is one, is the answer to that very     *)
(* request.                                                                 *)
LEMMA RowsBind ==
    ASSUME RegistrationInv, NEW c \in calls, NEW row \in Rows(c.device, c.key)
    PROVE  Binds(row, c.addresses, c.precondition) /\ row.intent.lease \in Nat
  <1>1. row \in idempotency /\ row.device = c.device /\ row.key = c.key
    BY DEF Rows
  <1>2. c.device \in Devices /\ c.key \in Nat /\ LegacyKey \in Nat /\ LegacyKey < c.key
    BY CallFacts, RegistrationAssumption, DesiredStateAssumption
  <1>3. PICK p \in written[c.device] : /\ p.addresses = row.addresses
                                       /\ p.key = row.key
                                       /\ PreconditionKey(p.precondition) = row.precondition
    BY <1>1, <1>2 DEF RegistrationInv, RowsWritten
  <1>4. PICK q \in written[c.device] : /\ q.addresses = c.addresses
                                       /\ q.key = c.key
                                       /\ q.precondition = c.precondition
    BY DEF RegistrationInv, CallsWritten
  <1>5. q = p
    BY <1>1, <1>2, <1>3, <1>4 DEF RegistrationInv, WrittenOK
  <1>6. row.intent.lease \in Nat
    BY <1>1 DEF RegistrationInv, StoreInv, IdempotencyRow, Intent
  <1>. QED
    BY <1>3, <1>4, <1>5, <1>6 DEF Binds

(* A precondition that has failed is dead in the row that is left behind. *)
LEMMA StaleIsDead ==
    ASSUME RegistrationInv, NEW d \in Devices, NEW p \in written[d], NEW t \in Nat,
           ~Holds(p.precondition, Current(intents[d], t)), RealizeExpiry(d, t)
    PROVE  Dead(p.precondition, intents'[d])
  <1>1. /\ RowOK(intents[d]) /\ intents \in [Devices -> Intent]
        /\ RowOK(Current(intents[d], t)) /\ Follows(Current(intents[d], t), intents[d])
    BY InvRow, CurrentRow DEF RegistrationInv, StoreInv, TableInv, IntentsTypeOK
  <1>2. intents'[d] = Current(intents[d], t)
    BY <1>1 DEF RealizeExpiry
  <1>3. /\ intents'[d].generation \in Nat /\ intents[d].generation \in Nat
        /\ intents'[d].generation >= intents[d].generation
    BY <1>1, <1>2 DEF RowOK, Intent, Follows
  <1>4. /\ Valid(p.precondition)
        /\ p.precondition.expectedGeneration <= intents[d].generation
    BY DEF RegistrationInv, WrittenOK
  <1>5. p.precondition.expectedGeneration \in Nat
    BY WrittenFields
  <1>. QED
    BY <1>2, <1>3, <1>4, <1>5 DEF Dead, Holds, Valid

(* A dead precondition does not hold in the row any transaction sees. *)
LEMMA DeadFails ==
    ASSUME RegistrationInv, NEW d \in Devices, NEW p \in written[d], NEW t \in Nat,
           Dead(p.precondition, intents[d])
    PROVE  ~Holds(p.precondition, Current(intents[d], t))
  <1>1. /\ RowOK(intents[d])
        /\ RowOK(Current(intents[d], t)) /\ Follows(Current(intents[d], t), intents[d])
    BY InvRow, CurrentRow DEF RegistrationInv, StoreInv
  <1>2. /\ Current(intents[d], t).generation \in Nat /\ intents[d].generation \in Nat
        /\ Current(intents[d], t).generation >= intents[d].generation
    BY <1>1 DEF RowOK, Intent, Follows
  <1>3. p.precondition.expectedGeneration \in Nat
    BY WrittenFields
  <1>. QED
    BY <1>2, <1>3 DEF Dead, Holds

(* The first answer to a request: it had not been refused, and the row says *)
(* what was written.                                                        *)
LEMMA AcceptedWritten ==
    ASSUME RegistrationInv, NEW c \in calls, NEW m \in RenewAfterMillis, c.time > 0,
           UpsertAccept(c.device, Identity[c.device], c.addresses, c.key, c.precondition,
                        c.time - 1, m),
           UNCHANGED <<written, refused>>
    PROVE  RowsWritten' /\ RefusalFinal'
  <1>. DEFINE d == c.device  t == c.time - 1  h == Identity[c.device]
              intent == Written(d, h, c.addresses, t)
  <1>1. /\ d \in Devices /\ h \in Hostnames /\ c.addresses \in Payloads /\ c.key \in Keys
        /\ c.precondition \in Preconditions /\ t \in Nat
    BY CallFacts
  <1>2. intent \in Intent /\ RenewAfterSeconds(m) \in Nat
    BY <1>1, InvRow, WrittenRow, RenewIsNat DEF RowOK, RegistrationInv, StoreInv
  <1>3. PICK reply : reply = Reply(d, c.key, c.addresses, c.precondition, intent, RenewAfterSeconds(m))
    OBVIOUS
  <1>4. /\ idempotency' = idempotency \cup {reply}
        /\ Holds(c.precondition, Current(intents[d], t))
    BY <1>3 DEF UpsertAccept
  <1>. HIDE DEF intent
  <1>5. /\ reply.device = d /\ reply.key = c.key /\ reply.addresses = c.addresses
        /\ reply.precondition = PreconditionKey(c.precondition)
    BY <1>1, <1>2, <1>3, ReplyFields
  <1>6. PICK q \in written[d] : /\ q.addresses = c.addresses
                                /\ q.key = c.key
                                /\ q.precondition = c.precondition
    BY DEF RegistrationInv, CallsWritten
  <1>. HIDE DEF d, t, h
  <1>7. RowsWritten'
    <2>1. ASSUME NEW row \in idempotency'
          PROVE  \/ row.key = LegacyKey
                 \/ \E p \in written[row.device] :
                       /\ p.addresses = row.addresses
                       /\ p.key = row.key
                       /\ PreconditionKey(p.precondition) = row.precondition
      <3>1. CASE row = reply
        BY <1>5, <1>6, <3>1
      <3>2. CASE row \in idempotency
        BY <3>2 DEF RegistrationInv, RowsWritten
      <3>. QED
        BY <1>4, <3>1, <3>2
    <2>. QED
      BY <2>1 DEF RowsWritten
  <1>8. <<d, c.key>> \notin refused
    <2>. SUFFICES ASSUME <<d, c.key>> \in refused PROVE FALSE
      OBVIOUS
    <2>1. PICK p \in written[d] : p.key = c.key /\ Dead(p.precondition, intents[d])
      BY DEF RegistrationInv, RefusedDead
    <2>2. p = q
      BY <1>1, <1>6, <2>1 DEF RegistrationInv, WrittenOK
    <2>. QED
      BY <1>1, <1>4, <1>6, <2>1, <2>2, DeadFails
  <1>9. RefusalFinal'
    BY <1>4, <1>5, <1>8 DEF RegistrationInv, RefusalFinal
  <1>. QED
    BY <1>7, <1>9

(* The answer 412 is given for what cannot be accepted again. *)
LEMMA RefusedStays ==
    ASSUME RegistrationInv, [RegistrationNext]_vars, NEW c \in calls, c.time > 0,
           NEW m \in RenewAfterMillis,
           UpsertStale(c.device, Identity[c.device], c.addresses, c.key, c.precondition,
                       c.time - 1, m),
           UNCHANGED written, refused' = refused \cup {<<c.device, c.key>>}
    PROVE  RefusedDead' /\ RefusalFinal'
  <1>1. c.device \in Devices /\ c.time - 1 \in Nat
    BY CallFacts
  <1>2. /\ Rows(c.device, c.key) = {} /\ UNCHANGED idempotency
        /\ ~Holds(c.precondition, Current(intents[c.device], c.time - 1))
        /\ RealizeExpiry(c.device, c.time - 1)
    BY DEF UpsertStale
  <1>3. PICK q \in written[c.device] : q.key = c.key /\ q.precondition = c.precondition
    BY DEF RegistrationInv, CallsWritten
  <1>4. Dead(q.precondition, intents'[c.device])
    BY <1>1, <1>2, <1>3, StaleIsDead
  <1>5. ASSUME NEW x \in refused'
        PROVE  \E p \in written'[x[1]] : p.key = x[2] /\ Dead(p.precondition, intents'[x[1]])
    <2>1. CASE x \in refused
      BY <2>1, DeadKept
    <2>2. CASE x = <<c.device, c.key>>
      BY <1>3, <1>4, <2>2
    <2>. QED
      BY <2>1, <2>2
  <1>6. RefusedDead'
    BY <1>5 DEF RefusedDead
  <1>7. RefusalFinal'
    BY <1>2 DEF RegistrationInv, RefusalFinal, Rows
  <1>. QED
    BY <1>6, <1>7

(* The transaction and its answer. *)
LEMMA PutEndpointsKeeps ==
    ASSUME RegistrationInv, NEW c \in calls, PutEndpoints(c)
    PROVE  RegistrationInv'
  <1>. DEFINE d == c.device  h == Identity[c.device]  t == c.time - 1
              status == PutStatus(d, h, c.addresses, c.key, c.precondition, t)
              end == PutLease(d, c.key, t)
  <1>1. PICK m \in RenewAfterMillis :
          UpsertIntent(d, h, c.addresses, c.key, c.precondition, t, m)
    BY DEF PutEndpoints
  <1>2. /\ c.time > 0 /\ Finish(c, status, end) /\ UNCHANGED agentVars
        /\ refused' = IF status = 412 THEN refused \cup {<<d, c.key>>} ELSE refused
    BY DEF PutEndpoints
  <1>3. RegistrationNext /\ now' = now /\ UNCHANGED <<written, drawn>>
    BY <1>1, <1>2 DEF RegistrationNext, agentVars, UpsertIntent, UpsertReplay, UpsertConflict,
       UpsertUnconditional, UpsertStale, UpsertMisnamed, UpsertAccept, RealizeExpiry, Write, storeVars
  <1>4. d \in Devices /\ c.key \in Keys /\ t \in Nat /\ Valid(c.precondition)
    BY <1>2, CallFacts
  <1>5. \A row \in Rows(d, c.key) : Binds(row, c.addresses, c.precondition)
    BY RowsBind
  <1>6. status \in Statuses \ {409}
    BY <1>4, <1>5 DEF PutStatus, Statuses
  <1>7. end \in Nat
    <2>1. CASE Rows(d, c.key) # {}
      <3>1. PICK row \in Rows(d, c.key) : row = CHOOSE r \in Rows(d, c.key) : TRUE
        BY <2>1
      <3>. QED
        BY <2>1, <3>1, RowsBind DEF PutLease
    <2>2. CASE Rows(d, c.key) = {}
      BY <1>4, <2>2, IntentsAssumption DEF PutLease
    <2>. QED
      BY <2>1, <2>2
  <1>8. refused' \subseteq Devices \X Keys
    BY <1>2, <1>4 DEF RegistrationInv, NetworkTyped
  <1>9. AgentsTyped' /\ AgentsOK'
    BY <1>2 DEF RegistrationInv, AgentsTyped, AgentsOK, agentVars
  <1>10. NetworkTyped' /\ CallsWritten' /\ NeverConflicts'
    BY <1>2, <1>3, <1>6, <1>7, <1>8, FinishKeeps
  <1>11. RowsWritten' /\ RefusedDead' /\ RefusalFinal'
    <2>1. CASE status = 412
      <3>1. UpsertStale(d, h, c.addresses, c.key, c.precondition, t, m)
        BY <1>1, <2>1 DEF PutStatus, UpsertIntent, UpsertReplay, UpsertConflict,
           UpsertUnconditional, UpsertMisnamed, UpsertAccept
      <3>2. RefusedDead' /\ RefusalFinal'
        BY <1>2, <1>3, <2>1, <3>1, RefusedStays
      <3>3. RowsWritten'
        BY <1>3, <3>1 DEF UpsertStale, RegistrationInv, RowsWritten
      <3>. QED
        BY <3>2, <3>3
    <2>2. CASE status # 412
      <3>1. UNCHANGED refused
        BY <1>2, <2>2
      <3>2. RefusedDead'
        BY <1>3, <3>1, DeadKept DEF RefusedDead
      <3>3. CASE UpsertAccept(d, h, c.addresses, c.key, c.precondition, t, m)
        BY <1>2, <1>3, <3>1, <3>2, <3>3, AcceptedWritten
      <3>4. CASE UNCHANGED idempotency
        BY <1>3, <3>1, <3>2, <3>4 DEF RegistrationInv, RowsWritten, RefusalFinal
      <3>. QED
        BY <1>1, <3>3, <3>4 DEF UpsertIntent, UpsertReplay, UpsertConflict,
           UpsertUnconditional, UpsertStale, UpsertMisnamed, storeVars
    <2>. QED
      BY <2>1, <2>2
  <1>. QED
    BY <1>3, <1>9, <1>10, <1>11, TablesKept, WrittenKept DEF RegistrationInv

----------------------------------------------------------------------------
(* No agent has written anything yet, and every row is a migrated one. *)
LEMMA RegistrationInitInv ==
    ASSUME RegistrationInit
    PROVE  RegistrationInv
  <1>1. StoreInv /\ GenerationsBounded
    BY StoreInit, BoundedInit DEF RegistrationInit, Init
  <1>2. LegacyKey \in Keys /\ LegacyKey \in Nat
    BY DesiredStateAssumption, RegistrationAssumption
  <1>3. AgentsTyped
    <2>1. refresh \in [Devices -> BOOLEAN]
      BY DEF RegistrationInit
    <2>. QED
      BY <1>2, <2>1, RegistrationAssumption
         DEF RegistrationInit, AgentsTyped, Phases, AddressSets
  <1>4. NetworkTyped
    BY DEF RegistrationInit, NetworkTyped
  <1>5. AgentsOK /\ WrittenOK
    BY <1>2 DEF RegistrationInit, AgentsOK, WrittenOK
  <1>6. CallsWritten /\ RefusedDead /\ RefusalFinal /\ NeverConflicts
    BY DEF RegistrationInit, CallsWritten, RefusedDead, RefusalFinal, NeverConflicts
  <1>7. RowsWritten
    BY DEF RegistrationInit, Init, MigratedRow, RowsWritten
  <1>. QED
    BY <1>1, <1>3, <1>4, <1>5, <1>6, <1>7 DEF RegistrationInv

(* Every step of the agents, the network and the controller keeps the       *)
(* invariant.                                                               *)
LEMMA RegistrationStep ==
    ASSUME RegistrationInv, [RegistrationNext]_vars
    PROVE  RegistrationInv'
  <1>1. CASE UNCHANGED vars
    <2>1. UNCHANGED <<written, drawn, idempotency, refused, calls, answer>>
      BY <1>1 DEF vars
    <2>2. AgentsTyped' /\ AgentsOK'
      BY <1>1 DEF vars, RegistrationInv, AgentsTyped, AgentsOK
    <2>. QED
      BY <2>1, <2>2, NetworkSame, QuietAgents
  <1>2. CASE RegistrationNext
    <2>1. ASSUME NEW d \in Devices, AgentStep(d) \/ Crash(d) \/ PowerFailure(d) \/ Move(d)
          PROVE  RegistrationInv'
      BY <2>1, BeginKeeps, FetchKeeps, RetryKeeps, SendKeeps, AttemptEnds, MoveKeeps DEF AgentStep
    <2>2. ASSUME NEW c \in calls, Deliver(c) \/ PutEndpoints(c) \/ PutEndpointsFails(c)
          PROVE  RegistrationInv'
      BY <2>2, DeliverKeeps, PutEndpointsKeeps, PutEndpointsFailsKeeps
    <2>. QED
      BY <1>2, <2>1, <2>2, BackgroundKeeps DEF RegistrationNext
  <1>. QED
    BY <1>1, <1>2

(* The invariant of the agents holds for every network and every crash. *)
THEOREM RegistrationCorrect == RegistrationSpec => []RegistrationInv
  <1>1. RegistrationInit => RegistrationInv
    BY RegistrationInitInv
  <1>2. RegistrationInv /\ [RegistrationNext]_vars => RegistrationInv'
    BY RegistrationStep
  <1>. QED
    BY <1>1, <1>2, PTL DEF RegistrationSpec

(* Agents, network and controller use the store as module DesiredState says *)
(* it is used: whatever is proved of the store holds under lost, delayed    *)
(* and repeated requests (putEndpoints, getStatus).                         *)
THEOREM RegistrationImplementsStore == RegistrationSpec => Spec
  <1>1. RegistrationInit => Init
    BY DEF RegistrationInit
  <1>2. RegistrationInv /\ [RegistrationNext]_vars => [Next]_storeVars
    BY RegistrationStepIsStoreStep
  <1>. QED
    BY <1>1, <1>2, RegistrationCorrect, PTL DEF RegistrationSpec, Spec

(* Agents, network and store always have their types, and the pending file  *)
(* is always one that was written.                                          *)
THEOREM RegistrationTyped == RegistrationSpec => []RegistrationTypeOK
  <1>1. ASSUME RegistrationInv
        PROVE  RegistrationTypeOK
    <2>1. TypeOK
      BY <1>1 DEF RegistrationInv, StoreInv, TableInv, TypeOK
    <2>2. \A d \in Devices : pending[d] \subseteq written[d] /\ written[d] \subseteq Pending
      BY <1>1 DEF RegistrationInv, AgentsTyped, AgentsOK
    <2>3. \A d \in Devices : answer[d] \subseteq Answer
      BY <1>1 DEF RegistrationInv, NetworkTyped
    <2>. QED
      BY <1>1, <2>1, <2>2, <2>3 DEF RegistrationInv, AgentsTyped, NetworkTyped, RegistrationTypeOK
  <1>. QED
    BY <1>1, RegistrationCorrect, PTL

(* No agent is ever answered 409: no key of an agent, whatever it forgot in *)
(* a crash, is met with another request of its own (updateOnce).            *)
THEOREM RegistrationNeverConflicts == RegistrationSpec => []NeverConflicts
  <1>1. RegistrationInv => NeverConflicts
    BY DEF RegistrationInv
  <1>. QED
    BY <1>1, RegistrationCorrect, PTL

(* A request that was answered 412 is never accepted, whichever copy of it  *)
(* comes when (upsertIntent and the agent's removal of the pending file).   *)
THEOREM RegistrationRefusalFinal == RegistrationSpec => []RefusalFinal
  <1>1. RegistrationInv => RefusalFinal
    BY DEF RegistrationInv
  <1>. QED
    BY <1>1, RegistrationCorrect, PTL
============================================================================

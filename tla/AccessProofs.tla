---------------------------- MODULE AccessProofs ----------------------------
(***************************************************************************)
(* Proofs about the authorization of requests (module Access), for every   *)
(* fleet, every set of certificates and authorities, any number of         *)
(* connections and any difference between the two clocks.                  *)
(*                                                                         *)
(* The requests only ever do to the store what module DesiredState allows, *)
(* so what is proved of the store holds here; the rest is about what is    *)
(* known of a request at each stage of its way (RequestOK).                *)
(***************************************************************************)
EXTENDS Access, DesiredStateProofs, FiniteSetTheorems

(* Type correctness of all but the store. *)
PeersTyped ==
    /\ mode \in {"file", "spiffe"}
    /\ fleet \in [Workloads -> Devices \cup {NoDevice}]
    /\ bundle \subseteq Authorities
    /\ connection \in [Connections -> Connection]
    /\ since \in [Connections -> History]
    /\ decisions \subseteq Decision
    /\ queries \in 0 .. MaxQueries

(* The registry let c's workload update device d at some time that is no    *)
(* earlier than `checked' by the registry's clock.                          *)
GrantedAt(c, d, checked) ==
    /\ LastGranted(c, d) # Never
    /\ \E s \in Skews : checked - s <= LastGranted(c, d)

(* The same, as what is left of it once the decision has been consumed.     *)
GrantedWithin(c, d, checked) ==
    /\ LastGranted(c, d) # Never
    /\ \E s \in Skews : checked - LastGranted(c, d) < DecisionLifetime + s

(* A request whose workload has been found credible. *)
Questioned(c) ==
    /\ mode = "spiffe"
    /\ connection[c].phase \in {"asked", "authorized"}

(* What is known of the request of a connection. *)
RequestOK(c) ==
    /\ connection[c].arrived <= now
    /\ \A d \in Devices : since[c].granted[d] <= now
    /\ c \in InFlight /\ connection[c].authority \in bundle => since[c].trusted
    /\ connection[c].phase = "asked" => /\ mode = "spiffe"
                                        /\ connection[c].nonce \in 1 .. queries
    /\ Questioned(c) => /\ Updater(connection[c].uris)
                        /\ since[c].trusted
                        /\ connection[c].notAfter > connection[c].arrived
    /\ connection[c].phase = "asked" =>
          \A x \in decisions : x.nonce = connection[c].nonce => GrantedAt(c, x.device, x.checked)
    /\ connection[c].phase = "authorized" =>
          /\ connection[c].device \in Devices
          /\ connection[c].hostname = DeviceName[connection[c].device]
    /\ connection[c].phase = "authorized" /\ mode = "file" =>
          \A i \in DOMAIN connection[c].uris :
             connection[c].uris[i].kind = "device" =>
                connection[c].uris[i].name = connection[c].device
    /\ connection[c].phase = "authorized" /\ mode = "spiffe" =>
          GrantedWithin(c, connection[c].device, connection[c].checked)

(* No two questions have one nonce, and no decision has a nonce that is     *)
(* still to be used.                                                        *)
NoncesFresh ==
    /\ \A b, c \in Connections :
          /\ connection[b].phase = "asked"
          /\ connection[c].phase = "asked"
          /\ connection[b].nonce = connection[c].nonce
          => b = c
    /\ \A x \in decisions : x.nonce <= queries

(* The inductive invariant. *)
AccessInv ==
    /\ StoreInv
    /\ NamesInv
    /\ PeersTyped
    /\ \A c \in Connections : RequestOK(c)
    /\ NoncesFresh
    /\ RowsNamed

----------------------------------------------------------------------------
(* What the headers and the body are let through as. *)

(* A precondition that is let through is one the store knows. *)
LEMMA ParsedPrecondition ==
    ASSUME NEW ifMatch \in Headers, NEW ifNoneMatch \in Headers,
           NEW p \in ParseWritePrecondition(ifMatch, ifNoneMatch)
    PROVE  p \in Preconditions
  <1>1. CASE p = RequireAbsent
    BY <1>1 DEF Preconditions
  <1>2. CASE Len(ifMatch) = 1 /\ ifMatch[1] > 0 /\ p = MatchGeneration(ifMatch[1])
    <2>1. ifMatch[1] \in 1 .. MaxGeneration
      BY <1>2, IntentsAssumption DEF Headers, Malformed
    <2>. QED
      BY <1>2, <2>1 DEF Preconditions
  <1>. QED
    BY <1>1, <1>2 DEF ParseWritePrecondition

(* A list that is let through is an address set a device can ask for. *)
LEMMA ValidatedAddresses ==
    ASSUME NEW input \in AddressLists, NEW A \in ValidateAddresses(input)
    PROVE  A \in Payloads
  <1>1. PICK n \in 0 .. MaxAddresses + 1 : input \in [1 .. n -> (UNION Payloads) \cup {Unusable}]
    BY DEF AddressLists
  <1>2. n \in Nat
    BY <1>1, AccessAssumption
  <1>3. /\ Len(input) \in 1 .. MaxAddresses
        /\ \A i \in DOMAIN input : input[i] # Unusable
        /\ A = {input[i] : i \in DOMAIN input}
    BY DEF ValidateAddresses
  <1>4. DOMAIN input = 1 .. n /\ Len(input) = n
    BY <1>1, <1>2
  <1>5. A \subseteq UNION Payloads
    BY <1>1, <1>3, <1>4
  <1>6. A # {}
    BY <1>3, <1>4
  <1>7. IsFiniteSet(A) /\ Cardinality(A) <= n
    <2>1. IsFiniteSet(1 .. n) /\ Cardinality(1 .. n) = n
      BY <1>2, FS_Interval
    <2>2. input \in Surjection(1 .. n, A)
      BY <1>1, <1>3, <1>4 DEF Surjection
    <2>. QED
      BY <2>1, <2>2, FS_Surjection
  <1>8. Cardinality(A) <= MaxAddresses
    BY <1>2, <1>3, <1>4, <1>7, FS_CardinalityType, AccessAssumption
  <1>. QED
    BY <1>5, <1>6, <1>7, <1>8, AccessAssumption

----------------------------------------------------------------------------
(* What an authorized request brings to the store. *)
LEMMA AuthorizedRequest ==
    ASSUME AccessInv, NEW c \in Connections, connection[c].phase = "authorized"
    PROVE  /\ connection[c].device \in Devices
           /\ connection[c].hostname \in Hostnames
           /\ connection[c].hostname = DeviceName[connection[c].device]
           /\ connection[c].checked .. now \subseteq Times
  <1>1. /\ connection[c].device \in Devices
        /\ connection[c].hostname = DeviceName[connection[c].device]
    BY DEF AccessInv, RequestOK
  <1>2. connection[c].checked \in Nat /\ now \in Nat
    BY IntentsAssumption DEF AccessInv, PeersTyped, Connection, NamesInv, TableInv, IntentsTypeOK
  <1>. QED
    BY <1>1, <1>2, AccessAssumption DEF Times

(* A request that is let through is a request of the store. *)
LEMMA PutIsUpsert ==
    ASSUME AccessInv, NEW c \in Connections, NEW input \in AddressLists, NEW k \in Keys,
           NEW m \in RenewAfterMillis, PutEndpoints(c, input, k, m)
    PROVE  \E A \in Payloads, p \in Preconditions, t \in Times :
              UpsertIntent(connection[c].device, connection[c].hostname, A, k, p, t, m)
  <1>1. connection[c].phase = "authorized"
    BY DEF PutEndpoints
  <1>2. PICK A \in ValidateAddresses(input), ifMatch \in Headers, ifNoneMatch \in Headers,
             t \in connection[c].checked .. now :
          \E p \in ParseWritePrecondition(ifMatch, ifNoneMatch) :
            UpsertIntent(connection[c].device, connection[c].hostname, A, k, p, t, m)
    BY DEF PutEndpoints
  <1>3. PICK p \in ParseWritePrecondition(ifMatch, ifNoneMatch) :
            UpsertIntent(connection[c].device, connection[c].hostname, A, k, p, t, m)
    BY <1>2
  <1>4. A \in Payloads /\ p \in Preconditions /\ t \in Times
    BY <1>1, ValidatedAddresses, ParsedPrecondition, AuthorizedRequest
  <1>. QED
    BY <1>3, <1>4

(* An action that is neither a handler of an authorized request nor the     *)
(* clock leaves the store alone.                                            *)
PeerNext ==
    \/ \E c \in Connections :
         \/ \E uris \in Certificates, a \in Authorities, notAfter \in Expiries :
              Connect(c, uris, a, notAfter)
         \/ Disconnect(c)
         \/ Arrive(c)
         \/ Resolve(c)
         \/ ResolveRequest(c)
         \/ \E x \in decisions : Receive(c, x)
         \/ NoDecision(c)
         \/ \E skew \in Skews, h \in Hostnames : Decide(c, skew, h, DecisionLifetime)
         \/ RefusePut(c)
    \/ \E w \in Workloads, d \in Devices \cup {NoDevice} : Reassign(w, d)
    \/ \E B \in (SUBSET Authorities) \ {{}} : Rotate(B)
    \/ UNCHANGED accessVars

(* ... which is what each of them says. *)
LEMMA PeersLeaveStore ==
    ASSUME PeerNext
    PROVE  UNCHANGED storeVars
  BY DEF PeerNext, Connect, Disconnect, Arrive, Resolve, Identified, ResolveRequest, Receive,
         NoDecision, Decide, RefusePut, Refuse, Reassign, Rotate, accessVars, storeVars

(* Every step is a step of the store, or none of it. *)
LEMMA AccessStepIsStoreStep ==
    ASSUME AccessInv, [AccessNext]_accessVars
    PROVE  [Next]_storeVars
  <1>1. ASSUME NEW c \in Connections, NEW input \in AddressLists, NEW k \in Keys,
               NEW m \in RenewAfterMillis, PutEndpoints(c, input, k, m)
        PROVE  [Next]_storeVars
    <2>1. connection[c].device \in Devices /\ connection[c].hostname \in Hostnames
      BY <1>1, AuthorizedRequest DEF PutEndpoints
    <2>. QED
      BY <1>1, <2>1, PutIsUpsert DEF Next
  <1>2. ASSUME NEW c \in Connections, GetStatus(c)
        PROVE  [Next]_storeVars
    <2>1. now \in Times
      BY IntentsAssumption DEF AccessInv, NamesInv, TableInv, IntentsTypeOK, Times
    <2>. QED
      BY <1>2, <2>1 DEF GetStatus, Next, storeVars
  <1>3. CASE Clock
    BY <1>3 DEF Clock, Next
  <1>4. CASE PeerNext
    BY <1>4, PeersLeaveStore
  <1>. QED
    BY <1>1, <1>2, <1>3, <1>4 DEF AccessNext, PeerNext

----------------------------------------------------------------------------
(* The time of a grant is a time, or there was none. *)
LEMMA LastGrantedType ==
    ASSUME AccessInv, NEW c \in Connections, NEW d \in Devices
    PROVE  LastGranted(c, d) \in Nat \cup {Never}
  <1>1. since[c].granted[d] \in Nat \cup {Never}
    BY DEF AccessInv, PeersTyped, History
  <1>2. now \in Nat
    BY IntentsAssumption DEF AccessInv, NamesInv, TableInv, IntentsTypeOK
  <1>. QED
    BY <1>1, <1>2 DEF LastGranted

(* A request that is not touched keeps what is known of it while time       *)
(* passes, authorities come, grants come and go, and others are decided on. *)
LEMMA RequestKept ==
    ASSUME AccessInv, PeersTyped', NEW b \in Connections,
           connection'[b] = connection[b], UNCHANGED mode,
           now' \in Nat, now' >= now, queries' >= queries,
           since[b].trusted => since'[b].trusted,
           b \in InFlight /\ connection[b].authority \in bundle' => since'[b].trusted,
           \A d \in Devices : since'[b].granted[d] <= now',
           Questioned(b) => \A d \in Devices : /\ LastGranted(b, d)' \in Nat \cup {Never}
                                              /\ LastGranted(b, d)' >= LastGranted(b, d),
           connection[b].phase = "asked" =>
             \A x \in decisions' \ decisions :
               x.nonce = connection[b].nonce => GrantedAt(b, x.device, x.checked)'
    PROVE  RequestOK(b)'
  <1>1. RequestOK(b)
    BY DEF AccessInv
  <1>2. /\ now \in Nat /\ queries \in Nat /\ queries' \in Nat
        /\ connection[b] \in Connection
        /\ decisions \subseteq Decision
    BY IntentsAssumption, AccessAssumption
       DEF AccessInv, PeersTyped, NamesInv, TableInv, IntentsTypeOK
  <1>3. connection[b].arrived \in Nat /\ connection[b].nonce \in Nat /\ connection[b].checked \in Nat
    BY <1>2 DEF Connection
  <1>4. Questioned(b)' <=> Questioned(b)
    BY DEF Questioned
  <1>5. ASSUME NEW d \in Devices, Questioned(b)
        PROVE  /\ LastGranted(b, d) \in Nat \cup {Never}
               /\ LastGranted(b, d)' \in Nat \cup {Never}
               /\ LastGranted(b, d)' >= LastGranted(b, d)
    BY <1>5, LastGrantedType
  <1>6. ASSUME NEW d \in Devices, NEW t \in Int, Questioned(b), GrantedAt(b, d, t)
        PROVE  GrantedAt(b, d, t)'
    BY <1>5, <1>6, AccessAssumption DEF GrantedAt, Never
  <1>7. ASSUME connection[b].phase = "asked", NEW x \in decisions', x.nonce = connection[b].nonce
        PROVE  GrantedAt(b, x.device, x.checked)'
    <2>1. CASE x \in decisions
      <3>1. x.device \in Devices /\ x.checked \in Int
        BY <1>2, <2>1 DEF Decision
      <3>2. Questioned(b) /\ GrantedAt(b, x.device, x.checked)
        BY <1>1, <1>7, <2>1 DEF RequestOK, Questioned
      <3>. QED
        BY <1>6, <3>1, <3>2
    <2>2. CASE x \notin decisions
      BY <1>7, <2>2
    <2>. QED
      BY <2>1, <2>2
  <1>8. ASSUME connection[b].phase = "authorized", mode = "spiffe"
        PROVE  GrantedWithin(b, connection[b].device, connection[b].checked)'
    <2>1. /\ Questioned(b)
          /\ connection[b].device \in Devices
          /\ GrantedWithin(b, connection[b].device, connection[b].checked)
      BY <1>1, <1>8 DEF RequestOK, Questioned
    <2>. QED
      BY <1>3, <1>5, <2>1, AccessAssumption DEF GrantedWithin, Never
  <1>9. (b \in InFlight)' <=> b \in InFlight
    BY DEF InFlight
  <1>. QED
    BY <1>1, <1>2, <1>3, <1>4, <1>7, <1>8, <1>9 DEF RequestOK

(* A step that concerns one connection. *)
LEMMA OneConnectionStep ==
    ASSUME AccessInv, StoreInv', NamesInv', RowsNamed',
           NEW c \in Connections, NEW r \in Connection, NEW s \in History,
           connection' = [connection EXCEPT ![c] = r],
           since' = [since EXCEPT ![c] = s],
           UNCHANGED <<mode, fleet, bundle, decisions, now>>,
           queries' \in 0 .. MaxQueries, queries' >= queries,
           r.phase = "asked" => r.nonce > queries,
           RequestOK(c)'
    PROVE  AccessInv'
  <1>1. PeersTyped'
    BY DEF AccessInv, PeersTyped
  <1>2. connection'[c] = r /\ \A b \in Connections \ {c} : connection'[b] = connection[b]
    BY DEF AccessInv, PeersTyped
  <1>3. \A b \in Connections \ {c} : since'[b] = since[b]
    BY DEF AccessInv, PeersTyped
  <1>4. now \in Nat /\ queries \in Nat
    BY IntentsAssumption, AccessAssumption
       DEF AccessInv, PeersTyped, NamesInv, TableInv, IntentsTypeOK
  <1>5. ASSUME NEW b \in Connections, b # c
        PROVE  RequestOK(b)'
    <2>1. /\ b \in InFlight /\ connection[b].authority \in bundle => since[b].trusted
          /\ \A d \in Devices : since[b].granted[d] <= now
      BY DEF AccessInv, RequestOK
    <2>2. \A d \in Devices : LastGranted(b, d)' = LastGranted(b, d)
      BY <1>2, <1>3, <1>5 DEF LastGranted, Workload
    <2>3. \A d \in Devices : /\ LastGranted(b, d)' \in Nat \cup {Never}
                             /\ LastGranted(b, d)' >= LastGranted(b, d)
      BY <2>2, LastGrantedType DEF Never
    <2>. QED
      BY <1>1, <1>2, <1>3, <1>4, <1>5, <2>1, <2>3, RequestKept
  <1>6. NoncesFresh'
    <2>1. \A b \in Connections : connection[b].phase = "asked" => connection[b].nonce <= queries
      BY <1>4 DEF AccessInv, RequestOK
    <2>2. \A b \in Connections : connection[b].nonce \in Nat
      BY DEF AccessInv, PeersTyped, Connection
    <2>3. r.nonce \in Nat
      BY DEF Connection
    <2>4. \A x \in decisions : x.nonce \in Nat
      BY DEF AccessInv, PeersTyped, Decision
    <2>5. ASSUME NEW a \in Connections, NEW b \in Connections,
                 connection'[a].phase = "asked", connection'[b].phase = "asked",
                 connection'[a].nonce = connection'[b].nonce
          PROVE  a = b
      BY <1>2, <1>4, <2>1, <2>2, <2>3, <2>5 DEF AccessInv, NoncesFresh
    <2>6. \A x \in decisions' : x.nonce <= queries'
      BY <1>4, <2>4 DEF AccessInv, NoncesFresh
    <2>. QED
      BY <2>5, <2>6 DEF NoncesFresh
  <1>. QED
    BY <1>1, <1>5, <1>6 DEF AccessInv

(* A request that has been answered. *)
LEMMA FinishKeeps ==
    ASSUME AccessInv, StoreInv', NamesInv', RowsNamed', NEW c \in Connections, Finish(c),
           UNCHANGED <<mode, fleet, bundle, decisions, queries, now>>
    PROVE  AccessInv'
  <1>. DEFINE r == Idle(connection[c])
  <1>1. /\ connection[c] \in Connection
        /\ now \in Nat /\ queries \in 0 .. MaxQueries
        /\ connection \in [Connections -> Connection]
    BY IntentsAssumption DEF AccessInv, PeersTyped, NamesInv, TableInv, IntentsTypeOK
  <1>2. r \in Connection /\ r.phase = "idle" /\ r.arrived = 0
    BY <1>1 DEF Idle, Connection
  <1>3. NoHistory \in History
    BY DEF NoHistory, History
  <1>4. connection' = [connection EXCEPT ![c] = r] /\ since' = [since EXCEPT ![c] = NoHistory]
    BY DEF Finish
  <1>5. connection'[c] = r /\ since'[c] = NoHistory
    BY <1>1, <1>4 DEF AccessInv, PeersTyped
  <1>. HIDE DEF r
  <1>6. RequestOK(c)'
    <2>1. \A d \in Devices : NoHistory.granted[d] <= now
      BY <1>1 DEF NoHistory, Never
    <2>. QED
      BY <1>1, <1>2, <1>5, <2>1 DEF RequestOK, InFlight, Questioned
  <1>7. /\ queries' \in 0 .. MaxQueries /\ queries' >= queries
        /\ UNCHANGED <<mode, fleet, bundle, decisions, now>>
        /\ r.phase = "asked" => r.nonce > queries
    BY <1>1, <1>2, AccessAssumption
  <1>. QED
    BY <1>2, <1>3, <1>4, <1>6, <1>7, OneConnectionStep

(* What the invariant says of the constants and the peers, in one place. *)
LEMMA Peers ==
    ASSUME AccessInv
    PROVE  /\ now \in Nat /\ queries \in Nat /\ queries \in 0 .. MaxQueries
           /\ connection \in [Connections -> Connection]
           /\ since \in [Connections -> History]
           /\ fleet \in [Workloads -> Devices \cup {NoDevice}]
           /\ decisions \subseteq Decision
           /\ bundle \subseteq Authorities
           /\ mode \in {"file", "spiffe"}
  BY IntentsAssumption, AccessAssumption
     DEF AccessInv, PeersTyped, NamesInv, TableInv, IntentsTypeOK

(* Nothing of the store is disturbed when it is left alone. *)
LEMMA StoreAlone ==
    ASSUME AccessInv, UNCHANGED storeVars
    PROVE  StoreInv' /\ NamesInv' /\ RowsNamed' /\ now' = now
  <1>1. [Next]_storeVars /\ [IntentsNext]_intentsVars
    BY DEF storeVars, intentsVars
  <1>2. StoreInv' /\ NamesInv'
    BY <1>1, StoreStep, NamesStep DEF AccessInv
  <1>3. RowsNamed' /\ now' = now
    BY DEF AccessInv, RowsNamed, Found, storeVars
  <1>. QED
    BY <1>2, <1>3

(* A request that is refused is answered and forgotten. *)
LEMMA RefuseKeeps ==
    ASSUME AccessInv, NEW c \in Connections, Refuse(c)
    PROVE  AccessInv'
  <1>1. /\ Finish(c) /\ UNCHANGED storeVars
        /\ UNCHANGED <<mode, fleet, bundle, decisions, queries>>
    BY DEF Refuse, externalVars
  <1>. QED
    BY <1>1, StoreAlone, FinishKeeps

(* A connection that is opened carries no request yet. *)
LEMMA ConnectKeeps ==
    ASSUME AccessInv, NEW c \in Connections, NEW uris \in Certificates,
           NEW a \in Authorities, NEW notAfter \in Expiries, Connect(c, uris, a, notAfter)
    PROVE  AccessInv'
  <1>. DEFINE r == [Closed EXCEPT !.phase = "idle", !.uris = uris, !.authority = a,
                                  !.notAfter = notAfter]
  <1>1. Closed \in Connection /\ notAfter \in Nat
    BY AccessAssumption DEF Closed, Connection
  <1>2. r \in Connection /\ r.phase = "idle" /\ r.arrived = 0
    BY <1>1 DEF Closed, Connection
  <1>3. /\ connection' = [connection EXCEPT ![c] = r] /\ UNCHANGED since
        /\ UNCHANGED storeVars
        /\ UNCHANGED <<mode, fleet, bundle, decisions, queries>>
    BY DEF Connect, externalVars
  <1>4. connection'[c] = r /\ since' = [since EXCEPT ![c] = since[c]] /\ since[c] \in History
    BY <1>3, Peers
  <1>. HIDE DEF r
  <1>5. now' = now /\ now \in Nat
    BY <1>3, StoreAlone, Peers
  <1>6. RequestOK(c)'
    BY <1>2, <1>3, <1>4, <1>5 DEF AccessInv, RequestOK, InFlight, Questioned
  <1>7. queries' \in 0 .. MaxQueries /\ queries' >= queries
    BY <1>3, Peers
  <1>. QED
    BY <1>2, <1>3, <1>4, <1>5, <1>6, <1>7, StoreAlone, OneConnectionStep

(* ... and neither does one that is closed. *)
LEMMA DisconnectKeeps ==
    ASSUME AccessInv, NEW c \in Connections, Disconnect(c)
    PROVE  AccessInv'
  <1>1. Closed \in Connection /\ Closed.phase = "closed" /\ Closed.arrived = 0
    BY DEF Closed, Connection
  <1>2. /\ connection' = [connection EXCEPT ![c] = Closed] /\ UNCHANGED since
        /\ UNCHANGED storeVars
        /\ UNCHANGED <<mode, fleet, bundle, decisions, queries>>
    BY DEF Disconnect, externalVars
  <1>3. connection'[c] = Closed /\ since' = [since EXCEPT ![c] = since[c]] /\ since[c] \in History
    BY <1>2, Peers
  <1>4. now' = now /\ now \in Nat
    BY <1>2, StoreAlone, Peers
  <1>5. RequestOK(c)'
    BY <1>1, <1>2, <1>3, <1>4 DEF AccessInv, RequestOK, InFlight, Questioned
  <1>6. queries' \in 0 .. MaxQueries /\ queries' >= queries
    BY <1>2, Peers
  <1>. QED
    BY <1>1, <1>2, <1>3, <1>4, <1>5, <1>6, StoreAlone, OneConnectionStep

(* What is observed of a connection is a history. *)
LEMMA ObservedType ==
    ASSUME AccessInv, NEW c \in Connections, NEW old \in History,
           NEW f, NEW B
    PROVE  Observed(c, old, f, B) \in History
  <1>1. now \in Nat
    BY Peers
  <1>. QED
    BY <1>1 DEF Observed, History

(* A request that arrives has seen the present bundle and grants. *)
LEMMA ArriveKeeps ==
    ASSUME AccessInv, NEW c \in Connections, Arrive(c)
    PROVE  AccessInv'
  <1>. DEFINE r == [connection[c] EXCEPT !.phase = "received", !.arrived = now]
              h == Observed(c, NoHistory, fleet, bundle)
  <1>1. connection[c] \in Connection /\ now \in Nat
    BY Peers
  <1>2. /\ r \in Connection /\ r.phase = "received" /\ r.arrived = now
        /\ r.authority = connection[c].authority
    BY <1>1 DEF Connection
  <1>3. h \in History
    <2>1. NoHistory \in History
      BY DEF NoHistory, History
    <2>. QED
      BY <2>1, ObservedType
  <1>4. h.trusted <=> connection[c].authority \in bundle
    BY DEF Observed, NoHistory
  <1>5. ASSUME NEW d \in Devices
        PROVE  h.granted[d] <= now
    <2>1. h.granted[d] = now \/ h.granted[d] = Never
      BY DEF Observed, NoHistory
    <2>. QED
      BY <1>1, <2>1 DEF Never
  <1>6. /\ connection' = [connection EXCEPT ![c] = r] /\ since' = [since EXCEPT ![c] = h]
        /\ UNCHANGED storeVars
        /\ UNCHANGED <<mode, fleet, bundle, decisions, queries>>
    BY Peers DEF Arrive, externalVars
  <1>7. connection'[c] = r /\ since'[c] = h
    BY <1>6, Peers
  <1>. HIDE DEF r, h
  <1>8. now' = now /\ queries' \in 0 .. MaxQueries /\ queries' >= queries
    BY <1>6, StoreAlone, Peers
  <1>9. RequestOK(c)'
    BY <1>1, <1>2, <1>4, <1>6, <1>7, <1>8, <1>5 DEF RequestOK, InFlight, Questioned
  <1>. QED
    BY <1>2, <1>3, <1>6, <1>8, <1>9, StoreAlone, OneConnectionStep

(* A request is authorized for device d, on grounds the policy accepts. *)
LEMMA AuthorizedKeeps ==
    ASSUME AccessInv, NEW c \in Connections, NEW d \in Devices,
           connection[c].phase \in {"received", "asked"},
           Authorized(c, d, DeviceName[d]),
           UNCHANGED <<storeVars, mode, externalVars, decisions, queries>>,
           mode = "file" => \A i \in DOMAIN connection[c].uris :
                               connection[c].uris[i].kind = "device" =>
                                  connection[c].uris[i].name = d,
           mode = "spiffe" => connection[c].phase = "asked" /\ GrantedWithin(c, d, now)
    PROVE  AccessInv'
  <1>. DEFINE r == [connection[c] EXCEPT !.phase = "authorized", !.nonce = 0, !.device = d,
                                         !.hostname = DeviceName[d], !.checked = now]
  <1>1. /\ connection[c] \in Connection /\ now \in Nat /\ since[c] \in History
        /\ DeviceName[d] \in Hostnames
    BY Peers, AccessAssumption
  <1>2. /\ r \in Connection /\ r.phase = "authorized" /\ r.device = d
        /\ r.hostname = DeviceName[d] /\ r.checked = now
        /\ r.uris = connection[c].uris /\ r.authority = connection[c].authority
        /\ r.notAfter = connection[c].notAfter /\ r.arrived = connection[c].arrived
    BY <1>1 DEF Connection
  <1>3. /\ connection' = [connection EXCEPT ![c] = r] /\ UNCHANGED since
        /\ UNCHANGED storeVars
        /\ UNCHANGED <<mode, fleet, bundle, decisions, queries>>
    BY Peers DEF Authorized, externalVars
  <1>4. connection'[c] = r /\ since' = [since EXCEPT ![c] = since[c]]
    BY <1>3, Peers
  <1>. HIDE DEF r
  <1>5. now' = now /\ queries' \in 0 .. MaxQueries /\ queries' >= queries
    BY <1>3, StoreAlone, Peers
  <1>6. RequestOK(c)
    BY DEF AccessInv
  <1>7. LastGranted(c, d)' = LastGranted(c, d)
    BY <1>2, <1>3, <1>4, <1>5 DEF LastGranted, Workload
  <1>8. ASSUME mode = "spiffe"
        PROVE  GrantedWithin(c, connection[c].device, connection[c].checked)'
    BY <1>2, <1>4, <1>7, <1>8 DEF GrantedWithin
  <1>9. RequestOK(c)'
    BY <1>2, <1>3, <1>4, <1>5, <1>6, <1>8 DEF RequestOK, InFlight, Questioned
  <1>. QED
    BY <1>1, <1>2, <1>3, <1>4, <1>5, <1>9, StoreAlone, OneConnectionStep

(* File mode: the one device URI there is names the device. *)
LEMMA ResolveKeeps ==
    ASSUME AccessInv, NEW c \in Connections, Resolve(c)
    PROVE  AccessInv'
  <1>. DEFINE uris == connection[c].uris
  <1>1. CASE Refuse(c)
    BY <1>1, RefuseKeeps
  <1>2. ASSUME NEW i \in DeviceURIs(uris), DeviceURIs(uris) = {i}, Identified(c, i)
        PROVE  AccessInv'
    <2>1. i \in DOMAIN uris
      BY DEF DeviceURIs
    <2>2. uris \in Certificates
      <3>1. uris \in Certificates \cup {<<>>}
        BY Peers DEF Connection
      <3>. QED
        BY <2>1, <3>1
    <2>3. uris[i].name \in Devices
      BY <1>2, <2>1, <2>2, AccessAssumption
    <2>4. \A j \in DOMAIN uris : uris[j].kind = "device" => uris[j].name = uris[i].name
      BY <1>2 DEF DeviceURIs
    <2>. QED
      BY <1>2, <2>3, <2>4, AuthorizedKeeps DEF Resolve, Identified
  <1>. QED
    BY <1>1, <1>2 DEF Resolve

(* spiffe mode: a credible updater is asked about, under a nonce that no     *)
(* decision has yet.                                                        *)
LEMMA ResolveRequestKeeps ==
    ASSUME AccessInv, NEW c \in Connections, ResolveRequest(c)
    PROVE  AccessInv'
  <1>1. CASE Refuse(c)
    BY <1>1, RefuseKeeps
  <1>2. CASE ~Refuse(c)
    <2>. DEFINE r == [connection[c] EXCEPT !.phase = "asked", !.nonce = queries + 1]
    <2>1. /\ connection[c] \in Connection /\ now \in Nat /\ since[c] \in History
          /\ queries \in Nat /\ queries + 1 \in Nat
      BY Peers
    <2>2. /\ r \in Connection /\ r.phase = "asked" /\ r.nonce = queries + 1
          /\ r.uris = connection[c].uris /\ r.authority = connection[c].authority
          /\ r.notAfter = connection[c].notAfter /\ r.arrived = connection[c].arrived
      BY <2>1 DEF Connection
    <2>3. /\ connection[c].phase = "received" /\ mode = "spiffe"
          /\ Credible(c) /\ Updater(connection[c].uris)
          /\ connection' = [connection EXCEPT ![c] = r] /\ UNCHANGED since
          /\ UNCHANGED storeVars
          /\ UNCHANGED <<mode, fleet, bundle, decisions>>
          /\ queries' = queries + 1 /\ queries < MaxQueries
      BY <1>2, Peers DEF ResolveRequest, externalVars, Credible, Updater
    <2>4. connection'[c] = r /\ since' = [since EXCEPT ![c] = since[c]] /\ since'[c] = since[c]
      BY <2>3, Peers
    <2>. HIDE DEF r
    <2>5. now' = now /\ queries' \in 0 .. MaxQueries /\ queries' >= queries
      BY <2>1, <2>3, StoreAlone, AccessAssumption
    <2>6. /\ connection[c].arrived <= now /\ now < connection[c].notAfter
          /\ \A d \in Devices : since[c].granted[d] <= now
          /\ connection[c].authority \in bundle /\ since[c].trusted
      BY <2>3 DEF AccessInv, RequestOK, InFlight, Credible
    <2>7. \A x \in decisions' : x.nonce # r.nonce
      <3>1. \A x \in decisions : x.nonce \in Nat /\ x.nonce <= queries
        BY Peers DEF AccessInv, NoncesFresh, Decision
      <3>. QED
        BY <2>1, <2>2, <2>3, <3>1
    <2>8. r.arrived \in Nat /\ r.notAfter \in Nat
      BY <2>2 DEF Connection
    <2>9. RequestOK(c)'
      BY <2>1, <2>2, <2>3, <2>4, <2>5, <2>6, <2>7, <2>8 DEF RequestOK, InFlight, Questioned
    <2>10. r.nonce > queries
      BY <2>1, <2>2
    <2>. QED
      BY <2>1, <2>2, <2>3, <2>4, <2>5, <2>9, <2>10, StoreAlone, OneConnectionStep
  <1>. QED
    BY <1>1, <1>2

(* A decision that fits answers this question, so that the grant it speaks  *)
(* of is one the request has seen.                                          *)
LEMMA ReceiveKeeps ==
    ASSUME AccessInv, NEW c \in Connections, NEW x \in decisions, Receive(c, x)
    PROVE  AccessInv'
  <1>1. CASE Refuse(c)
    BY <1>1, RefuseKeeps
  <1>2. CASE ~Refuse(c)
    <2>1. /\ connection[c].phase = "asked" /\ Fits(c, x)
          /\ Authorized(c, x.device, DeviceName[x.device])
          /\ UNCHANGED <<storeVars, mode, externalVars, decisions, queries>>
      BY <1>2 DEF Receive, Fits
    <2>2. x.device \in Devices /\ x.checked \in Int /\ x.expires \in Int /\ now \in Nat
      BY Peers DEF Decision
    <2>3. mode = "spiffe" /\ GrantedAt(c, x.device, x.checked)
      BY <2>1 DEF AccessInv, RequestOK, Fits
    <2>4. GrantedWithin(c, x.device, now)
      <3>1. LastGranted(c, x.device) \in Nat \cup {Never}
        BY <2>2, LastGrantedType
      <3>2. now < x.expires /\ x.expires - x.checked = DecisionLifetime
        BY <2>1 DEF Fits
      <3>3. PICK s \in Skews : x.checked - s <= LastGranted(c, x.device)
        BY <2>3 DEF GrantedAt
      <3>4. s \in Int /\ DecisionLifetime \in Int
        BY AccessAssumption
      <3>5. LastGranted(c, x.device) # Never
        BY <2>3 DEF GrantedAt
      <3>6. now - LastGranted(c, x.device) < DecisionLifetime + s
        BY <2>2, <3>1, <3>2, <3>3, <3>4, <3>5
      <3>. QED
        BY <3>5, <3>6 DEF GrantedWithin
    <2>. QED
      BY <2>1, <2>2, <2>3, <2>4, AuthorizedKeeps
  <1>. QED
    BY <1>1, <1>2

(* The registry decides by what it grants now, and now is later than the    *)
(* arrival of the request it is asked about.                                *)
LEMMA DecideKeeps ==
    ASSUME AccessInv, NEW c \in Connections, NEW skew \in Skews, NEW h \in Hostnames,
           Decide(c, skew, h, DecisionLifetime)
    PROVE  AccessInv'
  <1>0. PICK x : x = [nonce |-> connection[c].nonce, workload |-> Workload(c),
                      device |-> fleet[Workload(c)], hostname |-> h,
                      checked |-> now + skew, expires |-> now + skew + DecisionLifetime]
    OBVIOUS
  <1>1. /\ connection[c].phase = "asked" /\ fleet[Workload(c)] # NoDevice
        /\ decisions' = decisions \cup {x}
        /\ UNCHANGED <<connection, since, mode, fleet, bundle, queries>>
        /\ UNCHANGED storeVars
    BY <1>0 DEF Decide, externalVars
  <1>2. /\ now \in Nat /\ skew \in Int /\ DecisionLifetime \in Int
        /\ queries \in Nat /\ decisions \subseteq Decision
        /\ connection[c].nonce \in Nat
    BY Peers, AccessAssumption DEF Connection
  <1>3. Workload(c) \in Workloads
    <2>1. Updater(connection[c].uris)
      BY <1>1 DEF AccessInv, RequestOK, Questioned
    <2>2. connection[c].uris \in Certificates
      <3>1. connection[c].uris \in Certificates \cup {<<>>}
        BY Peers DEF Connection
      <3>. QED
        BY <2>1, <3>1 DEF Updater, Named
    <2>. QED
      BY <2>1, <2>2, AccessAssumption DEF Workload
  <1>4. fleet[Workload(c)] \in Devices
    BY <1>1, <1>3, Peers
  <1>5. now + skew \in Int /\ now + skew + DecisionLifetime \in Int
    BY <1>2
  <1>6. /\ x \in Decision /\ x.nonce = connection[c].nonce
        /\ x.device = fleet[Workload(c)] /\ x.checked = now + skew
    BY <1>0, <1>2, <1>3, <1>4, <1>5 DEF Decision
  <1>7. StoreInv' /\ NamesInv' /\ RowsNamed' /\ now' = now
    BY <1>1, StoreAlone
  <1>8. PeersTyped'
    BY <1>1, <1>6 DEF AccessInv, PeersTyped
  <1>9. GrantedAt(c, x.device, x.checked)'
    <2>1. LastGranted(c, x.device) = now
      BY <1>6 DEF LastGranted
    <2>2. now # Never /\ x.checked - skew <= now
      BY <1>2, <1>6 DEF Never
    <2>3. GrantedAt(c, x.device, x.checked)
      BY <2>1, <2>2 DEF GrantedAt
    <2>. QED
      BY <1>1, <1>7, <2>3 DEF GrantedAt, LastGranted, Workload
  <1>10. ASSUME NEW b \in Connections
         PROVE  RequestOK(b)'
    <2>1. \A d \in Devices : LastGranted(b, d)' = LastGranted(b, d)
      BY <1>1, <1>7 DEF LastGranted, Workload
    <2>2. \A d \in Devices : /\ LastGranted(b, d)' \in Nat \cup {Never}
                             /\ LastGranted(b, d)' >= LastGranted(b, d)
      BY <2>1, LastGrantedType DEF Never
    <2>3. ASSUME connection[b].phase = "asked", NEW y \in decisions' \ decisions,
                 y.nonce = connection[b].nonce
          PROVE  GrantedAt(b, y.device, y.checked)'
      <3>1. y = x
        BY <1>1
      <3>2. b = c
        BY <1>1, <1>6, <2>3, <3>1 DEF AccessInv, NoncesFresh
      <3>. QED
        BY <1>9, <3>1, <3>2
    <2>4. /\ b \in InFlight /\ connection[b].authority \in bundle => since[b].trusted
          /\ \A d \in Devices : since[b].granted[d] <= now
      BY DEF AccessInv, RequestOK
    <2>. QED
      BY <1>1, <1>2, <1>7, <1>8, <2>2, <2>3, <2>4, RequestKept
  <1>11. NoncesFresh'
    <2>1. connection[c].nonce <= queries
      BY <1>1, <1>2 DEF AccessInv, RequestOK
    <2>. QED
      BY <1>1, <1>6, <2>1 DEF AccessInv, NoncesFresh
  <1>. QED
    BY <1>7, <1>8, <1>10, <1>11 DEF AccessInv

(* A step that changes what surrounds the requests: time, grants, trust. *)
LEMMA SurroundingsKeep ==
    ASSUME AccessInv, StoreInv', NamesInv', RowsNamed', PeersTyped',
           UNCHANGED <<mode, connection, decisions, queries>>,
           now' >= now,
           \A b \in Connections :
              /\ since[b].trusted => since'[b].trusted
              /\ b \in InFlight /\ connection[b].authority \in bundle' => since'[b].trusted
              /\ \A d \in Devices : since'[b].granted[d] <= now'
              /\ Questioned(b) => \A d \in Devices : /\ LastGranted(b, d)' \in Nat \cup {Never}
                                                     /\ LastGranted(b, d)' >= LastGranted(b, d)
    PROVE  AccessInv'
  <1>1. now' \in Nat /\ queries \in Nat
    BY Peers, IntentsAssumption DEF NamesInv, TableInv, IntentsTypeOK
  <1>2. ASSUME NEW b \in Connections
        PROVE  RequestOK(b)'
    BY <1>1, RequestKept
  <1>3. NoncesFresh'
    BY DEF AccessInv, NoncesFresh
  <1>. QED
    BY <1>2, <1>3 DEF AccessInv

(* A grant that is withdrawn has been seen by the requests under way. *)
LEMMA ReassignKeeps ==
    ASSUME AccessInv, NEW w \in Workloads, NEW d \in Devices \cup {NoDevice}, Reassign(w, d)
    PROVE  AccessInv'
  <1>1. /\ fleet' = [fleet EXCEPT ![w] = d]
        /\ since' = [c \in Connections |->
             IF c \in InFlight
             THEN Observed(c, Observed(c, since[c], fleet, bundle), fleet', bundle)
             ELSE since[c]]
        /\ UNCHANGED <<mode, bundle, connection, decisions, queries>>
        /\ UNCHANGED storeVars
    BY DEF Reassign
  <1>2. StoreInv' /\ NamesInv' /\ RowsNamed' /\ now' = now /\ now \in Nat /\ now' >= now
    BY <1>1, StoreAlone, Peers
  <1>3. PeersTyped'
    <2>1. fleet' \in [Workloads -> Devices \cup {NoDevice}]
      BY <1>1, Peers
    <2>2. \A c \in Connections : since'[c] \in History
      BY <1>1, Peers, ObservedType
    <2>3. since' \in [Connections -> History]
      BY <1>1, <2>2
    <2>. QED
      BY <1>1, <2>1, <2>3 DEF AccessInv, PeersTyped
  <1>4. ASSUME NEW b \in Connections
        PROVE  /\ since[b].trusted => since'[b].trusted
               /\ b \in InFlight /\ connection[b].authority \in bundle' => since'[b].trusted
               /\ \A e \in Devices : since'[b].granted[e] <= now'
    BY <1>1, <1>2 DEF Observed, AccessInv, RequestOK
  <1>5. ASSUME NEW b \in Connections, Questioned(b), NEW e \in Devices
        PROVE  /\ LastGranted(b, e)' \in Nat \cup {Never}
               /\ LastGranted(b, e)' >= LastGranted(b, e)
    <2>1. b \in InFlight /\ Updater(connection[b].uris)
      BY <1>5 DEF Questioned, InFlight, AccessInv, RequestOK
    <2>2. since'[b].granted[e] =
            IF fleet'[Workload(b)] = e THEN now
            ELSE IF fleet[Workload(b)] = e THEN now ELSE since[b].granted[e]
      BY <1>1, <2>1 DEF Observed
    <2>3. Workload(b)' = Workload(b)
      BY <1>1 DEF Workload
    <2>4. LastGranted(b, e)' = now \/ LastGranted(b, e)' = LastGranted(b, e)
      BY <1>2, <2>2, <2>3 DEF LastGranted
    <2>5. LastGranted(b, e) \in Nat \cup {Never}
      BY LastGrantedType
    <2>6. LastGranted(b, e) <= now
      BY <1>2 DEF LastGranted, AccessInv, RequestOK
    <2>. QED
      BY <1>2, <2>4, <2>5, <2>6 DEF Never
  <1>. QED
    BY <1>1, <1>2, <1>3, <1>4, <1>5, SurroundingsKeep

(* A new bundle is seen by every request under way. *)
LEMMA RotateKeeps ==
    ASSUME AccessInv, NEW B \in (SUBSET Authorities) \ {{}}, Rotate(B)
    PROVE  AccessInv'
  <1>1. /\ bundle' = B
        /\ since' = [c \in Connections |->
             IF c \in InFlight THEN Observed(c, since[c], fleet, B) ELSE since[c]]
        /\ UNCHANGED <<mode, fleet, connection, decisions, queries>>
        /\ UNCHANGED storeVars
    BY DEF Rotate
  <1>2. StoreInv' /\ NamesInv' /\ RowsNamed' /\ now' = now /\ now \in Nat /\ now' >= now
    BY <1>1, StoreAlone, Peers
  <1>3. PeersTyped'
    <2>1. \A c \in Connections : since'[c] \in History
      BY <1>1, Peers, ObservedType
    <2>2. since' \in [Connections -> History]
      BY <1>1, <2>1
    <2>. QED
      BY <1>1, <2>2 DEF AccessInv, PeersTyped
  <1>4. ASSUME NEW b \in Connections
        PROVE  /\ since[b].trusted => since'[b].trusted
               /\ b \in InFlight /\ connection[b].authority \in bundle' => since'[b].trusted
               /\ \A e \in Devices : since'[b].granted[e] <= now'
    BY <1>1, <1>2 DEF Observed, AccessInv, RequestOK
  <1>5. ASSUME NEW b \in Connections, Questioned(b), NEW e \in Devices
        PROVE  /\ LastGranted(b, e)' \in Nat \cup {Never}
               /\ LastGranted(b, e)' >= LastGranted(b, e)
    <2>1. b \in InFlight /\ Updater(connection[b].uris)
      BY <1>5 DEF Questioned, InFlight, AccessInv, RequestOK
    <2>2. since'[b].granted[e] =
            IF fleet[Workload(b)] = e THEN now ELSE since[b].granted[e]
      BY <1>1, <2>1 DEF Observed
    <2>3. LastGranted(b, e)' = LastGranted(b, e)
      BY <1>1, <1>2, <2>2 DEF LastGranted, Workload
    <2>4. LastGranted(b, e) \in Nat \cup {Never}
      BY LastGrantedType
    <2>. QED
      BY <2>3, <2>4 DEF Never
  <1>. QED
    BY <1>1, <1>2, <1>3, <1>4, <1>5, SurroundingsKeep

(* Every step of the requests keeps what is proved of the store. *)
LEMMA StoreKept ==
    ASSUME AccessInv, [AccessNext]_accessVars
    PROVE  StoreInv' /\ NamesInv'
  <1>1. [Next]_storeVars
    BY AccessStepIsStoreStep
  <1>2. [IntentsNext]_intentsVars
    BY <1>1, StoreStepIsTableStep
  <1>. QED
    BY <1>1, <1>2, StoreStep, NamesStep DEF AccessInv

(* Time passes: a grant that still stands is a later grant. *)
LEMMA ClockKeeps ==
    ASSUME AccessInv, Clock
    PROVE  AccessInv'
  <1>1. /\ now' = now + 1 /\ UNCHANGED intents
        /\ UNCHANGED <<mode, fleet, bundle, connection, since, decisions, queries>>
    BY DEF Clock, Tick, externalVars
  <1>2. now \in Nat /\ now' \in Nat /\ now' >= now
    BY <1>1, Peers
  <1>3. StoreInv' /\ NamesInv'
    BY StoreKept DEF AccessNext
  <1>4. RowsNamed' /\ PeersTyped'
    BY <1>1 DEF AccessInv, RowsNamed, Found, PeersTyped
  <1>5. ASSUME NEW b \in Connections
        PROVE  /\ since[b].trusted => since'[b].trusted
               /\ b \in InFlight /\ connection[b].authority \in bundle' => since'[b].trusted
    BY <1>1 DEF AccessInv, RequestOK
  <1>6. ASSUME NEW b \in Connections, NEW e \in Devices
        PROVE  /\ since'[b].granted[e] <= now'
               /\ LastGranted(b, e)' \in Nat \cup {Never}
               /\ LastGranted(b, e)' >= LastGranted(b, e)
    <2>1. since[b].granted[e] \in Nat \cup {Never} /\ since[b].granted[e] <= now
      BY Peers DEF AccessInv, RequestOK, History
    <2>2. LastGranted(b, e) = IF fleet[Workload(b)] = e THEN now ELSE since[b].granted[e]
      BY DEF LastGranted
    <2>3. LastGranted(b, e)' = IF fleet[Workload(b)] = e THEN now' ELSE since[b].granted[e]
      BY <1>1 DEF LastGranted, Workload
    <2>. QED
      BY <1>1, <1>2, <2>1, <2>2, <2>3 DEF Never
  <1>. QED
    BY <1>1, <1>2, <1>3, <1>4, <1>5, <1>6, SurroundingsKeep

(* What is no write leaves every row its name. *)
LEMMA QuietRowsNamed ==
    ASSUME AccessInv, QuietNext
    PROVE  RowsNamed'
  BY QuietKeepsNames DEF AccessInv, RowsNamed, Found, KeepsName

(* A status request realizes expiries, and names nothing. *)
LEMMA GetStatusKeeps ==
    ASSUME AccessInv, NEW c \in Connections, GetStatus(c)
    PROVE  AccessInv'
  <1>1. StoreInv' /\ NamesInv'
    BY StoreKept DEF AccessNext
  <1>2. QuietNext /\ now' = now
    BY Peers DEF GetStatus, QuietNext, ExpireLeases, Times
  <1>3. Finish(c) /\ UNCHANGED <<mode, fleet, bundle, decisions, queries>>
    BY DEF GetStatus, externalVars
  <1>. QED
    BY <1>1, <1>2, <1>3, QuietRowsNamed, FinishKeeps

(* A write is made under the name of its device. *)
LEMMA PutKeeps ==
    ASSUME AccessInv, NEW c \in Connections, NEW input \in AddressLists, NEW k \in Keys,
           NEW m \in RenewAfterMillis, PutEndpoints(c, input, k, m)
    PROVE  AccessInv'
  <1>1. StoreInv' /\ NamesInv'
    BY StoreKept DEF AccessNext
  <1>2. PICK d \in Devices, h \in Hostnames : h = DeviceName[d] /\
          \E A \in Payloads, p \in Preconditions, t \in Times :
             UpsertIntent(d, h, A, k, p, t, m)
    BY PutIsUpsert, AuthorizedRequest DEF PutEndpoints
  <1>3. PICK A \in Payloads, p \in Preconditions, t \in Times : UpsertIntent(d, h, A, k, p, t, m)
    BY <1>2
  <1>4. RowsNamed' /\ now' = now
    <2>1. CASE Write(d, h, A, t)
      <3>1. t \in Nat /\ RowOK(intents[d]) /\ intents \in [Devices -> Intent]
        BY Peers, InvRow DEF Times, AccessInv, NamesInv, TableInv, IntentsTypeOK
      <3>2. Written(d, h, A, t).hostname = DeviceName[d]
        BY <1>2, <2>1, <3>1, WrittenRow DEF Write
      <3>3. ASSUME NEW e \in Devices, Found(e)'
            PROVE  intents'[e].hostname = DeviceName[e]
        <4>1. CASE e = d
          BY <2>1, <3>1, <3>2, <4>1 DEF Write
        <4>2. CASE e # d
          BY <2>1, <3>1, <3>3, <4>2 DEF Write, AccessInv, RowsNamed, Found
        <4>. QED
          BY <4>1, <4>2
      <3>. QED
        BY <2>1, <3>3 DEF RowsNamed, Write
    <2>2. CASE RealizeExpiry(d, t)
      <3>1. QuietNext
        BY <2>2 DEF QuietNext
      <3>. QED
        BY <2>2, <3>1, QuietRowsNamed DEF RealizeExpiry
    <2>3. CASE UNCHANGED <<intents, now>>
      BY <2>3, QuietRowsNamed DEF QuietNext
    <2>. QED
      BY <1>3, <2>1, <2>2, <2>3 DEF UpsertIntent, UpsertReplay, UpsertConflict,
         UpsertUnconditional, UpsertStale, UpsertMisnamed, UpsertAccept, storeVars
  <1>5. Finish(c) /\ UNCHANGED <<mode, fleet, bundle, decisions, queries>>
    BY DEF PutEndpoints, externalVars
  <1>. QED
    BY <1>1, <1>4, <1>5, FinishKeeps

----------------------------------------------------------------------------
(* No request has arrived, no question been asked and no row been written. *)
LEMMA AccessInitInv ==
    ASSUME AccessInit
    PROVE  AccessInv
  <1>1. StoreInv /\ NamesInv
    BY StoreInit, NamesInit DEF AccessInit, Init
  <1>2. RowsNamed
    BY DEF AccessInit, RowsNamed
  <1>3. now = 0
    BY DEF AccessInit, Init, IntentsInit
  <1>4. Closed \in Connection /\ NoHistory \in History
    BY DEF Closed, Connection, NoHistory, History
  <1>5. PeersTyped
    BY <1>4, AccessAssumption DEF AccessInit, PeersTyped
  <1>6. ASSUME NEW c \in Connections
        PROVE  RequestOK(c)
    <2>1. connection[c] = Closed /\ since[c] = NoHistory
      BY DEF AccessInit
    <2>2. Closed.phase = "closed" /\ Closed.arrived = 0
      BY DEF Closed
    <2>3. \A d \in Devices : NoHistory.granted[d] <= 0
      BY DEF NoHistory, Never
    <2>. QED
      BY <1>3, <2>1, <2>2, <2>3 DEF RequestOK, InFlight, Questioned
  <1>7. NoncesFresh
    BY DEF AccessInit, NoncesFresh, Closed
  <1>. QED
    BY <1>1, <1>2, <1>5, <1>6, <1>7 DEF AccessInv

(* Every step of the requests keeps the invariant. *)
LEMMA AccessStep ==
    ASSUME AccessInv, [AccessNext]_accessVars
    PROVE  AccessInv'
  <1>1. CASE UNCHANGED accessVars
    <2>1. UNCHANGED storeVars
      BY <1>1 DEF accessVars, storeVars
    <2>2. StoreInv' /\ NamesInv' /\ RowsNamed' /\ now' = now
      BY <2>1, StoreAlone
    <2>. QED
      BY <1>1, <2>2 DEF accessVars, AccessInv, PeersTyped, NoncesFresh, RequestOK, InFlight,
         Questioned, GrantedAt, GrantedWithin, LastGranted, Workload
  <1>2. CASE AccessNext
    <2>1. ASSUME NEW c \in Connections, NoDecision(c) \/ RefusePut(c)
          PROVE  AccessInv'
      BY <2>1, RefuseKeeps DEF NoDecision, RefusePut
    <2>. QED
      BY <1>2, <2>1, ConnectKeeps, DisconnectKeeps, ArriveKeeps, ResolveKeeps,
         ResolveRequestKeeps, ReceiveKeeps, DecideKeeps, PutKeeps, GetStatusKeeps,
         ReassignKeeps, RotateKeeps, ClockKeeps DEF AccessNext
  <1>. QED
    BY <1>1, <1>2

(* The invariant of the requests holds for every fleet and every clock. *)
THEOREM AccessCorrect == AccessSpec => []AccessInv
  <1>1. AccessInit => AccessInv
    BY AccessInitInv
  <1>2. AccessInv /\ [AccessNext]_accessVars => AccessInv'
    BY AccessStep
  <1>. QED
    BY <1>1, <1>2, PTL DEF AccessSpec

(* The handlers use the store as module DesiredState says it is used, so    *)
(* whatever is proved of the store holds behind the policies as well        *)
(* (putEndpoints and getStatus are all the requests there are).             *)
THEOREM AccessImplementsStore == AccessSpec => Spec
  <1>1. AccessInit => Init
    BY DEF AccessInit
  <1>2. AccessInv /\ [AccessNext]_accessVars => [Next]_storeVars
    BY AccessStepIsStoreStep
  <1>. QED
    BY <1>1, <1>2, AccessCorrect, PTL DEF AccessSpec, Spec

(* Connections, registry and store always have their types, and what is     *)
(* authorized has a device and a name.                                      *)
THEOREM AccessTyped == AccessSpec => []AccessTypeOK
  <1>1. ASSUME AccessInv
        PROVE  AccessTypeOK
    <2>1. TypeOK
      BY <1>1 DEF AccessInv, StoreInv, TableInv, TypeOK
    <2>2. \A c \in Connections : connection[c].phase = "authorized" =>
            connection[c].device \in Devices /\ connection[c].hostname \in Hostnames
      BY <1>1, AuthorizedRequest
    <2>. QED
      BY <1>1, <2>1, <2>2 DEF AccessInv, PeersTyped, AccessTypeOK
  <1>. QED
    BY <1>1, AccessCorrect, PTL

(* In spiffe mode a request acts only for a device that its workload was    *)
(* granted after it arrived.                                                *)
THEOREM AccessGranted == AccessSpec => []GrantedSinceArrival
  <1>1. AccessInv => GrantedSinceArrival
    BY DEF AccessInv, RequestOK, GrantedWithin, GrantedSinceArrival, AuthorizedBy
  <1>. QED
    BY <1>1, AccessCorrect, PTL

(* A grant that was withdrawn a decision's lifetime ago authorizes nothing, *)
(* give or take the difference of the clocks (AuthorizeDNS).                *)
THEOREM AccessWithdrawn == AccessSpec => []WithdrawnInTime
  <1>1. AccessInv => WithdrawnInTime
    BY DEF AccessInv, RequestOK, GrantedWithin, WithdrawnInTime, AuthorizedBy
  <1>. QED
    BY <1>1, AccessCorrect, PTL

(* The credential of an authorized request was good after it arrived, on    *)
(* however old a connection it came.                                        *)
THEOREM AccessCredentialCurrent == AccessSpec => []CredentialCurrent
  <1>1. AccessInv => CredentialCurrent
    BY DEF AccessInv, RequestOK, Questioned, CredentialCurrent, AuthorizedBy
  <1>. QED
    BY <1>1, AccessCorrect, PTL

(* In file mode the device of a request is the only one of its certificate. *)
THEOREM AccessOneIdentity == AccessSpec => []OneIdentity
  <1>1. AccessInv => OneIdentity
    BY DEF AccessInv, RequestOK, OneIdentity, AuthorizedBy
  <1>. QED
    BY <1>1, AccessCorrect, PTL

(* Every row is created under the name of its device, whatever host name    *)
(* the registry puts into its decisions.                                    *)
THEOREM AccessRowsNamed == AccessSpec => []RowsNamed
  <1>1. AccessInv => RowsNamed
    BY DEF AccessInv
  <1>. QED
    BY <1>1, AccessCorrect, PTL
============================================================================

------------------------------- MODULE Access -------------------------------
(***************************************************************************)
(* Who may write what: the way of a request from its TLS connection        *)
(* through the identity policy and the fleet registry to the store         *)
(* (dns/internal/identity, the handlers of dns/internal/controller and     *)
(* dns/internal/api/precondition.go).                                      *)
(*                                                                         *)
(* In "file" mode the certificate of the connection names the device.  In  *)
(* "spiffe" mode it names a workload; the credential is checked again and  *)
(* the registry is asked again for every request.  Meanwhile workloads are *)
(* revoked and replaced, certificate authorities are rotated, leaves       *)
(* expire, and the answers of the registry are late, repeated or wrong.    *)
(*                                                                         *)
(* The registry, the certificate authorities and crypto/tls are external.  *)
(* Data abstraction: a URI is its kind and what it names; an ETag is the   *)
(* generation in it; logical device, instance and role of a workload are   *)
(* one name.  Request contents are chosen when the handler reads them.     *)
(* Authentication and leases read one clock.                               *)
(***************************************************************************)
EXTENDS DesiredState, Sequences

CONSTANTS
    DeviceName,        \* device -> the host name of "pi-<id>.<zone>"
    Workloads,         \* names of DNS updater workloads
    NoDevice,          \* what the registry grants a workload it does not admit
    Authorities,       \* certificate authorities
    Certificates,      \* the URI lists of the certificates in use
    Expiries,          \* when certificates can expire
    DecisionLifetime,  \* 5 s
    Skews,             \* registry clock minus controller clock
    Unusable,          \* an address that is malformed, misnamed or not routable
    MaxAddresses,      \* 32
    Connections,       \* connections the controller holds at a time
    MaxQueries         \* bound: registry queries

URI == [kind : {"device", "updater", "service", "foreign"},
        name : Nat \cup Workloads]

Named(uris) == Len(uris) = 1 /\ uris[1].kind # "foreign"

Updater(uris) == Named(uris) /\ uris[1].kind = "updater"

(* Where a certificate has device URIs: there must be one. *)
DeviceURIs(uris) == {i \in DOMAIN uris : uris[i].kind = "device"}

(* A certificate names one of the devices or of the workloads, or nobody;   *)
(* every set of usable addresses that is small enough can be asked for.     *)
ASSUME AccessAssumption ==
    /\ DeviceName \in [Devices -> Hostnames]
    /\ Certificates \subseteq Seq(URI)
    /\ \A uris \in Certificates :
          /\ Updater(uris) => uris[1].name \in Workloads
          /\ \A i \in DOMAIN uris : DeviceURIs(uris) = {i} => uris[i].name \in Devices
    /\ \A A \in SUBSET (UNION Payloads) :
          A # {} /\ IsFiniteSet(A) /\ Cardinality(A) <= MaxAddresses => A \in Payloads
    /\ NoDevice \notin Devices
    /\ Expiries \subseteq Nat
    /\ DecisionLifetime \in Nat \ {0}
    /\ Skews \subseteq Int
    /\ Unusable \notin UNION Payloads
    /\ MaxAddresses \in Nat \ {0}
    /\ MaxQueries \in Nat

VARIABLES
    mode,         \* "file" or "spiffe"
    fleet,        \* workload -> the device the registry lets it update
    bundle,       \* the authorities that are trusted now
    connection,   \* connection -> its peer and the request it carries
    since,        \* history: connection -> what has held since that request arrived
    decisions,    \* what the registry has decided so far
    queries       \* registry queries so far

externalVars == <<fleet, bundle>>
accessVars == <<intents, now, idempotency, replies, mode, fleet, bundle,
                connection, since, decisions, queries>>

Never == -1

(* `checked' and `device' are set once the request is authorized. *)
Connection ==
    [phase : {"closed", "idle", "received", "asked", "authorized"},
     uris : Certificates \cup {<<>>}, authority : Authorities \cup {Never},
     notAfter : Nat, arrived : Nat, nonce : Nat,
     device : Devices \cup {NoDevice}, hostname : Hostnames \cup {NoHostname},
     checked : Nat]

Decision ==
    [nonce : Nat, workload : Workloads, device : Devices, hostname : Hostnames,
     checked : Int, expires : Int]

Closed ==
    [phase |-> "closed", uris |-> <<>>, authority |-> Never, notAfter |-> 0,
     arrived |-> 0, nonce |-> 0, device |-> NoDevice, hostname |-> NoHostname,
     checked |-> 0]

(* The connection when its request has been answered. *)
Idle(c) ==
    [c EXCEPT !.phase = "idle", !.arrived = 0, !.nonce = 0, !.device = NoDevice,
              !.hostname = NoHostname, !.checked = 0]

(* History: whether the authority of the connection was trusted, and when   *)
(* each device was last granted to its workload, since its request arrived. *)
History == [trusted : BOOLEAN, granted : [Devices -> {Never} \cup Nat]]

NoHistory == [trusted |-> FALSE, granted |-> [d \in Devices |-> Never]]

Workload(c) == connection[c].uris[1].name

Observed(c, old, f, B) ==
    [trusted |-> old.trusted \/ connection[c].authority \in B,
     granted |-> [d \in Devices |->
        IF Updater(connection[c].uris) /\ f[Workload(c)] = d
        THEN now ELSE old.granted[d]]]

InFlight == {c \in Connections : connection[c].phase \notin {"closed", "idle"}}

Finish(c) ==
    /\ connection' = [connection EXCEPT ![c] = Idle(@)]
    /\ since' = [since EXCEPT ![c] = NoHistory]

Authorized(c, d, h) ==
    /\ connection' = [connection EXCEPT ![c].phase = "authorized", ![c].nonce = 0,
                      ![c].device = d, ![c].hostname = h, ![c].checked = now]
    /\ UNCHANGED since

----------------------------------------------------------------------------
(* Connections.  The handshake verifies the certificate, at that time, and  *)
(* in spiffe mode also that its one URI is of the trust domain.             *)

Connect(c, uris, a, notAfter) ==
    /\ connection[c].phase = "closed"
    /\ a \in bundle
    /\ now < notAfter
    /\ mode = "spiffe" => Named(uris)
    /\ connection' = [connection EXCEPT ![c] =
         [Closed EXCEPT !.phase = "idle", !.uris = uris, !.authority = a,
                        !.notAfter = notAfter]]
    /\ UNCHANGED <<storeVars, mode, externalVars, since, decisions, queries>>

Disconnect(c) ==
    /\ connection[c].phase = "idle"
    /\ connection' = [connection EXCEPT ![c] = Closed]
    /\ UNCHANGED <<storeVars, mode, externalVars, since, decisions, queries>>

Arrive(c) ==
    /\ connection[c].phase = "idle"
    /\ connection' = [connection EXCEPT ![c].phase = "received", ![c].arrived = now]
    /\ since' = [since EXCEPT ![c] = Observed(c, NoHistory, fleet, bundle)]
    /\ UNCHANGED <<storeVars, mode, externalVars, decisions, queries>>

----------------------------------------------------------------------------
(* authenticate *)

Refuse(c) ==
    /\ Finish(c)
    /\ UNCHANGED <<storeVars, mode, externalVars, decisions, queries>>

(* The request of c is that of the device its i-th URI names. *)
Identified(c, i) ==
    LET d == connection[c].uris[i].name
    IN  /\ Authorized(c, d, DeviceName[d])
        /\ UNCHANGED <<storeVars, mode, externalVars, decisions, queries>>

(* Mutant of Resolve: the first device URI is taken, whatever follows it. *)
ResolveFirst(c) ==
    /\ mode = "file"
    /\ connection[c].phase = "received"
    /\ LET matched == DeviceURIs(connection[c].uris)
       IN  \/ \E i \in matched : (\A j \in matched : i <= j) /\ Identified(c, i)
           \/ matched = {} /\ Refuse(c)

(* Mutant of Resolve: no device URI, and the zero Device is returned. *)
ResolveZero(c) ==
    /\ mode = "file"
    /\ connection[c].phase = "received"
    /\ LET matched == DeviceURIs(connection[c].uris)
       IN  \/ \E i \in matched : matched = {i} /\ Identified(c, i)
           \/ /\ matched = {}
              /\ Authorized(c, NoDevice, NoHostname)
              /\ UNCHANGED <<storeVars, mode, externalVars, decisions, queries>>

(* 401 unless there is exactly one. *)
Resolve(c) ==
    /\ mode = "file"
    /\ connection[c].phase = "received"
    /\ LET matched == DeviceURIs(connection[c].uris)
       IN  \/ \E i \in matched : matched = {i} /\ Identified(c, i)
           \/ (\A i \in matched : matched # {i}) /\ Refuse(c)

(* Mutant of Credible: the verdict of the handshake is kept. *)
CredibleOnce(c) == Named(connection[c].uris)

(* The leaf and its chain against the present bundle and clock. *)
Credible(c) ==
    /\ now < connection[c].notAfter
    /\ connection[c].authority \in bundle
    /\ Named(connection[c].uris)

(* 401 for the credential, 403 for a workload that is no DNS updater; the   *)
(* others are asked about under a fresh nonce.                              *)
ResolveRequest(c) ==
    /\ mode = "spiffe"
    /\ connection[c].phase = "received"
    /\ IF Credible(c) /\ connection[c].uris[1].kind = "updater"
       THEN /\ queries < MaxQueries
            /\ queries' = queries + 1
            /\ connection' = [connection EXCEPT ![c].phase = "asked",
                                                ![c].nonce = queries + 1]
            /\ UNCHANGED <<storeVars, mode, externalVars, since, decisions>>
       ELSE Refuse(c)

(* Mutant of Fits: the answer is not bound to the question. *)
FitsAnyQuestion(c, x) ==
    /\ x.workload = Workload(c)
    /\ x.hostname = DeviceName[x.device]
    /\ x.checked <= now
    /\ now < x.expires
    /\ x.expires - x.checked = DecisionLifetime

(* Mutant of Fits: a late answer is as good as any. *)
FitsLate(c, x) ==
    /\ x.nonce = connection[c].nonce
    /\ x.workload = Workload(c)
    /\ x.hostname = DeviceName[x.device]
    /\ x.checked <= now
    /\ x.expires - x.checked = DecisionLifetime

(* Mutant of Fits: the host name is taken from the decision as it is. *)
FitsAnyHostname(c, x) ==
    /\ x.nonce = connection[c].nonce
    /\ x.workload = Workload(c)
    /\ x.checked <= now
    /\ now < x.expires
    /\ x.expires - x.checked = DecisionLifetime

Fits(c, x) ==
    /\ x.nonce = connection[c].nonce
    /\ x.workload = Workload(c)
    /\ x.hostname = DeviceName[x.device]
    /\ x.checked <= now
    /\ now < x.expires
    /\ x.expires - x.checked = DecisionLifetime

(* AuthorizeDNS gets a decision: the one it asked for, or one that answers  *)
(* something else.  503 if it does not fit.                                 *)
Receive(c, x) ==
    /\ connection[c].phase = "asked"
    /\ IF Fits(c, x)
       THEN /\ Authorized(c, x.device, x.hostname)
            /\ UNCHANGED <<storeVars, mode, externalVars, decisions, queries>>
       ELSE Refuse(c)

(* 403, or 503: a time-out, another status, a body that is no decision. *)
NoDecision(c) ==
    /\ connection[c].phase = "asked"
    /\ Refuse(c)

----------------------------------------------------------------------------
(* The registry.  It may err in the host name. *)
Decide(c, skew, h, lifetime) ==
    /\ connection[c].phase = "asked"
    /\ \A x \in decisions : x.nonce # connection[c].nonce
    /\ fleet[Workload(c)] # NoDevice
    /\ decisions' = decisions \cup
         {[nonce |-> connection[c].nonce, workload |-> Workload(c),
           device |-> fleet[Workload(c)], hostname |-> h,
           checked |-> now + skew, expires |-> now + skew + lifetime]}
    /\ UNCHANGED <<storeVars, mode, externalVars, connection, since, queries>>

(* A workload is admitted, replaced, quarantined or moved to another name;  *)
(* the registry gives a device to one workload at a time.                   *)
Reassign(w, d) ==
    /\ mode = "spiffe"
    /\ fleet[w] # d
    /\ d # NoDevice => \A v \in Workloads : fleet[v] # d
    /\ fleet' = [fleet EXCEPT ![w] = d]
    /\ since' = [c \in Connections |->
         IF c \in InFlight THEN Observed(c, Observed(c, since[c], fleet, bundle), fleet', bundle)
                           ELSE since[c]]
    /\ UNCHANGED <<storeVars, mode, bundle, connection, decisions, queries>>

(* The workload API replaces the bundle.  In file mode it is read once. *)
Rotate(B) ==
    /\ mode = "spiffe"
    /\ B # bundle
    /\ bundle' = B
    /\ since' = [c \in Connections |->
         IF c \in InFlight THEN Observed(c, since[c], fleet, B) ELSE since[c]]
    /\ UNCHANGED <<storeVars, mode, fleet, connection, decisions, queries>>

----------------------------------------------------------------------------
(* The handlers, of an authorized request *)

(* A header is the list of its values: a generation, 0 for "*", or          *)
(* Malformed for anything else (ParseGenerationETag accepts no other text). *)
Malformed == -1
Headers == {<<>>} \cup {<<v>> : v \in {Malformed, 0} \cup 1 .. MaxGeneration}
                 \cup {<<1, 1>>, <<0, 0>>}

(* The preconditions a request is let through with: one or, when it is      *)
(* answered 400 or 428, none.                                               *)
ParseWritePrecondition(ifMatch, ifNoneMatch) ==
    CASE ifMatch = <<>> /\ Len(ifNoneMatch) = 1 /\ ifNoneMatch[1] = 0 -> {RequireAbsent}
      [] ifNoneMatch = <<>> /\ Len(ifMatch) = 1 /\ ifMatch[1] > 0 -> {MatchGeneration(ifMatch[1])}
      [] OTHER -> {}

(* The lists of addresses that requests hold, up to one that is too long. *)
AddressLists ==
    UNION {[1 .. n -> (UNION Payloads) \cup {Unusable}] : n \in 0 .. MaxAddresses + 1}

(* The address sets a list is let through as: one, or none for a 400. *)
ValidateAddresses(input) ==
    IF /\ Len(input) \in 1 .. MaxAddresses
       /\ \A i, j \in DOMAIN input :
             input[i] # Unusable /\ (input[i] = input[j] => i = j)
    THEN {{input[i] : i \in DOMAIN input}}
    ELSE {}

(* 400 or 428: the key, the document, the addresses or the precondition. *)
RefusePut(c) ==
    /\ connection[c].phase = "authorized"
    /\ Refuse(c)

(* The handler read its clock at some time after the authorization. *)
PutEndpoints(c, input, k, m) ==
    /\ connection[c].phase = "authorized"
    /\ \E A \in ValidateAddresses(input), ifMatch, ifNoneMatch \in Headers,
          t \in connection[c].checked .. now :
         \E p \in ParseWritePrecondition(ifMatch, ifNoneMatch) :
           UpsertIntent(connection[c].device, connection[c].hostname, A, k, p, t, m)
    /\ Finish(c)
    /\ UNCHANGED <<mode, externalVars, decisions, queries>>

(* getStatus: an expired lease is realized before it is read. *)
GetStatus(c) ==
    /\ connection[c].phase = "authorized"
    /\ IF Lapsed(intents[connection[c].device], now)
       THEN ExpireLeases(now) ELSE UNCHANGED <<intents, now>>
    /\ Finish(c)
    /\ UNCHANGED <<idempotency, replies, mode, externalVars, decisions, queries>>

----------------------------------------------------------------------------
Clock ==
    /\ Tick
    /\ UNCHANGED <<idempotency, replies, mode, externalVars, connection, since, decisions, queries>>

AccessInit ==
    /\ Init
    /\ \A d \in Devices : ~Found(d)
    /\ mode \in {"file", "spiffe"}
    /\ fleet \in [Workloads -> Devices \cup {NoDevice}]
    /\ \A v, w \in Workloads : v # w => fleet[v] # fleet[w] \/ fleet[v] = NoDevice
    /\ bundle \in (SUBSET Authorities) \ {{}}
    /\ connection = [c \in Connections |-> Closed]
    /\ since = [c \in Connections |-> NoHistory]
    /\ decisions = {}
    /\ queries = 0

AccessNext ==
    \/ \E c \in Connections :
         \/ \E uris \in Certificates, a \in Authorities, notAfter \in Expiries :
              Connect(c, uris, a, notAfter)
         \/ Disconnect(c)
         \/ Arrive(c)
         \/ Resolve(c)
         \/ ResolveRequest(c)
         \/ \E x \in decisions : Receive(c, x)
         \/ NoDecision(c)
         \/ \E skew \in Skews, h \in Hostnames : Decide(c, skew, h, DecisionLifetime)
         \/ RefusePut(c)
         \/ \E input \in AddressLists, k \in Keys, m \in RenewAfterMillis :
              PutEndpoints(c, input, k, m)
         \/ GetStatus(c)
    \/ \E w \in Workloads, d \in Devices \cup {NoDevice} : Reassign(w, d)
    \/ \E B \in (SUBSET Authorities) \ {{}} : Rotate(B)
    \/ Clock

AccessSpec == AccessInit /\ [][AccessNext]_accessVars

----------------------------------------------------------------------------
(* Type correctness of the connections, the registry and the store; an      *)
(* authorized request has a device and a name.                              *)
AccessTypeOK ==
    /\ TypeOK
    /\ mode \in {"file", "spiffe"}
    /\ fleet \in [Workloads -> Devices \cup {NoDevice}]
    /\ bundle \subseteq Authorities
    /\ connection \in [Connections -> Connection]
    /\ \A c \in Connections : connection[c].phase = "authorized" =>
          connection[c].device \in Devices /\ connection[c].hostname \in Hostnames
    /\ since \in [Connections -> History]
    /\ decisions \subseteq Decision
    /\ queries \in 0 .. MaxQueries

(* When the registry last let the workload of c update device d, unless it  *)
(* was before the request arrived.                                          *)
LastGranted(c, d) == IF fleet[Workload(c)] = d THEN now ELSE since[c].granted[d]

AuthorizedBy(policy) ==
    {c \in Connections : mode = policy /\ connection[c].phase = "authorized"}

(* A request acts for a device only if the registry let its workload update *)
(* that device after the request arrived, whatever the registry answered    *)
(* before and whoever it answered ("After quarantine, permission removal or *)
(* instance replacement commits, the next registry query denies the old     *)
(* workload", spiffe-dns.md; "Decisions are consumed immediately once and   *)
(* never cached").                                                          *)
GrantedSinceArrival ==
    \A c \in AuthorizedBy("spiffe") :
        LastGranted(c, connection[c].device) # Never

(* However long the registry's answer is on its way, nothing is authorized  *)
(* by a grant that was withdrawn a decision's lifetime ago, give or take    *)
(* what the two clocks differ by (AuthorizeDNS).                            *)
WithdrawnInTime ==
    \A c \in AuthorizedBy("spiffe") : \E s \in Skews :
        connection[c].checked - LastGranted(c, connection[c].device)
          < DecisionLifetime + s

(* The credential of every authorized request was good at some time after   *)
(* the request arrived, though it came on a connection that was opened      *)
(* before an authority was dropped or the leaf expired ("against its        *)
(* current Workload API bundle and wall clock on every protected request,   *)
(* including an existing TLS connection", spiffe-dns.md).                   *)
CredentialCurrent ==
    \A c \in AuthorizedBy("spiffe") :
        /\ since[c].trusted
        /\ connection[c].notAfter > connection[c].arrived

(* In file mode a request acts for a device that is the only one its        *)
(* certificate could be meant for.                                          *)
OneIdentity ==
    \A c \in AuthorizedBy("file") :
        \A i \in DOMAIN connection[c].uris :
            connection[c].uris[i].kind = "device" =>
                connection[c].uris[i].name = connection[c].device

(* A row is only ever created under the name of its device, so that no      *)
(* decision of the registry makes one device own another one's name or      *)
(* locks a device out of its own (the host name check of AuthorizeDNS, and  *)
(* upsertIntent, which refuses a name other than the first).                *)
RowsNamed ==
    \A d \in Devices : Found(d) => intents[d].hostname = DeviceName[d]
============================================================================

# Verification of the Kaiba dynamic-DNS services

This directory holds TLA+ models of the services under `dns/` and of the key
initialization of the LAN name servers, the TLC runs that check them on small
instances, and TLAPS proofs of their safety for every instance. The models follow
the source; where a comment or a document says more than the code does, a run
that is expected to fail shows the difference.

## The system

A device runs an **agent** that registers the device's addresses with the
**update controller** over HTTPS. The controller keeps what each device asked
for, its *intent*, in an SQLite **desired-state store**. The **publisher** reads
the store, replaces A and AAAA RRsets at the hidden primary **P0** with RFC 2136
updates, and asks the **public authorities** whether they serve what was
published. A lease bounds how long an intent lives without renewal.

| Component | State | Operations | Interacts with |
|---|---|---|---|
| store (`internal/store`, `internal/model`) | `intents` (addresses, generation, lease, publication progress, last error), `idempotency_requests` | `UpsertIntent`, `GetIntent`, `ExpireLeases`, `List…Pending`, `Mark…` | called by controller and publisher, which are separate processes |
| schema migration (`store/sqlite.go`, `cmd`) | table layout | `OpenSQLite`, `migrate`, `migrateIdempotencyTable` | both processes at start |
| controller (`internal/controller`, `internal/api`) | none between requests | `putEndpoints`, `getStatus` | agents, store |
| agent (`internal/agent`) | pending file (key, payload hash, precondition) | `Run`, `updateOnce`, `loadOrCreatePending` | controller, the device's interfaces |
| publisher (`internal/publisher`) | work list of a pass | `RunOnce`, `Run` | store, P0, authorities |
| DNS writer and observer (`internal/dnswriter`) | none | `ReplaceAddressRRsets`, `ObserveAddressRRsets` | P0, authorities |
| identity (`internal/identity`) | none; trusts the bundle of the Workload API | `Resolve`, `ResolveRequest`, `AuthorizeDNS` | controller, fleet registry |
| controlled clock (`internal/clock`) | last valid instant | `Open`, `Now` | test topologies |
| units and name servers (`nix/dns/modules`) | configuration | restart policy, Knot configuration | all |
| LAN credentials (`nix/dns/modules/*.py`) | staged and final directory, marker | `main` | the operator, Knot on two hosts |

What is hard here:

- *Two writers of one table.* Controller and publisher interleave at transaction
  boundaries; the publisher acts on rows it read earlier.
- *Time read early.* A handler reads the clock before its transaction, so
  transactions commit with times out of order.
- *Retries.* An agent, and Go's HTTP transport (which may resend a request that
  has an `Idempotency-Key`), send a request again; requests and answers are lost
  or held up beyond the timeout.
- *Crashes.* The agent's only memory is the pending file, which it does not
  sync; the publisher's is the table; both services may fail in the middle of a
  schema migration that both run; a host may lose power while its keys are
  written.
- *Trust that goes stale.* A connection outlives the certificate it was opened
  with, and a registry's decision may arrive after it was withdrawn.
- *A name server the publisher cannot fence.* An update it gave up on may still
  be handled.

What makes each part correct: writes are compare-and-set and replays are exact
(store); a generation names one address set and progress is never invented or
lost (store); what is called applied is what P0 serves (publisher); every
generation gets there and lapsed devices disappear (publisher); keys are never
reused and refusals are final (agent and controller); the agent is never caught
in a loop (agent); nothing is written without a grant and a credential that were
good when the request was made, and under no name but the device's (identity);
no answer is lost by a migration and both services come up (start-up); a
half-written clock file gives no service a time nobody wrote (clock); no key that
was given out is ever replaced (credentials).

## Modules

| Module | Models | State |
|---|---|---|
| `Intents` | the intents table and the publisher's statements on it; also the abstract specification `IntentsSpec` | `intents`, `now` |
| `DesiredState` | `UpsertIntent` with the idempotency table; implements `IntentsSpec` | + `idempotency`; `replies` is a history of 202 answers |
| `Publication` | `RunOnce` step by step, P0, transfers, authorities | `Intents` + `phase`, `batch`, `queries`, `crashes`, `wire`, `zone`, `view`, `transfer` |
| `Registration` | agents, network, handlers on the store | `DesiredState` + agent state, `calls`, `answer`; `refused` is a history of 412 answers |
| `Observation` | what the authorities served while the publisher asked them | `Publication` + `served`, a history |
| `AnswerLog` | abstract: an append-only log with one answer per request | `log` |
| `Startup` | both services from `main` to service on one SQLite file, the clock file | `db`, `lock`, `view`, `inspected`, `phase`, `exits`, `file`, `last` |
| `Access` | connections, both identity policies, the registry, the handlers on the store | `DesiredState` + `mode`, `fleet`, `bundle`, `connection`, `decisions`, `queries`; `since` is a history |
| `Credentials` | the key initialization on two hosts, Knot, the operator, the disk | `step`, `tree`, `fixed`, `marker`, `dns`, `imported`, `handed`, `drawn`; `given`, `cut` are histories |
| `MC…` | symmetry sets and constants for TLC | |
| `IntentsProofs`, `DesiredStateProofs`, `PublicationProofs`, `ObservationProofs`, `RegistrationProofs`, `AccessProofs`, `StartupProofs`, `CredentialsProofs` | theorems about the module of that name | |

A definition keeps the name of the function it models where it can. `map` in
`PROJECT.json` gives the lines. Definitions introduced by "Mutant of" are faulty
versions used to show that a property can fail.

### Intents and DesiredState

An SQL transaction is one action: the transactions are serializable, a deferred
SQLite transaction whose snapshot is outdated when it first writes fails as a
whole, and a failed one is a stuttering step. `intents` maps every device to a
row, `Absent` standing for none. `UpsertIntent` is a disjunction of its six
outcomes: replay, 409, 428, 412 (which commits the expiry it found), the
host-name error (which rolls it back) and the first acceptance. `replies`
records every 202, except replays of migrated rows, which the code says may
vary. `t` is the time the caller read; `m` the renewal policy in force, in
milliseconds, which the controller truncates to seconds. The initial states
contain rows of the pre-ETag release, as the migration leaves them.

Address lists are the sets they canonicalise to, hashes of them too (no
collisions); error texts are a Boolean; `updated_at` is not kept, as nothing
reads it.

### Publication

`phase` is the program counter of `RunOnce`. Every database call may fail; the
code then goes on with what follows it, and so does the model. An update is on
`wire` from the exchange until P0 disposes of it; `live` says that the publisher
still waits for it. The authorities are asked for A and AAAA one after the
other, with transfers finishing in between. `LateUpdates` says whether P0 may
handle updates out of order, which separate TCP connections and worker threads
permit. The controller is represented by the table's own actions (`Register`,
`ControllerExpiry`), of which the store allows a subset, by
`StoreImplementsTable`. What the publisher adds to them is allowed too, by
`PublicationImplementsTable`.

`Observation` adds the zones each authority has `served` since the publisher took
up the row at hand. An observation is put together from two answers of each
authority, given at different times; `ObservedEverywhere` says what it shows.

### Registration

`pending` is the agent's file and the only thing it keeps over a crash. The file
is renamed into place and removed without a sync, so a `PowerFailure` leaves none
(an empty or torn file is read as none) or any file that was ever `written`. Keys are
random in the code; the model numbers them in the order they are drawn, which is
only used to say which request is newer. A request in `calls` is in the network
(`time = 0`) or in a handler that has read the clock. A request that stays in
`calls` for ever is lost. `TimeOut` also stands for a 202 or 412 whose answer is
unreadable or whose pending file cannot be removed: in each case the agent tries
again with the file it has. `Fetch` takes the GET, the new key and the writing
of the file as one step at the moment the handler reads the row: everything else
in it is the agent's own, and `getStatus`'s expiry with a later second read is
`Sweep` followed by `Fetch`. An agent that exits on 409 is restarted by systemd.
Agent and controller share one clock, and the renewal interval is shorter than
the lease.

### Startup

`db` is what is committed. A process that migrates works on its `view` of the
database, taken at its first statement; it gets the write lock at its first
write, which fails if another process has written since (`Outdated`), and the
process then ends and is started again. Which expression `Copy` uses for the
precondition depends on `inspected`, the layout found before the transaction
began, as in the code. A layout is a name for a set of columns: of the release
before ETags, of a release with retention columns and their index, or the
current one. `Accept` is a first acceptance of module `DesiredState` reduced to
the row it adds. `file` is the clock file of the controlled tests, which is
unreadable while it is rewritten and may hold any instant after that, also an
earlier one, which the code adopts like any other; a process that starts while it
is unreadable fails (`RefuseClock`), and one that runs keeps `last`, what it last
took from the file.
`Exit` is every failure that the model does not force, at any point.

### Access

A connection is what TLS knows of its peer, the list of URIs, authority and end
of the leaf, together with the request it carries. In file mode `Resolve`
decides at once, by the places of the device URIs in the list (`DeviceURIs`):
there must be one; in spiffe mode `ResolveRequest` checks the credential against
the present bundle and asks the registry, which decides by `fleet` and whose
decisions may be delivered late, to another question (a repetition), or never.
The registry is external and may err in the host name; it gives a device to one
workload at a time. `since` records, per request, what was true at some time
after the request arrived; the properties compare it with what was authorized.
A header is the list of its values, an address list the list of its items, so
that repeated and malformed ones are there to be refused; bodies that are no
JSON document and keys of the wrong form are part of `RefusePut`. Not kept:
`NotBefore`, and the separate clocks of authentication and leases (in
production both are the wall clock).

### Credentials

One action per system call that matters after a crash. `fixed` says whether the
directory entry of the tree has been synced, `synced` the entries below it;
`Survivors` is what a power failure may leave. `Handoff` takes the key from a
primary that serves. `Recover`, by the operator, clears a partial first
initialization, never one whose keys have been used; `LoseBase` takes the
credentials away from a host that has DNS data, where the script must refuse.

### Abstract specifications

- `IntentsSpec` (module `Intents`): what the intents table allows. Implemented by
  `DesiredState` and by `Publication` (both proved, the first also checked).
- `Spec` of `DesiredState`: what the store allows its callers. Implemented by
  `Registration` and by `Access` (proved).
- `AnswerLog!Spec`: the idempotency table is a log to which answers are added,
  one for each key. Implemented by `DesiredState` (`AnswersKept`, checked and
  proved: a transaction adds at most one row) and by `Startup`
  (`MigrationKeepsAnswers`, checked and proved: the rebuilding of the table is invisible).
  `log` is mapped to the keys and answers of the rows, without the precondition,
  which the migration may change.

## Runs

| Run | Checks | Result |
|---|---|---|
| `store` | `TypeOK`, `ProgressOrdered`, `ExactReplay`, `GenerationNamesAddresses`, `ProgressKept`, `AcceptedKept`; implements `IntentsSpec` and `AnswerLog` (`AnswersKept`) | holds |
| `publication` | `TypeOK`, `OriginReflectsStore`, `ErrorMeansPending`, `ObservedEverywhere`, with two authorities | holds |
| `publication_late` | `OriginReflectsStore` with updates out of order | **fails**: an abandoned update replaces a newer one for good |
| `publication_live` | `LapsedRemoved`, `EveryGenerationObserved` | holds |
| `publication_fleet` | `EveryGenerationApplied` next to a row that always fails | holds |
| `registration` | `RegistrationTypeOK`, `NeverConflicts`, `SingleSuccessor`, `RefusalFinal`, with crashes and power failures | holds |
| `registration_delayed` | `DelayedWriteRejected` | **fails**: an unchanged renewal keeps the generation, so a request from before it still replaces the addresses |
| `registration_live` | `AgentSettles` | holds |
| `startup` | `TypeOK`, `ServedSchema`, `MigrationKeepsAnswers`, `BothServe` | holds |
| `startup_twice` | `PreconditionsKept` | **fails**: a second migration blanks a precondition |
| `access` | `AccessTypeOK`, `GrantedSinceArrival`, `WithdrawnInTime`, `CredentialCurrent`, `OneIdentity`, `RowsNamed` | holds |
| `credentials` | `TypeOK`, `OneKeyEver`, `ReleasedDurable`, `TransferKeysAgree` | holds |

The failing runs are described under `findings` in `PROJECT.json`, each with the
sentence it contradicts. All are narrow: the delayed write needs the device to
return to its old addresses while a request is held up, and the next renewal
repairs it; the late update needs P0 to outlive the publisher's patience by a
whole pass; the second migration needs the publisher to stand still between two
statements while the controller migrates, starts and accepts a request.

Six behaviours of the code bound what the properties can say:

- A renewal policy below a second is stored as 0 and then taken for "not
  stored", so a replay gives the policy in force, although the comment there says
  that new requests keep the original value: `ExactReplay` is checked and proved
  for policies of at least a second.
- As many rows as a work list holds, if all of them fail for ever, keep every
  later row out of it: `EveryGenerationApplied` is about fewer.
- An observation asks for A and AAAA in two messages. If an authority that is
  behind ends a transfer of an older zone between them, a generation can be
  called publicly observed although no authority ever served its address set as a
  whole: stated for whole address sets, `ObservedEverywhere` fails. It is stated
  for each RRset.
- An observation compares address sets, not generations: agreement with an older
  generation's equal set is reported as observed.
- A replayed answer whose lease ends before the next renewal, but has not ended
  yet, is slept past: the agent renews at once only a lease that is over.
- A credential script that was killed between the rename and the sync of the
  base is followed by one that accepts the tree and never syncs it:
  `ReleasedDurable` has this exception, and no other.

### Bounds

- `MaxGeneration` (2–6), `MaxTime` (1–2) and `LeaseDuration` (1–3) let a row be
  inserted, renewed, changed, expired and taken again. A write must leave one
  generation below the bound, so the bound never blocks an expiry.
- Two address sets are enough for change, return and equality of different
  generations. Liveness runs use one set: the order of generations does not
  depend on more.
- In `store` one of two keys may belong to the row found at the start, the other
  to a later request. A race for the compare-and-set needs three: one for the
  request that made the generation and two for the requests computed from it.
  `registration` has them: the row found at the start has one, and an agent whose
  file was lost, or that dropped a request, draws the others while the first is
  still under way. `SingleSuccessor` is checked there.
- `publication_fleet` uses two devices, the first outside the zone, and lists
  that hold both. That the limit of a list bites next to a failing row needs three
  devices, too many for the check of liveness.
- `publication`: two authorities and both address families, so that an answer of
  one can be behind that of the other, and A behind AAAA; four generations.
- `MaxWire` 2 lets an abandoned update meet a newer one; `MaxCrashes` 1 and
  `MaxMoves` 2 let a crash or a return to old addresses fall between any two
  steps.
- `registration_live` has no crash and no move, so that only timeouts, replays
  and refusals can keep the agent from settling; six keys suffice for every
  behaviour of that instance, as the run shows: with too few it would fail.
- `startup`: both processes, one unforced failure each, every layout, two keys,
  and one rewriting of the clock file (`MaxWrites`), to any of two instants.
  The layouts and rows of the first state are all there are for these keys.
- `access`: two connections, an old and a new workload instance, two authorities;
  two registry queries are enough for a decision to meet the wrong question, one
  tick for a leaf or a decision to expire. `Skews` is {0}, as other sets
  multiply the states; `AccessWithdrawn` is proved for all of them. An
  address list is longer than `MaxAddresses` in one case of each.
- `credentials`: two files per tree, so that a tree can be half there, and three
  draws: one is lost, one is used, and a third would be the replacement.
- The clock stops at `MaxTime`; `CHECK_DEADLOCK FALSE` is used for the store and
  the registration runs, which end there or at the last key.

### Fairness

`Publication`: the publisher's steps and P0's disposal of updates are weakly
fair (ticker, restart on failure in `update-controller.nix`, TCP timeouts). What
may fail, namely a database call, an exchange, a query, is strongly fair: it
does not fail every time it is tried, per device. Zone transfers are weakly fair
(NOTIFY and the refresh timer). Crashes are bounded, so they end. `Registration`:
the agent's own steps are fair, and delivery and handling of its open request
are strongly fair, because `Run` retries without limit. `Startup`: each process
is weakly fair in its steps, being started again when it fails
(`Restart = "on-failure"`) and waiting for a busy database; unforced failures
are bounded, so they end; a test that has truncated its clock file also writes it.
`Access` and `Credentials` state safety only: nothing makes a request arrive, or
an operator recover a host.

## Proofs

The theorems hold for every set of devices, host names, address sets, keys,
answers and policies, every lease and every bound.

The tables (`IntentsProofs`, `DesiredStateProofs`):

- Every operation of the table replaces a row by one that *follows* it
  (`Follows`: generation, progress and the meaning of a generation only move
  forward). `TableStep` shows this together with the inductive invariant
  `TableInv == IntentsTypeOK /\ ProgressOrdered`; the typing is needed because
  the comparison of generations is. `TableCorrect`, `GenerationsName` and
  `ProgressNeverLost` follow.
- `NamesStep` shows that no two rows have one host name (`OneRowPerHostname`), on
  which the proof about the publisher rests. It needs `AbsentBare`, that a missing
  row has no addresses: otherwise expiry would create it.
- `StoreImplementsTable`: each outcome of `UpsertIntent` is a write, an expiry
  or nothing for the table. The table's theorems are inherited.
- `SingleSuccessor` and `AcceptedKept` need the relation between the two tables
  (`RowsKept`: a stored answer's generation is at most the row's, and if equal
  has its addresses), one row per key, and that every answer is a stored row
  (`StoreInv`). A new row cannot be a second successor: the first would have
  pushed the row's generation above the one the second was found to hold against.
- `StoreReplaysExactly` assumes policies of at least one second and shows that
  every answer *is* the stored row.
- `StoreKeepsAnswers`: the store implements `AnswerLog`. Only an acceptance
  touches the table, and it happens only if no row has the key (`AcceptRecords`);
  that two rows of the first state have different keys comes from `Init`.

The start-up (`StartupProofs`). `ServedSchema` is not inductive: a commit replaces
the whole database by the view of one process. `StartupInv` adds that only the
holder of the lock is past its first write (`LockHeld`), what it has made of the
committed database by then (`Rebuilding`), what a process can count on once it
has passed a statement (`Prepared`: layouts never go back). `StartupSafe`,
`StartupTyped` and `MigrationInvisible` follow; for the last, `CommitKeepsAnswers` shows that a copy
keeps key and answer of every row even where it blanks the precondition.

The keys (`CredentialsProofs`). `CredentialsInv` adds that a host with DNS data
never stages a tree and that a tree in place holds the key in use (`Kept`), what
is on the disk at each step (`Placed`), and that a key in the operator's hands is
the one the primary has used (`Carried`). `KeysNeverReplaced`,
`ReleasedTreesDurable` and `TransferKeysAlwaysAgree` follow.

The publisher (`PublicationProofs`). Two invariants, because what P0 serves
depends on how it treats updates and the rest does not.

- `PublicationInv` holds for every P0. The publisher acts on rows it read
  earlier; `BatchOK` says what is still true of such a row: its name, that its
  generation is not ahead of the table's and names the same addresses if it is
  the table's, and that the row is not applied while it is on the list of rows to
  publish, since nobody else marks rows as applied (`Quietly`). Without the last,
  a failure recorded late could put an error on an applied row. `WorkOK` says
  that the only live update is the one sent last. `PublicationErrorMeansPending`,
  `PublicationTyped` and `PublicationImplementsTable` follow.
- `OriginInv`, for updates handled in the order they were sent (`~LateUpdates`;
  without it the run `publication_late` has a counterexample), adds that the live
  update holds the row at hand (`LiveUpdate`), that when it has been applied P0
  holds that row and nothing is on the wire (`JustApplied`), and that no update on
  the wire is about an applied row (`NothingStale`). A mark is then made while
  nothing is under way, and what is sent later is about rows that are not applied:
  one row per host name makes sure of that. `PublicationReflectsStore` follows.

The observation (`ObservationProofs`). `ObservedByAll` compares the answers with
the row at the time of the mark, not with the row that was read. `ObservationInv`
adds to `PublicationInv` that every question counted in `queries` was answered
from a zone in `served` with the RRset of the row at hand; a mark that changes
anything is about a row whose generation is still the one that was read
(`BatchOK`), and a generation names one address set.

The agents (`RegistrationProofs`). Neither `NeverConflicts` nor `RefusalFinal`
mentions the pending file, yet both rest on it. `RegistrationInv` says that every
request in the network and every answer in the idempotency table goes back to
something once written to the file (`CallsWritten`, `RowsWritten`), that a key was
written with one content (`WrittenOK`; keys are drawn upwards, also after a power
failure brought an old file back), and that the precondition of a refused request
is dead (`RefusedDead`: the generation it names is past for good, which uses
`Follows`). `RegistrationImplementsStore` carries the store's theorems over to
lost, delayed and repeated requests.

The identities (`AccessProofs`). `AccessInv` says, for every stage of a request,
what is known of it (`RequestOK`), and that no two open questions share a nonce
and no decision has one that is still to be used (`NoncesFresh`). The second is
why a decision for another question is of no use: `GrantedAt` holds of every
decision with the nonce of an open question, because that decision was made after
the question was asked. When the decision is consumed this turns into
`GrantedWithin`, from which `AccessGranted` and `AccessWithdrawn` follow, for
clocks that differ by anything in `Skews`. `AccessCredentialCurrent`,
`AccessOneIdentity` and `AccessRowsNamed` follow from the other parts, and
`AccessImplementsStore` carries over the store's theorems.

Every inductive invariant was checked with TLC on the instance of its component's
run before it was proved.

Only model-checked: all liveness (`LapsedRemoved`, `EveryGenerationObserved`,
`EveryGenerationApplied`, `AgentSettles`, `BothServe`), as fairness and `ENABLED`
are outside the prover's reach. The counterexamples of the three failing runs are
TLC's as well. Every invariant and every safety property of the passing runs has
a theorem.

Assumptions on the constants are in the named `ASSUME`s of each module: device
identifiers are ordered, the empty set is not a payload, leases are positive,
identities are injective and renewal intervals shorter than the lease
(`Registration` only), a blank precondition is none a request can have
(`Startup`). `Access` assumes that a decision's lifetime and the length of an
address list have a positive limit, that a URI which is read as a device's or an
updater's names one (what the patterns of `identity.go` and `workload.go` accept
is what counts as a name), and that every small enough set of usable addresses is
one a device can ask for, so that the set `ValidateAddresses` makes of a list is a
payload of the store.

## Not modelled, and the plan

Left to state and prove: with late updates, that P0 only ever serves address sets
the row of that name has had. It needs a history variable in `Publication`.

Left to check: `registration_live` with a crash, and `access` with skewed clocks,
both of which need more than the present state spaces allow.

Not modelled:

- `lan-credentials.py`, the variant for a single host: the same steps as
  `lan-host-credentials.py` without import and without the look at the DNS state.
- The digits of an ETag, the ranges of the address policy and the grammar of
  SPIFFE identifiers: pure functions of text, abstracted to what they accept.
- Flag and environment parsing (`internal/cliutil`), and the wiring of the agent.
- TLS, TSIG, X.509 verification, message encoding and JSON: external, or
  abstracted to success and failure.
- Knot, the registry, the Workload API: external; modelled as far as the code in
  `dns/` depends on them.
- Nix configuration beyond restarts and dependencies of units, the test harness,
  its reports and the web site: no state of the running system.

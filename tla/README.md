# AgentWharf: a verification development

AgentWharf connects people's clients to coding agents that run elsewhere. A *Hub* sits in the middle. An *Adapter*
runs beside each agent, connects to the Hub and speaks for one *Session*: it sends the Session's events, and receives the
commands clients send. A *Store* (SQLite or PostgreSQL) keeps the Session's events, commands and connection authority.

This directory models the parts of that system whose correctness depends on the order in which several actors step,
crash and retry. The modules are written from the code, definition by definition; `PROJECT.json` maps each to its lines.

## Inventory

| Part | State | Operations | Talks to |
| --- | --- | --- | --- |
| Connection authority (`store/sqlite`, `hub/connection_dispatch.go`) | connection row (epoch, fence, credential generations), live writer, fence allocators, the Hub's admissions | initialize, hello, grant, rotate, activate, terminate, validate; open, close | every effect of an Adapter |
| Pending commands (`store/sqlite`, `hub/websocket.go`) | ledger row per command, pending clients, accepted IDs, timers | commit, claim, write, acknowledge, give up, list and redeliver | authority, event log |
| Event log and fan-out (`hub/websocket.go`, `hub/event_batcher.go`, `hub/bootstrap.go`) | log, publication gate, subscriptions with replay buffer | append, propose, broadcast, subscribe, replay, go live | clients, Adapters |
| Settings, run-control and file-reference ledgers (`store/sqlite`) | one row per command with its writer | reserve, deliver, finalize, recover, fence | authority, event log |
| Attach attempts, warm attach, attachments | rows with deadlines | commit, join, claim, deliver, expire | authority, machine server |
| Workspace leases, Provider-start admission (`store/sqlite`) | lease row with a version, the transaction around a start | reserve, start, quarantine, release, expire, admit | Session workers |
| Routing from memory (`hub/websocket.go`) | windows of accepted IDs and of decided requests, buffer for an absent Adapter | preflight, persist, route, buffer, flush | Adapters, event log |
| Credential rotation (`hub/websocket.go`, `auth`, `adapter/core/reconnect.go`, `cmd/agentwharf/credential_rotation.go`) | active and pending credential at three places | request, prepare, possess, activate, converge | authority |
| Adapter's Hub connection and coalescer (`cmd/agentwharf/hub_connection.go`, `event_coalescer.go`) | socket, outstanding proposals, pending text and its timer | push, flush, write, read, reconnect, replay proposals | Hub |
| Wrapper (`cmd/agentwharf/main.go`) | five goroutines around one Provider, accepted commands | start handshake, command, stop, heartbeat, return | Hub, Provider |
| ACP settings (`cmd/agentwharf/acp_settings.go`) | tracker of readbacks, change in execution | launch, read line, execute, publish | Provider, settings ledger |
| Process supervisor, Session worker, process tree, group (`adapter/core`) | current process, backoff, locks of a start, manifest files, members | start, confirm, stop, restart, quiesce, recover | Provider process, rotation |
| Attention (`store/sqlite`, `hub/websocket.go`, `hub/activity_dispatcher.go`, `client-ts`) | summaries, subscriptions, scan, the client's copy | project, backfill, snapshot, broadcast, expire, refresh | event log, clients |
| Machine server (`cmd/agentwharf/machine_serve.go`) | dispatch files, guard, workers, adapters | claim, save, launch, recover, first instruction | Hub, Adapters |
| PostgreSQL store (`store/postgres`) | the same rows, row and advisory locks | the transactions of the above, statement by statement | everything |
| Client library (`client-ts`) | sockets, cursor, lane of sealed events, history page, command | connect, replay, page, send, acknowledge, reconnect | Hub |
| End-to-end encryption (`experimental/e2ee`) | command journal, key vault, membership | admit, execute, finish, rotate | commands |

The hard behaviours are listed with their lines under `hazards` in `PROJECT.json`. In short: two Adapters of one Session
at a time; a store that loses its latest commits in a power failure but not the fences it handed out; a delivery timer that
races an acknowledgement; a request of an Adapter that was replaced; a Hub that dies between claiming and delivering; a client that replays while events are published;
publishers that give up waiting for their turn; and steps that fail between a commit and what must follow it.

## Modules

**`SessionWriter`** is the abstract promise about a Session's Adapters: at most one connected holder speaks for a Session, and
one that lost its authority never speaks again while it stays connected.

**`AdapterConnection`** is the detailed machine: the SQLite rows, the two fence allocators, and the Hub's admission chain.
Each store method is one transaction on a single connection, so it is one action. What lies outside that transaction
is a step of its own: the fence comes from another database file and survives a rollback, and a grant is
allocated in one step and copied to the main database in the next. `synced` is the image that a power failure leaves of the
main database (WAL, `synchronous=NORMAL`); `PowerLoss` returns to it, while `sideNext` (`synchronous=FULL`) stays. `Crash`
loses only the Hub's memory. Credential generations, fences and the clock are bounded by `MaxGen`, `MaxFence` and `MaxClock`;
`MaxFence` plays the part of the largest int64 that the allocator's statement checks for.

**`CommandDelivery`** is the ledger of `session.send` and the goroutines that use it: one per client request, one per Adapter
socket (admit, publish, list, deliver, then read acknowledgements), a timer per delivery, and the rejections that follow an
unregistered Adapter. `required` is the Session's content mode; the encrypted one has no cache of accepted IDs and uses other
ledger calls. `authority` is the Adapter that `AdapterConnection`'s row names. Resolving a command as unknown is an action apart from the
decision to do so (`resolving`), because the code takes the pending client under a mutex and calls the store after releasing it.

**`EventStream`** is the log, the publication gate (a chain of tokens; a caller that gives up leaves a goroutine behind to pass its
turn on), the publishers, and a client connection from subscription through replay and its bounded buffer to the live stream.
`Paths` switches on the code paths that write the log without the gate or leave it without publishing. A message with file references
is sent under the number `LatestSeq` returns after its commit, which may be another event's: `borrowed` remembers those.

**`LedgerSession`** is what the three ledgers below share: the writer of a Session (one number per accepted hello, which stands for
its epoch, generation and lease), the connection commands are sent to, the sockets that are still read, and the log.

**`SettingsLedger`** is a change of settings from the client's request to its `session.settings.effective` event. Each store call is an
action, and so is each frame that may fail after it. The Adapter is one process behind all its connections: `unacked` are the capability
proposals it has no receipt for, `replay` those it has yet to send again on its present connection. Publishing a capability takes three
steps (row and cache, recovery of another writer's request, receipt), and the connection or the Hub may be lost between them. A deadline is the
flag `late` of the row. With `StoreFails` the store calls of a publication may fail, and `unrecovered` remembers a recovery that did.

**`RunControlLedger`** is an interrupt or a stop: capability, reservation against the Session's latest state, delivery, outcome, and the
fence of a hello that ends the previous writer's reservation. `sealed` is the required content mode, where the Hub commits the
opaque outcome first and ends the row afterwards.

**`FileReferenceLedger`** is a message with file references. Its client handlers are processes, since what it has to get right is two
connections that send the same command, and a hello between the handler's choice of an Adapter and the binding of the row.

**`CredentialRotation`** renews one Adapter's credential through five places: the Adapter's rotation manager and its candidate set, one
socket with its frames, the Hub's two handlers, the issuer in memory, and the store's row. Any frame may be lost with its link, and the Hub may restart.

**`WarmAttach`** hands a target Session to the Worker of another: bearer, join socket, the store transaction, the one-second context after
it, claim and delivery, for repeated commands of one grant.

**`GroupSupervisor`** is the membership of a process that runs several workers: by Session and by workspace, admitted or recovered, and the fence that
takes a recovered worker out when its run returns. `lifecycle` is the lock of `ConnectionAuthorityLifecycle` that spans the run of a worker
recovered by receipt; one recovered by start handle has no such lock, and its fence compares only the source of the handle.

**`WorkspaceLease`** is the row that says who may run a Provider in a workspace. Each transition is asked for with a version read earlier, so that
calls may come late or twice; `WithProviderStartAdmission` keeps the store for itself while its callback starts the process.

**`CommandRouting`** is the path of the commands no ledger keeps, permission decisions above all: the two windows that recognise repetitions, the buffer for an Adapter
that is away and its flush, under `commandMu`, while Adapters come and go.

**`SessionWorker`** is one Provider process: `ProcessSupervisor.Run`, `SessionWorker.Run` and `Stop`, the forwarder of process events and
a command, as goroutines that share the authority's lock; `Run`'s admission and the step that clears `stopped` are apart, since a `Stop` may fall between
them. **`ProcessTreeOwnership`** is what it rests on: the manifest and its
record files, each write a step that may fail or be the last one before a crash, against processes that fork and exit by themselves.

**`ProviderOutput`** follows what the Provider says through the coalescer, its timer, the table of proposals and a connection that dies and is replaced.
**`WrapSession`** is the run around one Provider, with five goroutines and the Hub's side of the start handshake.
**`AcpSettings`** is the Adapter's tracker of the Provider's settings, between the reader of its output and the command loop, on a connection that may
die (`hublink`) and is restored by whichever goroutine finds it dead.

**`MachineServe`** claims, launches and recovers Sessions, with its dispatch files as the only state that a restart keeps.
**`Attention`** joins the projection of events in the store, the Hub's subscriptions, the dispatcher's scans and the client's copy. The last check of a grant and
the write behind it are two steps, and a caller that joins a refresh adds to what its scan owes.
**`ClientSession`** is the TypeScript client; each callback is a step, and a replaced socket keeps its handlers.

**`PostgresTransactions`** writes each operation of the PostgreSQL store as the sequence of its statements: a statement waits for its lock, is decided
on the rows committed by then, and its writes appear at commit. The other modules take a store operation as one step, which SQLite's single
connection justifies; this one asks what the same operations may do to each other when they overlap. A transaction that waits for another
in a circle is one that may abort, like one whose caller gives up.

The eight `Proofs` modules (`AdapterConnectionProofs`, `CommandDeliveryProofs`, `CommandRoutingProofs`, `EventStreamProofs`, `FileReferenceProofs`, `RunControlProofs`,
`SettingsProofs` and `WorkspaceProofs`, the last about `GroupSupervisor` and `WorkspaceLease`) hold the theorems; see *What is proved*.

The `MC` modules instantiate these. Components that do not share variables are checked side by side in one run: `part` (in `MCLedgers`, `kind`) says which one a
behaviour is about, the others keep their initial state, and the `VIEW` leaves those out. Definitions
commented "Mutant" are plausible faults of the definition after them; they are used by no specification and serve to
show that each property can fail.

## What the runs check

| Run | Instance | What it shows |
| --- | --- | --- |
| `adapter_connection` | 1 Session, 3 leases, 3 generations, 6 fences, clock 0..2 | with crashes and power failures anywhere: the store opens and its rows stay readable (`StoreStaysUsable`), no fence is used twice (`FenceNeverReused`), an epoch and generation name one hello (`CommandAuthorityUnique`), the admission check lets in the row's Adapter and nobody else (`AdmissionIsTrue`), and the refinement of `SessionWriter` |
| `hub_core` | delivery: 1 command in either content mode, 2 Adapters, 2 requests, Hub restarts; stream: 2 publishers, 1 client, 3 events, a buffer of 2; the same with all paths around the gate on 2 events; the gate alone with 3 tokens | a command has one event and is written to an Adapter at most once, also when its ID has left the cache, and "accepted" is final and true (`AtMostOnce`, `OneEventPerCommand`, `AcceptedIsCompleted`); on the gated paths a client gets every event behind its `last_seq`, in order, once (`GatedReplay`, R5 of the specification); on all paths what it gets is in the log, each number once unless a file message borrowed it (`SentFromLog`); one publisher at a time (`OnePublisher`) |
| `ledgers` | 2 hellos, a log of 4, 1 command per ledger, 2 senders | every row ends once, with its own event (`SettingsOneTerminal`, `ControlOutcomeIsTrue`, `FileOutcomeIsTrue`); no Adapter answers for another's request, and none stays pending behind a later publication unless its recovery failed (`RequestsEndWithWriter`, `PendingControlIsLive`, `BoundFileIsLive`); "applied" is what was read back (`AppliedIsReadBack`); a completed control changed the state it was reserved in |
| `adapter_process` | 1 restart, event channel of 1; a tree of 3 processes with an inventory of 2; 2 items over 3 connections; 2 start attempts, 1 command sent twice | no effect after the authority is lost, and a released lease has no observed child (`WorkerAnswersForEffects`); a manifest that says clean has no owned process left and a quarantine survives everything (`OwnershipIsHonest`); output is in the log once or accounted for, and in order but for what a reconnection replays late (`OutputDelivered`); a stop's outcome is settled and a Provider that runs was admitted (`WrapperKeepsWord`) |
| `clients_and_store` | 2 sockets, 2 events, 2 sends; 1 Session over 2 starts of the daemon; 2 transactions in any pair; 1 workspace, 2 targets, 4 lease versions | the client's cursor passes no event its caller was not given, unless it was waived or the Hub passed over its number, and a newer capability or a known outcome is not taken back (`ClientLosesNothing`); one adapter and one first instruction per Session (`DispatchIsExclusive`); a transaction's checks still hold when it commits (`TransactionsHold`); a live Provider has its workspace to itself (`WorkspaceIsExclusive`) |
| `hub_protocols` | 2 rotations over 5 clock ticks, 1 fault; 2 attach commands, 1 Hub restart; 1 ACP change with 1 lost connection; 2 Sessions in one workspace, 2 callers; 2 Sessions followed over 2 sockets; 2 decisions, windows of 1, a buffer of 2 | the Adapter always keeps a credential that works (`RotationIsSafe`); a bearer is written once (`HandoffIsExact`); what is reported of a change, and the capability the Hub is left with, are the tracker's (`ReportsAreTrue`); the group's maps agree and a late fence removes only who rests on the same receipt or source (`GroupIsConsistent`); a summary that calls itself complete is, and is written under its grant (`AttentionIsTrue`); the first decision stands (`DecisionsAreFinal`) |
| `progress` | smaller instances of delivery, stream, worker (a stopped one and one under commands), attach, output, wrapper and ACP settings, under fairness | but in the states listed below, every call returns and everything sent arrives (`NothingWaitsForever`); a received command has an owner (`ReceivedHasOwner`) |

The bounds are the least at which the interesting cases meet. Three leases let two Adapters race while a third is benched; six
fences allow two hellos with their grants, a lost image and the refusal at the limit. Two Adapters and a restart are what a
redelivery needs. A log of three with batches of two and a buffer of two reaches overflow, an overlap of
replay and live events, and a second drain round. Three tokens are two waiters behind a holder, one of whom gives up.
Two hellos are a replaced writer, and a log of four holds two capabilities, or a capability, a state and a completion, around one outcome.
An inventory of two in a tree of three is one process too many. Three connections are a link that breaks during the replay after a break. Two transactions
are every pair of operations; three would only repeat them, since each lock is held by one.

Some instances restrict their environment further, each in the `MC` module concerned. In the group, one Session (`Lively`) has its authority replaced and revoked and is
recovered by start handle; the other only competes for the workspace. A store call of a settings publication fails only while a request is pending, since otherwise it leaves
nothing to recover. An ACP connection is lost only where the launch asks for nothing. In `progress` the worker is checked twice, with any stop and no command, and with
commands and no caller's stop, and its view forgets what cannot matter there (`WorkerView`).

Five further runs show where the code and what is written about it differ:

| Run | Property | Disagreement |
| --- | --- | --- |
| `command_delivery_restart` | `ReceivedIsResolved` | a received command that expires before an Adapter is back is never listed, and stays received |
| `command_delivery_retry` | `RetryIsDuplicate` | an identical encrypted retry is an error, not a duplicate |
| `event_stream_fence` | `Contiguous` | outcomes appended by a hello are never broadcast |
| `settings_deadline` | `DeadlineFinalizes` | no deadline of a settings request is acted on while its Adapter stays connected |
| `file_reference_resend` | `FileReferenceDeliveredOnce` | a duplicate that is still pending is routed again |

`findings` in `PROJECT.json` quotes the sentences concerned. `event_stream_fence` uses `Paths = {"fence"}`. The other three paths break
`Contiguous` as well when they are selected in its place: a run control recovered outside the gate can be overtaken and is then dropped by
the last-seq check (`hub/websocket.go:1799`), and an event whose receipt or `afterCommit` fails is committed and not broadcast (1692, 1478).

One more sentence does not hold and has no run of its own. The comment of the PostgreSQL stream lock (`store/postgres/store.go:3762`) says that every path takes that
advisory lock before any row lock, "no exception to it"; `CommitPendingCommand`, `PublishSettingsCapability`, `SettingsCommandReserve`,
`AcknowledgeSettingsCommandDelivery` and `FinalizeSettingsCommand` lock the authority row first. `PostgresTransactions` has both orders. Two such transactions may
wait for each other until PostgreSQL aborts one, which changes no row.

## What the code does not promise

The properties are stated so that they hold, and name their exceptions where the code has some. These are behaviours a reader may not expect.

- *Delivery.* A delivery loop gives up a command that another goroutine is just delivering, so that its acknowledgement in time settles nothing
  (`hub/websocket.go:3308`).
- *Event stream.* A file-reference message is sent under `LatestSeq`, read after its commit, and so perhaps under a later event's number; that number may then go out
  twice, or its own event not at all (`SentFromLog` excepts `borrowed` numbers).
- *Settings.* When a store call of the recovery fails, the predecessor's request stays pending until another capability is recovered or the Hub restarts (`unrecovered`).
- *Run control.* In a sealed Session a hello between delivery and outcome leaves two outcome events of one command (`hub/websocket.go:1934`).
- *Decisions.* A Hub restart forgets them, as `spec/v1.md:718` says; a decision evicted from its window may be taken again.
- *Workspaces.* Admitting a start again does not change the lease's version. A late fence of a worker recovered by start handle removes a newer member under
  the same source; only a recovery by receipt is told apart by its receipt.
- *Process tree.* A `Stop` between `PrepareStart` and the spawn finds the owner clean, and the Provider spawned after it is not owned (`unowned`).
- *Output.* A reconnection publishes its socket before it replays, so a replayed event may be in the log behind a later one (`OvertakenByReconnect`).
- *ACP settings.* A capability published while a reconnection draws a fresh one is overtaken by the older one (`raced`); a change may be given the late answer of a
  launch request with the same id (`mistaken`).
- *Client.* The cursor follows the events it is sent over the numbers the Hub passed over, and no reconnection asks for those.
- *Attention.* A caller that joins a refresh is told of its success although the scan may have passed the row it asks about. A grant lost between the last check and the
  write is not noticed; that one frame goes out.

`NothingWaitsForever` excepts five states in which the code does wait for ever or goes on when told to stop. TLC finds a counterexample when any of them is left out.

| State | Entered at | What waits |
| --- | --- | --- |
| `FenceLeaked` | `adapter/core/supervisor.go:294-299` | rotation and commands, for a start fence nobody gives back |
| `StopForgotten` | `supervisor.go:209, 351`; `session_worker.go:398-402` | the end of a Provider, whose Stop came before the child was current or before `Run` cleared its mark |
| `StartUnanswered` | `cmd/agentwharf/main.go:2576-2593` | the start handshake, for an answer that was skipped or came before the preparation |
| `ReturnMissed` | `main.go:2434-2452` | the main goroutine, after an encrypted stop that failed |
| `SelfLocked` | `main.go:2341` | a goroutine that restores the connection while it holds `settingsMu` |

## Fairness

Safety runs use no fairness. `progress` assumes that goroutines are scheduled: weak fairness of each publisher, handler, worker and loop, of
timers, and of an Adapter that reconnects in its loop; their store calls and socket writes have deadlines, so that a step which may fail
always ends. Goroutines of one part that take turns share a condition. No client is assumed to
read, no acknowledgement to be sent, no socket to live, no Provider to answer or to exit unless it is killed. The delivery's part has no Hub restart (`CalmNext`);
`command_delivery_restart` includes them under `FairSpec`. `FairSettingsSpec` assumes that the Hub's handlers go on, that the Adapter replays its
proposals, answers each frame and reports after its read-back, and that deadlines pass.

Deadlock checking is off where the system may really stop: a process that has returned, or the bounds of the clock, the fences and the log.

## What is proved

TLAPS checks the following for every value of the constants. The assumptions only say that bounds are numbers, that special values are none of the ordinary ones, and
that functions among the constants have their domains; they are named in the module that declares the constants. None of the properties is inductive as it
stands, and each module states the invariant that is.

**`AdapterConnectionProofs`** (`BoundsAssumption`; several Sessions may share the allocators): `TypeOK`, `StoreStaysUsable`, `AdmissionIsTrue`,
`CommandAuthorityUnique`, `FenceNeverReused` and the refinement `ImplementsSessionWriter`. `Inv` adds four facts. `HandedBelow`: every fence handed out is below the side
allocator, so that a new one is fresh even after a power failure. `HoldersOK`: an admission's epoch and fence are not above its row's, and
the one whose fence is the row's is the live writer. `GrantsOK`: a grant lies above its fence and, once held, below both
allocators, which is what the admission check compares. `DownIsQuiet`: a closed store has no holders, so that
a power failure cannot rewind a row below an admission. The refinement also needs `LeasesDistinct`: leases name connections, so a
benched lease cannot speak again under another admission.

**`CommandDeliveryProofs`** (`DeliveryAssumption`): `AtMostOnce`, `OneEventPerCommand`, `AcceptedIsCompleted`, that no step takes a row back to an earlier status, and, under
`CalmNext`, `ReceivedHasOwner`. `Inv` says of every goroutine what it has claimed and what is on the wire: a row is claimed by one goroutine at a time, and a frame
exists only of a claimed row.

**`RunControlProofs`** and **`FileReferenceProofs`** (`LedgerBounds`): `PendingControlIsLive`, `ControlOutcomeIsTrue`, `BoundFileIsLive`, `FileOutcomeIsTrue`. `ControlInv` relates
each row to its events in the log (`Begins`, `Completes`, `Ends`), one unfinished control per Session to the state it was reserved in (`OneControl`, `StateAt`), and
what a sealed outcome has committed (`SealedOutcome`). `FileInv` relates rows, routed frames and log (`FileRows`, `FileRouted`, `FileLog`).

**`SettingsProofs`** (`SettingsConstants`, `LedgerBounds`): `SettingsOneTerminal`, `AppliedIsReadBack`, `RequestsEndWithWriter`. `SettingsInv` says where a publication stands
(`PublicationOK`), that the Adapter's readings and the log agree on order and writer (`ReadingsOK`), what a row's events are (`RowsOK`, `OneUnfinished`), and
that behind a recovered publication no earlier writer's request is pending but an `unrecovered` one (`RecoveredOK`).

**`EventStreamProofs`** (`StreamAssumption`, all `Paths`): `OnePublisher` and `SentFromLog`, and that a replay buffer keeps its bound. `StreamInv` has the chain of the gate (`GateOK`: whoever publishes owns
its first token, and every goroutine that queues has one), that nobody publishes to a connection that replays (`Apart`), that no number is published by two
goroutines (`OwnNumbers`), and per client that what was written is counted or about to be, and what is about to be written was not written before (`SentOK`), the last two but for borrowed numbers.

**`WorkspaceProofs`** (`GroupConstants`, `LeaseConstants`): `GroupIsConsistent` from `GroupInv` (the maps agree, and members and the calls in flight are of a kind their proof
allows), and `WorkspaceIsExclusive` from `LeaseInv` (`RowsInv`; `CallsInv`: a call whose version is still the row's is of the same tenancy; `AdmittedHoldsWorkspace`).

**`CommandRoutingProofs`** (`RoutingConstants`): `DecisionsAreFinal` from `RoutingInv`: what is on its way has room in the buffer (`OnItsWayHasRoom`), a window holds the latest
entries (`WindowIsLatest`), and what waits was ruled on (`WaitingWasRuled`).

Each module but `FileReferenceProofs` also proves its component's type invariant.

Only model-checked are: all liveness, which is out of this prover's reach; `GatedReplay` and the type invariant of the file-reference ledger; the type invariants of the composed
instances; and the properties of `ProviderOutput`, `WrapSession`, `AcpSettings`, `SessionWorker`, `ProcessTreeOwnership`, `CredentialRotation`, `WarmAttach`, `MachineServe`, `Attention`,
`ClientSession` and `PostgresTransactions`.

## Not modelled

Parsing, masking, cryptography, terminals, metrics and the driving of third-party
programs are conversions or input and output. `EventBatcher` is created by its tests only. A store clock that steps back is excluded (rows would become unreadable until it catches
up). Responses to permission requests that name no request are only recognised by their command ID, and left out. The attention backfill is modelled batch by batch with its checkpoint for SQLite;
for PostgreSQL, the rebuild of one Session's summary beside other transactions. The daemon's PID file and the experimental command journal have no module. `components` in `PROJECT.json` lists every part with its reason.

# TLA+ verification of Codebox P0

Codebox P0 lets one operator drive Codex Cloud from a private browser page: one prompt, at most
one cloud task, a diff to read at the end. This directory holds TLA+ models of its state machines,
TLC runs over small instances, and TLAPS proofs for every instance.

Paths below are relative to `src/`. `agent-codex`, `session-runtime` and `domain` are the crates
`crates/codebox-*`; `control-plane` is `apps/control-plane`. `PROJECT.json` maps each definition to
the lines it models and lists runs, mutants, findings, hazards and theorems.

## 1. The system

```
browser page ── HTTP, WebSocket ──> control plane
                                      ├── LoginBroker ───────────────┐ login-ledger.json
                                      └── P0SessionRuntime           │
                                            │ P0CloudControl         ├── credential scope (flock)
                                            v                        │
                                          CloudTaskOrchestrator      │ cloud-lifecycle.json
                                            v                        │
                                          CloudTaskRunner ───────────┘ cloud-submit-ledger.json
                                            v
                                          codex CLI ──> Codex Cloud
```

| Component | State | Operations | Hard behaviour | Correct means |
|---|---|---|---|---|
| Submit ledger (`agent-codex/cloud_submit_ledger.rs`) | one record: operation, bounded phase history, process, task | `append`, `record_*`, `recover`, `validate`, load, atomic replace | crash at any write; rename done but error reported; history full | a stored record is always loadable; an open submit is never replaced |
| Lifecycle ledger (`cloud_lifecycle_ledger.rs`) | one record: operation, phase, task, reconciliation evidence | transitions, `lifecycle`, `validate` | is written after the submit ledger | never ahead of the submit ledger |
| Orchestrator (`cloud_lifecycle.rs`) and runner (`cloud_runner.rs`) | memory copy of the lifecycle, cancellation token, one mutex, a condition variable | construction and repair, `start`, `cancel`, `inspect`, `reconcile_unknown`, `resolve_unknown`, `submit` | the mutex is free while `submit` runs; cancels wait for it; crash between two files | no duplicate task, no false "failed", terminal is final and durable, repair always possible, calls return |
| Session runtime (`session-runtime/runtime.rs`) | one turn, queued work, shutdown and stop flags, behind a mutex; a worker thread | `start_turn`, `cancel_turn`, `reconcile_unknown`, `resolve_unknown`, `shutdown`, worker loop | lower calls are made without the mutex, and their results committed later | one start per turn, snapshot and events agree, terminal published once, turns are attended to, shutdown ends |
| Event stream (same file) | high-water mark, bounded history, subscribers with bounded channels | `append_event`, `subscribe`, receive, drop, close | history overrun, slow reader, stop while reading | replay and live together give each event once; the close reason is true |
| Login broker (`broker.rs`, `ledger.rs`, `runtime.rs`) | active login, login ledger, supervisor thread | `start_device_login`, `status`, `reconcile`, `cancel`, drop | crash between Intent and Started; cancel, exit and deadlines race | never a second login while one is uncertain; none judged while its process lives; every process ends |
| Credential scope (`scope.rs`) | `flock` lease | acquire, revalidate, release | held for the length of a login | login and cloud commands exclude each other |
| Idempotency registry (`control-plane/idempotency.rs`) | entries with waiters, byte count | `admit`, `complete`, `release_auth_session`, eviction | concurrent duplicates, eviction under a waiter | one execution per key while the entry lives; every waiter gets its response |
| Application sessions and lifecycle (`state.rs`) | sessions with leases and expiry; Running, Draining, Complete | create, authenticate, mutate, log out, shut down | logout while requests run; drain waiting for streams | bounded sessions; the drain ends; nothing is admitted after it |
| WebSocket stream (`websocket.rs`) | control state set once by the reader task; last sequence sent | subscribe, replay, live, ping, close | peer, protocol, authentication and shutdown outcomes race | replay, snapshot, live in order, no event after the outcome |
| Browser client (`web/p0-client.js`) | generation, identity, snapshot, cursor, socket | refresh, connect, mutate, apply frames | stale answers, reconnect | shows a state the server was in, never goes back |
| Domain reducer (`domain/reducer.rs`) | session projection | `apply` | none in P0: nothing calls it | not modelled, see section 5 |
| CLI adapter, diff, routes, transport, domain values | none | parse, format, validate | text formats | outside the scope of state models |

## 2. Modules

| Module | Models |
|---|---|
| `SubmitLedger` | the runner's durable record and its operations |
| `LifecycleLedger` | the orchestrator's durable record and its operations |
| `CloudOrchestrator` | orchestrator, runner and both files composed, with crash and restart |
| `CloudContract` | what the `P0CloudControl` trait promises a caller (abstract) |
| `OrchestratorRefinement` | the mapping from `CloudOrchestrator` to `CloudContract` |
| `SessionRuntime` | the session runtime, built on the calls of `CloudContract` |
| `EventStream` | event publication and subscription |
| `LoginLedger` | the login ledger, its validation and its atomic replacement |
| `LoginSupervisor` | the thread that supervises a login child, and the child |
| `LoginBroker` | the broker over both, with the credential-scope lease, crash and restart |
| `Idempotency` | the idempotency registry, as operators on its state |
| `ControlPlane` | HTTP requests, application sessions, draining and shutdown, over `Idempotency` |
| `StreamFrames` | the frames of the event stream and the order they may come in |
| `StreamContract` | what a connection promises its client (abstract) |
| `StreamSocket` | the WebSocket handler, composed with `EventStream` |
| `BrowserClient` | the browser's controller, composed with `StreamContract` and server restarts |
| `CloudOrchestratorProofs` | the invariant and the properties of `CloudOrchestrator`, and that it implements `CloudContract` |
| `SessionRuntimeProofs`, `EventStreamProofs`, `LoginBrokerProofs` | the invariants and properties of these components |
| `ControlPlaneProofs`, `ControlRegistryProofs` | requests, sessions, drain and shutdown; then the registry and the properties of `ControlPlane` |
| `StreamSocketProofs` | the invariant of `StreamSocket`, and that it implements `StreamContract` |
| `BrowserProofs` | the invariant and the properties of `BrowserClient` |
| `MC*` | the instances TLC checks, with their symmetry sets |

The two contracts are where the components meet. `CloudOrchestrator` is proved to implement
`CloudContract`, and `SessionRuntime` makes its lower calls through the actions of that contract.
`StreamSocket` is proved to implement `StreamContract`, and `BrowserClient` receives whatever that
contract lets a connection send.

### State and actions

**CloudOrchestrator.** `submit` and `life` are the two files. `mem` and `token` are what the
orchestrator's mutex guards. A method that holds the mutex throughout is one action. `start`
releases it around `submit()`, so `Start` ends there and the thread goes on with `Submit*`,
`Spawn*` and `StartReturn`, one action for each durable write and each look at the cancellation
token. `cancel` is `Cancel`, a wait (`waiting`, `woken`), and `CancelWake`. Each write is `ok`,
`failed` or `ambiguous` (renamed, then the directory sync fails). A crash between two writes of one
method is its second write failing and then `Crash`. `spawned` and `provider` record what happened
outside: which operation got a child process, and which task that child created, perhaps much later.

**SessionRuntime.** `rt` is what the runtime's mutex guards. Each operation is split where it
releases the mutex for a lower call; `worker` and `caller[c]` keep what the thread carries across.
`minted` and `entered` record which turn identifiers were handed out and which operations were
started for each. Poll delays and the one-second retry of a cancel are left to scheduling.
`read_diff` changes no state and is left out. Crashes are in `CloudOrchestrator`: the runtime keeps
nothing on disk, and `Init` contains each lifecycle that a restarted runtime can find.

**EventStream.** An event is its sequence number. A receiver keeps what it was given (`got`) and
what waits in its channel (`queue`), which it still drains after it was closed. Requests for a
cursor range over every sequence number, the future ones included.

**LoginBroker.** `disk` and `temps` are the ledger file and the temporary files that failed writes
leave behind. `sup` is the supervisor thread with its unbounded event channel, `child` the process of
each operation, `auth` what the provider believes. `bk.pc` is where the thread that drives the broker
is: each call of `start_device_login`, `status`, `reconcile` or `cancel` is cut at every durable write,
every wait for a supervisor event and every status command. `lease` is the `flock`, which cloud
commands also take. A crash kills thread and broker and frees the lease; the child dies later, by the
parent-death signal, which is why the code waits for it.

**ControlPlane.** Sessions, registry and lifecycle have a mutex each, and a step is what is done under
one of them. `req[r]` is an HTTP request (bootstrap, mutation, logout, read or stream) with its handler
and, for the first request of a key, its detached worker; the two share an admission that the last of
them drops. Expiry may happen at any moment. The lower effect of a mutation is left to `SessionRuntime`
and `LoginBroker`: here it is the execution that an idempotency key must not get twice.

**StreamSocket.** `sock[c]` is the task of a connection, the control state its reader sets once, and
the blocking subscribe it spawned. A write is two steps, the check and the completion, because the
rest goes on while it is awaited. `wire[c]` is what the client has seen.

**BrowserClient.** A step is one task of the browser's event loop. `op` is the suspended call that
awaits an answer, `busy` and `abort` are `state.busy` and whether `currentAbort` is set, and `late`
counts the requests that `enterBootstrap` aborted and that have not settled: each of them still runs
`discardFinishedHttp`, under whatever operation is current by then. The network holds up to
`MaxInFlight` frames. A restart of the server is a new instance, session and sequence, while page and
session storage survive; a reload is a new page with the old storage.

## 3. Runs

| Run | Instance | Shows |
|---|---|---|
| `orchestrator` | 2 operations, 2 tasks, 1 canceler, fair | all safety properties of the ledgers and the orchestrator, and the inductive invariant; `start` returns and every waiting `cancel` is released; the whole implements `CloudContract` |
| `session` | 2 turns, 2 operations, 2 callers, the sequence may come near 2^64 | one start per turn; snapshot, events and lower state agree; active turns are attended to; a terminal lifecycle is published once; a stopped runtime is frozen; no event without a reserved number; the inductive invariant |
| `session_live` | 2 turns, 2 operations, 1 caller, fair | shutdown completes, calls return |
| `events` | 3 receivers, 2 places, history 2, channel 2, 5 events, fair | history, delivery, close reasons; a reader catches up or is told why not |
| `login` | 2 logins, fair | a login runs only under the lease; none is started over an open one; none is judged while its process lives; every process ends; the inductive invariant |
| `control_plane` | 3 requests, 2 keys, 2 callers of shutdown, 1 session, registry of 2 entries and 3 bytes | no entry lost under a waiter, one execution per entry, exact counts, drain before the lower runtimes stop, one shutdown result, logged-out sessions forgotten, nobody stuck |
| `socket` | 1 connection, history 2, channel 1, 3 events, fair | implements `StreamContract`; at most one frame after a revocation; no subscription leaked; a revoked or drained connection ends |
| `browser` | 3 events, 2 frames in flight, 2 server processes, 2 aborted requests | an honest server is never taken for a broken one; the events shown are consecutive; a page that is not busy has a socket or a timer, unless its last refresh failed |

The bounds. Two operations are what it takes for one to meet the record of its predecessor: gate,
replacement, cancel of the successor, stale reads; two logins do the same for the login ledger. A
second caller adds overlapping cancels and recoveries. `MaxSubmitHistory = 6` and
`MaxLifecycleHistory = 4` (32 entries each in the code) hold the longest successful path and are
reached, so that full histories happen. In `events` the history and the channels overflow, there is
one receiver more than places, and the last sequence number is used. `Plenty` in `SessionRuntime`
stands for any number of sequence numbers that no single step can use up. In `control_plane` three
requests are one that executes, one that waits for it and one that evicts, logs out or drains; two
keys and three bytes (one for a request, two for a response) reach both limits of the registry. In
`socket` the one connection lags and asks for events the history has dropped. In
`browser` two processes give a stale cursor, in memory and in storage, and with `MaxLate = 2` a
second request is aborted before the first has settled.
Runs without fairness use symmetry over identifiers, which no definition tells apart.

Three runs do not check for deadlock. In `events` nothing is left to happen once the runtime has
stopped, the last number is used and all receivers are dropped; in `socket` once the connections are
closed too; in `control_plane` once all requests and callers have returned, and there `NothingStuck`
says that this is the only way to stop.

### Fairness

- Orchestrator: the thread inside `start` is scheduled (its child has a deadline), and so is a
  notified waiter. Nothing is assumed of operator, provider or restart.
- Session runtime: the worker and threads inside a call are scheduled; lower calls return, since
  each has a deadline of its own and `orchestrator` shows that waiting ones are released; the
  second for which a cancel retries does pass (strong fairness of `CancelGivesUp`).
- Event stream: a client that holds a receiver reads it. Nothing is assumed of publication.
- Login: the supervisor thread is scheduled and its two deadlines pass; a call inside the broker goes
  on; the parent-death signal kills an orphan. Nobody has to call the broker.
- WebSocket: the task of a connection, its reader and its blocking subscribe are scheduled, and each
  of their waits has a deadline. Nothing is assumed of the client.

### Disagreements with the documents

Four runs are expected to be violated. Each states a sentence of a specification document; the
counterexample is what the code does. `PROJECT.json` quotes the sentences.

| Run | What happens |
|---|---|
| `failed_blocks_retry` | spawn and the following write both fail: `start` records the operation as failed, but no later start passes the gate |
| `intent_not_reconciled` | a login record left at Intent refuses the verdict of its reconciliation |
| `cancel_lost` | a cancel whose commit fails stays marked as in progress, and nobody carries it out |
| `stale_read_stops` | a monitoring read that returns during the next turn stops the runtime |

The models show further behaviour that a reader of the documents may not expect. The properties are
stated so that they hold beside it.

- Each reconciliation of an unknown submit uses up its bounded history. A full history can be neither
  adopted nor abandoned (`cloud_submit_ledger.rs:116`; SPEC-T004B:320).
- A `cancel` that was waiting and finds the next operation submitting signals that one
  (`cloud_lifecycle.rs:500`; SPEC-T004B:80). `CloudContract` allows it.
- A cancel that comes before the lower intent is stored is answered with the previous operation, which
  is then shown on the new turn (`session-runtime/runtime.rs:506`).
- `reconcile_unknown` may publish `RecoveryObserved` after `RuntimeStopped` (`runtime.rs:586`).
- A start result with an unknown outcome sets the session state to `RecoveryRequired` without a look
  at the turn or at whether the runtime has stopped (`runtime.rs:1276`; SPEC-T005A:286).
- After the worker stopped by itself with a turn queued, `shutdown` publishes `RuntimeStopped` a second
  time and ends that turn (`runtime.rs:770`).
- A reconnect whose own refresh fails is the last one: `refresh` reports the error and schedules nothing,
  so the page stays without socket and timer until the operator acts (`p0-client.js:1030-1041`;
  SPEC-T006:323-325 has "bounded read-refresh/reconnect"). `NotStranded` excepts exactly this.

## 4. Proofs

All theorems hold for every value of the constants that meets the named assumptions.

Each invariant below was first checked by TLC on the instance of its run, and then proved.

**CloudOrchestratorProofs** assumes distinct null values and history bounds of at least four, the
phases a successful submit goes through (`SubmitLedger`, `LifecycleLedger`, `OrchestratorRefinement`).
The safety properties are not inductive: that a failed operation was never spawned depends on where
the thread inside `start` is and on what its local copy of the ledger holds. `IInv` adds

- `RecordsOk`: every record is one the operations can build (its history determines its fields);
- `Fresh`: identifiers are drawn once;
- `ThreadOk`: at each point of `submit`, what the file, the draft and the result are;
- `Agrees`: what each lifecycle phase says of the submit ledger, for the file and for memory.

The first lemmas say what each operation on a record preserves, the next that each action keeps
`IInv`. Type correctness, `LedgersValid`, `FailedMeansNotSpawned`, `RestartRepairs`,
`LowerSettledFirst`, `SettledIsDurable` and `GateNotStale` follow from it; `OpenSubmitNeverReplaced`
and `TerminalIsFinal` are proved of each step.

The refinement needs two facts more (`RefinementInv`). `FileFollows` bounds what a caller may find after a
crash: a write that failed after its rename leaves the file one transition ahead of memory, or at the
successor that `start` drew, and no sequence of failed writes gets it further. `CancelWasSignalled` says
that `submit` reports a cancellation only to a `start` whose token was signalled. With them each action
is shown to be one step of `CloudContract` or none (`OrchestratorImplementsContract`).

**SessionRuntimeProofs** assumes that the null values are not turns or lifecycles. That a turn is
started at most once depends on what the worker carries while the mutex is free, on the callers inside
a cancel or a recovery, and on what is shown of the turn. `RuntimeInv` is `TypeOK` with

- `HoldersInv`: turn identifiers are fresh, whoever holds one holds a minted one, queued work is for
  the current turn, and a turn was entered with one operation at most;
- `ProjectionInv`: what is shown agrees with what was done. A queued turn is held by nobody; a turn the
  worker may still start was never entered and is not shown as unstarted afterwards; while the worker
  acts for an earlier turn the current one is unstarted, and nobody cancels it; a worker whose runtime
  stopped acts for the current turn no more;
- `LowerInv`: a submit runs below exactly while the worker is in `start`, and each result that a thread
  still carries was committed below.

`TypeOK` is part of it because it bounds the number of events that each step may append by the sequence
numbers it reserved. The lemmas sort the steps. A `QuietStep` leaves what is shown alone, a `ShowStep`
shows a lifecycle of the current turn, a `StopStep` stops the runtime; each keeps the invariant, and most
actions are shown to be one of them. The others (acceptance, claim, admission, lower start, shutdown,
entry of a caller) have a lemma of their own. `ShownIsCommitted` has a second argument beside it: a step
shows only what the runtime already knew (`ToldKnown`: shown, published, or a result in hand), a result
comes into a hand only from the lower call that committed it, and a lower step never takes back what was
committed of an operation.

That an active turn is attended to asks more: whoever drops a turn must leave it to somebody else, and a
result that a thread carries must still be one it can commit when it comes back. `SessionInv` is
`RuntimeInv` with `AttendedInv`, which is

- `ShownInv`: session state, queued work and projection go with the lifecycle that is shown;
- `ToldInv`: nothing was published for a turn that nothing is shown for, unless its cancel is over; and
  the worker acts for a turn that is starting;
- `CancelInv`: one thread at a time carries out the cancel of a turn, and it was asked to;
- `ResultInv`: what the results in hand can be. An open lifecycle that is shown is the current one below
  (`OpenInv`), so that a cancel called for it returns one that may follow it (`CommitInv`), while a cancel
  called before the start had returned can have found a terminal one of an earlier operation (`EarlyInv`);
- `AttendInv`: `ActiveTurnIsAttended`, where a cancel called that early does not count.

The exception in `AttendInv` is what makes it inductive: the result of an early cancel may be refused, and
then only the worker, which is starting the turn, is left. Again the steps are sorted (`StillStep`,
`HaltStep`, `SceneStep`, `ApplyStep`, `TakeStep`) and every action has a lemma; the same lemmas show that a
step leaves a published terminal lifecycle alone. `SessionInvariant`, `ActiveIsAttended` and
`TerminalIsPublishedOnce` follow, for any number of turns, callers and operations.

**LoginBrokerProofs** needs no assumption. `LoginInv` is `TypeOK` with `BrokerInv`, which ties the point
the broker's thread has reached to the lease, to the supervisor, to the events in its channel and to the
record on disk: a busy broker holds the lease, a supervisor works for the operation on disk, a terminal
event means that the child is gone, a record marked as started has had a process, and a verdict is sought
only when that process is dead. It yields `LoginUnderLease`, and of each step `NoRetryWhileUnknown` and
`VerdictAfterDeath`.

**EventStreamProofs** assumes positive capacities. Its invariant `Inv` says of the history that it
is the newest events up to `high`, and of each subscription that `got \o queue` counts on from its
cursor, reaching `high` while it is registered and `end` if it was closed by a stop. The core
lemmas are `TrimmedIsRecent` (trimming keeps the newest), `ReplayIsComplete` (the replay is all of
the events above an admissible cursor) and one for each step of a subscription. It yields type
correctness, `HistoryGapFree`, `DeliveryExact` and `CloseIsTruthful`.

**ControlPlaneProofs** and **ControlRegistryProofs** assume finitely many requests and keys, since counts
and byte totals are of finite sets. No property of the control plane is inductive alone: that a waiter
finds its entry depends on who may evict it, that on the worker behind it, and that on the admission and
the session it holds. `ControlInv` adds to the types

- `RequestOk`: for each request, which points of handler and worker go together with which admission;
- `SessionsOk`, `LeasesExact`: a session counts the requests that hold it, and a logout about to commit
  has invalidated its session;
- `ShutdownOk`, `ActiveExact`: one caller leads the shutdown, and the active count is the number of
  admissions held, so that nothing is held once the leader is past the drain;
- `RegistryOk`: an entry in flight has exactly one worker, every waiter is counted in an entry of its own
  identity, bytes are the sum over the entries, and a cached logout is of a session that somebody holds.

The first module proves the parts about requests, sessions and shutdown; the second goes through what
`admit`, `complete`, eviction and `release_auth_session` do to the registry and derives
`WaitersRemembered`, `OneWorkerPerKey`, `BytesExact`, `LogoutForgotten`, `LeasesExact`,
`DrainedBeforeLower` and `ShutdownRunsOnce`.

**StreamSocketProofs** adds to `EventStreamProofs` what a connection knows. `Streaming` says that the
frames still to be written are the rest of the replay of the client's cursor, computed from the place the
client has reached, or that the replay is over and the next live event follows the last one written.
`PlaceOk` ties the point of the task to that place, `TaskOk` the blocking subscribe to the subscription it
made, and `WriteOk` the frame under way to the session. `SInv` is their conjunction with `Inv`. From it
each step is one that `StreamContract` allows or none (`SocketImplementsContract`), for any number of
connections and any capacities; `RevokedAfterOneFrame` and `SubscriptionIsOwned` follow.

**BrowserProofs** assumes a channel of at least one frame. The browser judges each frame by its own
variables, which lag behind the server by what is in flight. `InOrder` replays the frames under way from
where the browser is (`Heard`) and says that each was allowed after the one before and that the last
leads to where the server is; a frame that arrives is then one the browser accepts. `CursorInv` and
`IdentityInv` say why a stored cursor never reaches beyond the process it is used with, across restarts,
reloads and stale answers; `SocketInv` and `AttendedInv` say which socket is heard and that there is one or
a timer. `HonestPeers`, `ShownContiguous` and `NotStranded` follow.
`BusyIsExact` is a conjunct of its own: the guard of every operation is `state.busy`, which a late
request may clear, and it is the check of `currentAbort` in `discardFinishedHttp` that keeps the two
in step with the operation that waits. Without that check TLC finds `NotStranded` violated as well.

Only model-checked:

- liveness (`CallsReturn`, `LoginEnds`, `ReaderIsServed`, `ShutdownCompletes`, `RevokedConnectionEnds`),
  which needs fairness;
- `NothingStuck` of the control plane, which is about `ENABLED`.

Both are beyond the prover. Every other property of the passing runs is a theorem.

## 5. Not modelled

- Decoding and formatting of CLI output, HTTP validation, file ownership and permission checks,
  identifier and path parsing: no state. Their results appear as outcomes.
- The domain reducer: no code of P0 calls it, and it has neither concurrency nor faults.
- The page, the diff view and the device code on it: they show what `BrowserClient` holds.
- A second tab. `BrowserClient` is one page: its cookie becomes valid only by its own authentication
  as the current operation. The logout of another tab is covered (`Expires`), its login, which would
  give this page the cookie of a session it has not seen, is not, nor is the cookie of an
  authentication that was aborted; so the answer `wrong_session` (`p0-client.js:1163`) does not occur,
  and `HonestPeers` is about one page.
- The difference between the error codes `unsupported_version` and `protocol_error` of the WebSocket
  (`websocket.rs:537-541`): both end the connection with 1008 and the browser treats them alike.
- Time. Deadlines, expiry, polling and back-off happen at some moment; how long they take is left out,
  and so are WebSocket pings, which carry no state.
- Poisoned mutexes: a panic under a lock.
- The scaffolds `boxd`, `node-agent` and `codebox-cli`: empty.

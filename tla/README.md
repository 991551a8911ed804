# ForwardX: TLA+ models of the panel and the Agent

ForwardX is a self-hosted forwarding panel: a Node/TypeScript server (`server/`)
with a database, a web client (`client/`), a Go Agent on every managed host
(`agent/`), and a Go data plane for encrypted tunnels (`forwardx-fxp/`). This
directory holds specifications of the parts of it where the order of events
decides whether the system is correct: who owns a listener port, when a port
may be used again, how panel and Agent agree on an Xray configuration, how the
Agent switches to it and keeps the process alive, which heartbeats the panel works
on, how a datagram passes the exit of a tunnel, and how a payment becomes a
subscription or a balance.

Paths below are relative to the repository. `PROJECT.json` has, for every
definition, the lines of source it models (`map`), the TLC runs, a mutant per
property, the hazards and the findings.

## Inventory

| Component | State | Operations | Interacts through | What is hard |
|---|---|---|---|---|
| Global port ledger (`server/globalPortAllocationService.ts`) | one row per port: status, owner, token, expiry, version; references that say who uses it and why | reserve, activate, add an owning reference, alias, begin and confirm a release, clean up, promote a staged reference, recover expired reservations | database transactions of requests, heartbeats and sagas | reads and writes of concurrent transactions interleave; only the version in the WHERE clause orders them |
| Reclaim scan (`server/globalPortReclaimService.ts`, `xrayPortOperations.ts`) | a lease, probe runs, results per host and network | lease, pick a candidate, look for drift, probe every managed host, judge, write | the ledger rows; port probes to the Agents | scans stall, crash and overlap; hosts come and go while they are asked |
| Xray runtime of the Agent (`agent/xray_runtime.go`, `xray_persistence.go`, `xray_desired.go`, `xray_state.go`) | config, hash, last-good pair, binary link, `state.json`, apply marker; the scheduler's queue | Apply, RecoverLocal, RestartLastGood | desired states from the heartbeat; the supervisor | a switch is six writes and a process change, and any of them may fail or be the last one before a crash |
| Xray supervisor (`agent/xray_supervisor.go`) | desiredRunning, launch spec, tracked process, epoch, attempts, `supervisor.json` | Start, Stop, Restart, Recover, watch, restartAfterUnexpectedExit | the runtime; the OS process | exits race with stops and restarts; two mutexes and a channel |
| Payment orders (`server/payment.ts`, `server/repositories/billingRepository.ts`) | an order with its status, `discountConsumed`, expiry and `updatedAt`; subscriptions and balance transactions with a `paymentOrderNo`; `usedCount` of a code | create, notify, mark paid, claim, grant, reset a stale claim, expire | provider webhooks, the scheduler, the per-user lock (`server/keyedTaskLock.ts`) | callbacks repeat and race with expiry; a claim may be dead or only slow; the panel may die anywhere |
| Desired-state convergence (`server/xrayHeartbeatState.ts`, `xrayRuntimeOperations.ts`, `xrayRuntimeService.ts`, `server/repositories/xrayRepository.ts`; `agent/xray_desired.go`, `xray_state.go`, `xray_task_results.go`, `xray_port_probe.go`) | desired generation and hash, operations, the last report; the Agent's queue, results, pending application and what it last sent | mutations, install, upgrade, restart, sync; receive, take a task, build; heartbeat, apply, run a task | heartbeats, the event stream, the ledger | reports and desired states arrive late, twice or never; three locks per heartbeat |
| Clients of the ledger (`tunnelGlobalPortService.ts`, `xrayInboundService.ts`, quick configs, rules) | their own rows | reserve before, activate after, release once a host confirms | the ledger | a crash between the two |
| Quick-config saga (`server/xrayQuickConfig*Service.ts`) | an operation log with steps | create, apply DNS, edit, switch engine, retry, delete | ports, hosts, DNS providers | one step of several fails; retries of what was done |
| Heartbeat gate and stable plans (`agentHeartbeatGate.ts`, `agentHeartbeatRoute.ts`) | slots, a waiting queue, times of completion, a plan per host | acquire, release, prune; match, remember, invalidate | every heartbeat, every change of a configuration | fairness with more hosts than slots; a plan computed from rows that have changed |
| FXP data plane, exit of direct UDP (`forwardx-fxp/udp_*.go`) | a session table; per session a replay window, half-assembled datagrams, a queue; byte budgets per rule and per process | read, accept, enqueue, write, close, sweep | sockets; one mutex each for table, reassembler, queue and budget | reader, workers and sweeper interleave; every byte is charged once and released once |
| Report ordering (`agentStatusOrdering.ts`, `agentTcpingReportGate.ts`), forward-group failover, traffic accounting | last accepted stamps, health counters, counters and their files | see the source | reports | stamps that are equal or missing, flapping, restarts |
| Compilers, authentication, UI, bots, schema | - | pure functions, cryptography, I/O, declarations | - | not protocol state |

What makes each of the modelled ones correct:

- **Ledger**: a port has one owner; every reference is covered by an owned row;
  an owned row has a reference of its owner; a port rests in quarantine between
  two owners.
- **Reclaim**: a port is freed only if every managed host said on every network,
  to this run and during this tenancy, that nobody listens; a given-up port is
  judged in the end.
- **Xray runtime**: at every instant the files can be recovered; nothing stays
  half-applied; the process is the one that is recorded; generations do not go
  back; the newest desired state wins in the end.
- **Supervisor**: an Agent has one Xray process and knows it; an exit that nobody
  asked for is made good by exactly one watchdog; a stop wins over it; every call
  returns.
- **Convergence**: a row, and with it its port, goes only after its listener;
  SUCCESS is true of the host; no result and no change is lost; the newest
  generation is applied in the end.
- **Heartbeat gate**: slots do not leak, nobody starves, every change is delivered.
- **FXP exit**: charges equal what is held, a datagram is handed on once, no wake-up
  and no session is lost, nothing stays behind a close.
- **Payments**: an order is granted once (a second grant takes a live claim that was
  given up, findings 4 and 5), says completed exactly when it was granted, stays
  settled, charges a code for what it holds, and is served once paid for.

## Modules

| Module | Models | Lines of code it stands for |
|---|---|---|
| `PortOwnership` | what the ledger promises: exclusive ownership with a quarantine | abstract |
| `GlobalPortLedger` | the allocation service | `globalPortAllocationService.ts`, `withDatabaseTransaction` |
| `GlobalPortReclaim` | the reclaim scan | `globalPortReclaimService.ts`, the admission check in `xrayPortOperations.ts` |
| `XrayAgentRuntime` | Apply, RecoverLocal, RestartLastGood, the scheduler, what the runtime sees of the supervisor | `agent/xray_runtime.go`, `xray_persistence.go`, `xray_desired.go`, `xray_state.go` |
| `XraySupervisor` | the supervisor, lock by lock | `agent/xray_supervisor.go` |
| `XrayConvergence` | panel and Agent of one host, with the network between them | the files of the inventory's row |
| `HeartbeatGate` | the gate and the cache of stable plans | `agentHeartbeatGate.ts`, the places of `agentHeartbeatRoute.ts` that use it |
| `FxpUdpExit` | the exit of direct UDP | `forwardx-fxp/udp_direct.go`, `udp_fragment.go`, `udp_queue_budget.go`, `udp_tuning.go`, `udp_session_lifecycle.go` |
| `PaymentOrders` | the life of an order | `payment.ts`, the order and discount statements of `billingRepository.ts`, `keyedTaskLock.ts` |
| `...Proofs` | the theorems of the module before the dots: one for each of the eight | |
| `MC...` | small instances for TLC | |

### GlobalPortLedger

`alloc[p]` is the row of port `p`, `refs[k]` the reference with unique key `k`,
`tx[c]` what an open transaction of client `c` has read and decided. The
service takes no row locks on what it reads and the database is at its default
isolation level, so an operation is two actions: `Begin...` is everything up to
the first write (every check and early return), `Commit...` is the UPDATE whose
WHERE clause names the version that was read, with the inserts and deletes of
the same transaction. A commit whose version is stale affects no row, throws and
becomes `Rollback`. A transaction never makes its writes visible one by one, so
one commit step is faithful; SQLite, which serialises, allows fewer behaviours.
`reserve` and `activate` are two transactions: between them the reservation may
expire (`Expire`, the clock) and be recovered (`RecoverExpired`). `Verdict` is
the write of a reclaim scan as the ledger sees it. Owners are opaque, except
that inbounds and quick configs are told apart as the aliasing code does.

`ImplementsOwnership` is the refinement: a port is `Available` when it has no
row or a FREE one, belongs to the owner of an owned row, and is `Quarantined`
otherwise.

### GlobalPortReclaim

One port, several panel processes. `row` is its ledger row with its version,
`lease` the database lease, `scan[s]` what the scan of process `s` holds: the
version it started from, its run, the hosts it asked, their answers, its
verdict. `GiveUp` and `Claim` are the ledger seen from here. `quiet` and `heard`
are histories: the hosts that have answered FREE to the run the row belongs to,
and whether any host has answered OCCUPIED.

`LedgerBlocksProbe` stands for line 242 of `xrayPortOperations.ts`. As the code
is, it is TRUE: a probe of the scanned port is refused because the port's own
ledger row is not FREE, so no host is ever asked and no verdict is FREE (the run
`reclaim_blocked`). What the rest of the algorithm does can only be seen with
FALSE, which is what the run `reclaim` checks: the safety of the scan if probes
get through. `reclaim_live` uses TRUE, the code's value.

### XrayAgentRuntime

A *job* holds the runtime mutex and walks through phases; `Order` gives the
writes of each phase in the order of the code, and `at` is the place in it. The
whole of `writeAtomicXrayFile` is one write (write, sync, rename), with three
outcomes: it happens, it fails, or it takes effect and still reports an error, as
when the chmod or the directory sync after the rename fails (`WriteFile`, its third
disjunct; the same for removals and for the binary link). `amiss` is a history of the
two things that go wrong there and are not reported as such: `"late"`, the
`state.json` of a switch that is being undone is in place, and `"revived"`, a rollback
has started Xray for a state that wants none. The properties name both as their
exceptions and say what still holds then. `Crash` may come between any
two writes; the Agent may come back as another build, whose managed Xray version
differs. A start or stop of the process is one step, successful or not, with the
effect on `desiredRunning`, the spec and `supervisor.json`. `tainted` records
that a job ended with ROLLBACK_FAILED, which the code reports as such and makes
no promise about until a later success. A configuration stands for its bytes and
its SHA-256, and a hash of a file for the file it was taken of.

### XraySupervisor

`sup` holds the fields that `mu` guards; everything the code does under one hold
of `mu` is one step. `transitionMu` is held while a goroutine's `pc` is in
`InTransition`. Goroutine 0 serves the calls of the runtime (one at a time, under
the runtime's mutex), goroutine `p` first waits for process `p` and then is its
watchdog. `WatchClose` and `WatchClear` are two steps because `done` is closed before
`mu` is taken. A crash of the Agent kills its processes (systemd's control group) or
lets them survive; a survivor that is not adopted is the one process the invariants
exempt. A spec stands for binary, configuration and hashes; `Install` puts another
one on disk, which is what makes `validateSpec` fail for the old one.
`XrayAgentRuntime`'s start and stop steps are the abstract view of this module.

### XrayConvergence

The panel's handler of a heartbeat is three steps, `Receive` (results and report),
`Take` (the task, and whether the desired state must wait for it) and `Build` (the
desired state), since it takes and releases the host's two keyed locks; mutations
and the handlers of heartbeats that the Agent has given up on come in between.
`Answer` is the Agent's side of the response and `Push` the copy of the desired state
on the event stream. A configuration is the set of its inbounds, and is its own hash.
Values that may be missing are sets of at most one element. An application and a
task succeed or fail as a whole (`XrayAgentRuntime` looks inside), and `Revive` is
what `XraySupervisor` guarantees. `Crash` may come after a task's work and before its
result is on disk. `Init` is an untouched host, or one that runs an older release.

### HeartbeatGate

`gate` is the `AgentHeartbeatGate`, `plan[h]` the cached plan of a host, `work` the
reconciliations in progress. `Match` is the fast path or the read of the host's rows;
`Finish` is the end of the handler, after all its awaits, where the plan is stored or
dropped; `Throw` is its error exit at any point before, where the slot is given back
and the plan stays as it is. `Change` and `Notify` are the two halves of a mutation: the rows, then the
audit event that invalidates the plan and pushes a refresh. Time is abstract: an entry
becomes old in steps of its own (`Cool`, `Stale`, `Age`). What a reconciliation
computes is one number, the version of the host's rows.

### FxpUdpExit

One reader, one worker per session and one sweeper, with every critical section one
step. `ses[o]` is a session object, `table` the map by key: an object may have left
the table and still be worked on. `st` follows `close()` from `done` to the removal.
A byte is one full fragment. Authentication succeeds for the packets the entry sent
and is left out for others, which change nothing. `handed` counts what a session
object has passed to its queue; the replay window belongs to the object, so nothing
is promised across two sessions with the same key.

### PaymentOrders

The orders of one user (the lock and the discount code are what orders share).
A worker is a webhook request or the maintenance task; its `pc` is the await it
has stopped at. Each conditional UPDATE is one step. The granting transaction
is two, its read and its commit, since the lock around it is per process and
another instance may commit in between. `Row[o]` is the row that will carry the
order's number: one of its own for a recharge or a new subscription, a common
one for two renewals of a subscription, and it is the common one in the run. `old` says that `updatedAt` is more than
ten minutes ago, `late` that `expiresAt` has passed. `unheard` is the provider's
side: orders it has reported and that nobody has acknowledged (every webhook
handler answers 5xx when `processPaidNotification` throws, success when it
returns). A legacy order is a pending one from before codes were consumed at
creation; lines 812-823 of `payment.ts` still cater for it. `PurchaseWithBalance` is
the other writer of `usedCount`, a purchase without an order (`bought` counts them).
`overtaken` is a history: the claim of an order was given up for dead
(`resetStaleProcessingPaymentOrder`) while its owner still waited for the lock or was
in its transaction. `grants` is another: how often an order was granted and by which
instance last. The status `cancelled`
has no writer and behaves like `failed`; orders of type `test` grant nothing and
are left out; so is the limit on pending orders per user.

### Where a model is coarser or narrower than the code

None of these changes what a property can see, and each is a place to look first when
the code changes.

- `GlobalPortLedger`: the status LEGACY_CONFLICT is left out (only
  `globalPortBackfill.ts:407` writes it). `BeginActivate` and
  `Acquire` are given references to a resource of the owner; that is up to the callers, the
  service does not check it (`globalPortAllocationService.ts:435`, `:468`).
- `GlobalPortReclaim`: `Select` compares `scanNotBefore` with the time of the selection,
  the code with a time taken before the lease (`globalPortReclaimService.ts:538`), so the
  model may pick a port a little earlier. `Outcome` has no refusal by the port policy
  (`xrayPortOperations.ts:296`); it is an error, and keeps the row as an offline host does.
- `XraySupervisor`: `Kill` is instantaneous, the code's SIGKILL is not waited for
  (`xray_supervisor.go:357`, `:367`, `:382`). `Boot` always calls `Recover`; `RecoverLocal`
  may return before (`xray_state.go:257`), which leaves the Agent as a `Recover` does that
  finds nothing wanted.
- `XrayConvergence`: `Receive` does the task results and the report in one step, which the
  code does under two locks one after the other (`agentHeartbeatRoute.ts:1440`); `Build`
  includes `markXrayDesiredDispatched`, which runs after the lock
  (`xrayHeartbeatState.ts:527`). `Taken` has no ARTIFACT_NOT_FOUND
  (`xrayRuntimeOperations.ts:238`): the artifact of the release is there. `Schedule` has no
  refusal of a generation with another hash (`xray_desired.go:201`): in this model a
  generation has one configuration; `XrayAgentRuntime` has the refusal.
- `FxpUdpExit`: `TakeToken` needs an open session, where the code's `select` may take the
  token of a closed one and then finds nothing (`udp_tuning.go:143`). `Assemble` has neither
  the limit on the payload nor the check for an empty one (`udp_fragment.go:239`, `:270`),
  which refuse the fragment as other checks do.

## Runs

All with `tlc -workers 2 -config <cfg> <module>`. `TypeOK` is an invariant of its own in
`ledger` and `payment`; elsewhere it is the first conjunct of one invariant
(`OneApplicableVerdict`, `CrashSafe`, `NoProcessForgotten`, `HashIsCurrent`,
`SlotsExact`, `BudgetExact`).

| Run | Expect | States | Shows |
|---|---|---|---|
| `ledger` | pass | 0.4 million | two clients, two ports, an inbound moving between two hosts and a quick config: the safety of the ledger and the refinement of `PortOwnership` |
| `reclaim` | pass | 4 million | two scans, two hosts, two churn events (crash, expiry, host or drift change): verdicts are single, justified and current |
| `reclaim_live` | pass | 0.3 million | a given-up port is judged |
| `reclaim_blocked` | violation | | a port is declared externally occupied that nobody occupies |
| `agent_runtime` | pass | 0.31 million | four desired states (one reuses a generation, one has no listeners), two builds, four faults, late errors among them: recovery, consistency, monotony, convergence |
| `supervisor` | pass | 84 thousand | two specs, two calls, two unexpected exits, a failing step and a crash: one process, one watchdog, stops win, calls return, exits are made good |
| `convergence` | pass | 2.9 million | two generations, two operations, two overlapping heartbeats and one fault: rows behind listeners, true verdicts, current hash, kept results |
| `convergence_live` | pass | 0.6 million | the same with one heartbeat at a time, under fairness: operations end, the host converges |
| `convergence_upgrade` | violation | | an upgrade of a host that runs the desired generation never ends |
| `heartbeat_gate` | pass | 0.13 million | three hosts, one slot, one change, one fault (an Agent that leaves, a request given up, a handler that throws, a restart): exact slots, no starvation, every change delivered |
| `fxp_udp_exit` | pass | 2.1 million | two sessions of two rules, three datagrams, four packets read, a timeout and a failure: exact budgets, no duplicate, no lost session or wake-up |
| `payment` | pass | 0.29 million | two renewals of one subscription, one of them new or legacy and with a code of two uses; a request and the maintenance of one instance and the maintenance of another; one more callback, failing grant, crash or purchase with the balance |

**Bounds.** Two clients are enough for the ledger since a decision can be
invalidated by any single commit; versions up to 5 allow a port to be reserved,
activated, changed, released and retired. The reclaim scan needs a version
bound of 9 because the stale verdict of `FreedOnCurrentAnswers` takes a full
claim and give-up while a scan stalls. The Agent run allows four faults: a
failed write, a failing rollback, a crash and a process death in one behaviour.
For the supervisor, five launches are what two calls, two exits and a crash can
cause. In `convergence` two heartbeats overlap, one of which the Agent has given up
on, and two generations are enough for a report, a desired state or a result to
concern the wrong one. `fxp_udp_exit` reads four packets: a fragmented datagram, a
whole one of the same session and one of another session, or repetitions of them;
the limits are such that each budget, the queue and the reassembler overflow. In
`payment` the ten minutes alone suffice to have two finalizers of an order at once, in
one instance or in two, so that every exception the properties name is reached with
one further event (`MaxEvents = 1`: a callback beyond the provider's own retries, a
grant that throws, a crash or a purchase with the balance); the safety properties were
also checked with two (1.8 million states). The code has two uses, so that there is one
left for the second finalizer of a legacy order, or for a purchase that uses it up.
Symmetry is used only in runs without liveness (ports and clients of the ledger,
hosts and processes of the scan).

**Deadlock** is checked for the Agent, the convergence and the gate. The ledger, the
scan, the payments, the supervisor and the exit may stop: versions have reached
their bound, a port is free, all orders are settled, nobody calls, no packet comes.

**Fairness.** The scheduler keeps starting scans and maintenance
(`server/scheduler.ts` uses intervals), and a request or scan that runs goes on:
weak fairness of their steps. In `PaymentOrders` some stale order is recovered again and
again and some unacknowledged callback is repeated (strong fairness of each as a whole,
not order by order): the maintenance lists every stale order on each pass, and the
provider repeats a callback that was not acknowledged. systemd restarts the Agent, the Go mutex is
starvation-free (strong fairness of `BeginApply`), and every heartbeat answer
carries the newest desired state. In `XraySupervisor` goroutines that can run do run
(timers fire, a wait for `done` has a timeout, the mutex goes to whoever waits);
nothing makes a process exit or a call come. In `XrayConvergence` heartbeats are sent
on a timer, the panel answers what it received, and the two workers of the Agent run;
a task's time to live runs out (strong fairness of `Take(b, TRUE)`, because the clock
does not stop while the condition comes and goes); the event stream need not deliver.
In `HeartbeatGate` an Agent that is online keeps asking, as its loop does
(`agent/main.go:2838`), a handler ends (its release is in a `finally`), and time
passes; an Agent that left need not come back. Nothing is assumed about failures,
which are bounded by budgets.

## Proofs

`GlobalPortLedgerProofs` proves, for any number of ports, owners, keys and
clients and under `ConstantsAssumption` alone:

- `LedgerInvariance`: `Spec => []LedgerInv`;
- `LedgerTypes`, `LedgerRowsDecode`, `LedgerReferences`, `LedgerRowsHeld`: types are
  kept, rows decode, references are covered, owned rows are held;
- `LedgerDecisions`: a transaction whose version still matches is right about
  its row;
- `LedgerVersions`: no step changes a row or its references without raising its
  version;
- `LedgerRefinement`: the ledger implements `PortOwnership`.

The argument: the three table invariants are not inductive, because a commit
relies on what its transaction read earlier. `LedgerInv` therefore adds `TxOK`:
each open transaction *is still right about every row whose version it still
matches* (`SrcHolds`, `DstHolds`), and its versions are not from the future
(`TxShape`). `StepGuard` is the other half: a step that does not raise the
version of a row leaves the row and its references as they are. Every action has
a lemma that proves both `LedgerInv'` and `StepGuard`; `TxKept` turns
`StepGuard` into the preservation of everybody else's `TxOK`, once for all
actions. `StagedOwning` (a staged reference is never an alias) is what a
promotion needs. `DecisionsHold` in the run `ledger` is the part of `TxOK` that
speaks about decisions.

`PaymentOrdersProofs` proves, for any number of orders, subscriptions they share,
workers, instances, callbacks, failures, crashes and purchases and under
`PaymentAssumption` alone:

- `GrantInvariance`: `Spec => []GrantIInv`; `PaymentTypes`: types are kept;
- `CompletedGranted`: an order says completed exactly when it was granted;
- `Settled`: no step reopens an order that is completed, expired or failed;
- `GrantOnce` (`GrantedOnceUnlessOvertaken`): an order is granted a second time only if
  a claim on it was given up while its owner was alive, and then only if the number in
  its row had been overwritten, or the grant before came from another instance.

The argument: most steps are `Quiet` (they grant nothing, complete nothing and
move nobody into the transaction), which `NextCases` proves action by action, so
only `BeginGrant` and `CommitGrant` need thought. A commit relies on what the
transaction read: `LockOK` (who is inside is first in its instance's queue),
`SeenOK` (a tag that was seen means a grant) and `TakenOK` (a claimed order can
no longer expire, which `Settled` needs). For `GrantOnce` also the absence of the
tag must mean something: `UnseenOK` says that whoever has not seen the tag still finds
none when it commits, or the order was last granted by another instance, because one
queue admits one grant at a time; and `SoleOK` that an order whose claim was never
overtaken has at most one finalizer, and is in processing as long as it has one.

- `DiscountCharged`: the code is charged for every order that holds a use and every
  purchase with the balance, never above its limit, and closed orders hold none. Its invariant `UseInv` says
  which orders hold a use (`HoldersOK`: all live discounted ones but the legacy ones)
  and what a worker's copy of `discountConsumed` is worth at the commit
  (`ClaimedOK`: it can be out of date only for a legacy order that somebody else
  has completed).

`XraySupervisorProofs`, for any number of launches, calls, exits, failures, attempts
and crashes and under `SupervisorAssumption`:

- `SupervisorInvariance`; `ProcessKnown` (`NoProcessForgotten`), `WatchdogUnique`
  (`OneWatchdog`), `StopWins` (`WatchdogObeysStop`).

`transitionMu` is free between two parts of a watchdog's life, so what it knew may be
stale when it takes the mutex; the epoch is what tells. `OnePerEpoch` says that a
process and the goroutine that stands in for it are alone in their epoch,
`WatchdogCurrent` that whoever launches still belongs to the current one, and
`LaunchedIsNew` and `BootClean` where a live process can be that is not tracked.

`GlobalPortReclaimProofs`, for any number of processes, hosts, networks and churn and
for both values of `LedgerBlocksProbe`:

- `ReclaimInvariance`; `VerdictsExclude` (`OneApplicableVerdict`), `FreeIsJustified`
  (`FreeVerdictJustified`), `FreedIsCurrent` (`FreedOnCurrentAnswers`).

A scan outlives its lease, so exclusion cannot come from there: `OwnVersion` says that
a running probe run has a row version nobody else has, and `AnswersCurrent` that as
long as the row has that version, what the run has heard is what the current tenancy
has said.

`XrayAgentRuntimeProofs`, for any configurations, desired states, builds and faults
(late errors included) and under `RuntimeAssumption` alone:

- `RuntimeInvariance`; `CrashRecovers` (`CrashSafe`), `AppliedAsWhole`
  (`NothingHalfApplied`), `GenerationsAdvance` (`AppliedNeverRegresses`).

That one more write leaves the files recoverable depends on the writes before it, so
the invariant says phase by phase which files are in place (`RecoverFiles` to
`OtherFiles`), and which state the process and the watchdog serve (`ProcessOfJob`). A
file that is in place although its write reported an error is harmless wherever the
next phase writes it again; `Late` marks the one that is not, a new `state.json`, and the
phase invariants say up to which write of the rollback it lasts.

`FxpUdpExitProofs`, for any keys, datagrams, capacities and limits and under
`ExitAssumption`:

- `ExitInvariance`; `NoDatagramTwice` (`HandedOnce`), `NoSessionLost`
  (`OpenIsListed`), `NoWakeUpLost` (`WorkerAwake`), `CloseIsFinal`
  (`NothingBehindClose`).

The invariant is mostly a property of one session record, `Sound`: what was handed on
is in the replay window or has fallen out at its old end (`Windowed`), and a queue
with something in it has a token or an awake worker (`Awake`). `InFlightExact` relates
the record to the reader and the worker, which keeps `inFlight` above zero as long
as one of them holds the session.

- `ChargesExact` (`BudgetExact`).

`Release` clamps what it gives back to what is charged, so that nothing is lost or
given back twice has to come from elsewhere: a charge that *is* the sum of what the
sessions hold covers every release, and the clamp never acts. `ChargeInv` adds this to
`Inv`: `Charges` (the budgets are typed and within their limits, every record keeps its
bounds (`Fitting`), the sums are exact) and `Standing` (whoever is in the table or in
the reader's hands has been created, `Alive`; the table stays within its hard limit).
Every action has a lemma which shows that it changes one session and books exactly the
difference of what that session holds (`Booked`); `OneCharged` turns that into the sums.
The sums are recursive functions of an index. What a sum is after one summand changed,
a queue lost its head or an assembly was replaced is proved by induction in the form
of a set (`NatSet`: a set of numbers with no least number outside it is `Nat`, from the
well-foundedness of `<`), which needs no operator as a parameter.

`XrayConvergenceProofs`, for any number of inbounds, operations, overlapping
heartbeats and faults:

- `ConvergenceInvariance`; `ListenersHaveRows` (`RowBehindListener`), `SuccessHolds`
  (`SuccessIsTrue`), `HashNeverConflicts` (`HashIsCurrent`), `ResultsOutliveDelivery`
  (`ResultsKept`).

Each property is about what panel and Agent show now, and steps act on what was true
some messages ago, so the invariant says what may be under way: a desired state and
the configuration the Agent runs contain only what was taken out of the rows under a
later generation (`DesiredDated`, `AgentDated`); an observation is a lower bound of
what the Agent is (`ObservedBehind`, `GoneApplied`); results and successes are true of
the host (`ResultsTrue`, `AllTruthful`); an acceptance is of an operation that is over
or further on (`ConfirmedRecorded`).

`HeartbeatGateProofs`, for any set of hosts and number of slots:

- `GateInvariance`; `SlotsNeverLeak` (`SlotsExact`).

A count is not inductive: that as many reconciliations run as slots are taken does not
say that the one that ends gives back its own. `OneEach` says it host by host, and the
counts follow from bijections.

**What the proofs corrected.** Four disagreements between a model and its own reading
were found by a proof that failed. `CASE` with overlapping guards (in `Judge` of the
scan, `Schedule` and `Value` of the runtime) says less than the code's if-chains: TLC
takes the first guard, the logic any. `Enqueue` of the exit did not say that the *fewest*
packets make room. `Entered` of the gate removed a host from anywhere in the queue
where the code shifts its head. And `DiscountAccounted` claimed that `usedCount` is
always the number of orders with a use, which its run confirmed only because the code
had a single use: see finding 15.

Only model-checked: every liveness property (`PendingPortJudged`, both `Converges`,
`CallsReturn`, `ExitMadeGood`, `OperationEnds`, `Served`, `Delivered`,
`PaidOrderServed`), since TLAPS proves nothing under fairness. Every safety invariant
and every action property that a passing run checks is also a theorem.

## Findings

Two have a run whose counterexample shows them, and a quotation in `PROJECT.json`:

1. `xrayPortOperations.ts:242` (`reclaim_blocked`): a reclaim probe is refused because
   of the ledger row it is about; scans write EXTERNAL_OCCUPIED and never free a port.
2. `xray_runtime.go:127` (`convergence_upgrade`): the desired state that follows an
   upgrade has the generation and the hash the Agent already runs, so `Apply` returns
   the old process as reused; the panel waits for the new version and the operation
   stays RUNNING, which blocks all further runtime operations
   (`docs/xray/AGENT_PROTOCOL.md:249`).

These are in the models, as the exceptions their properties name:

3. `xray_persistence.go:126`: a write that took effect may report an error. When it is
   the `state.json` of a switch, the rollback takes the recorded generation back
   (`AppliedNeverRegresses`). When that rollback is cut short by a crash or a failure,
   `recoverInterruptedApply` takes the new `state.json` for a committed switch, finds
   that the other files disagree and refuses for ever; on a first deployment the
   clean-up has no marker at all, and `snapshot()` fails for ever (`"late" \in amiss` in
   `CrashSafe`, `NothingHalfApplied` and `Converges`). It is the "safe failure" of
   `docs/xray/RUNTIME_LIFECYCLE.md:124`, but line 98 promises that a failure restores
   last-good.
4. `payment.ts:811`: the check for an earlier grant goes by a number that another
   renewal of the subscription overwrites. When a claim is given up after ten minutes
   and its owner was only slow, both may grant (the first exception of
   `GrantedOnceUnlessOvertaken`), against `docs/PAYMENT_CN.md:3`
   ("重复回调不会重复入账") and `:176` ("不会重复发放").
5. `payment.ts:839`: check and insert by two panel instances, no unique index; again
   after a claim that was given up (its second exception, against the same lines).
6. `payment.ts:865`: an order that was reset to paid and not claimed before a crash is
   not looked for again (`Stranded` in `PaidOrderServed`).
7. `xray_supervisor.go:401`: a stop that fails has already withdrawn
   `desiredRunning`; the process stays and its next exit is not recovered (the
   properties speak of Xray that is wanted), against
   `docs/xray/RUNTIME_LIFECYCLE.md:112`.
8. `xray_supervisor.go:490`: `done` is closed before `current` is cleared, so a Restart
   may find the dead process, fail, and leave Xray down (`outcome = "error"` in
   `ExitMadeGood`), against `RUNTIME_LIFECYCLE.md:113`.
9. `xray_supervisor.go:376`: when `supervisor.json` cannot be written, a watchdog's
   start withdraws `desiredRunning`, and recovery ends silently. A failing Start during
   the back-off raises the epoch, and the watchdog quits.
10. `xray_supervisor.go:607`: a process that survived with a record that does not want
    it is not adopted (`survivors`), against `RUNTIME_LIFECYCLE.md:117`.
11. `agentHeartbeatRoute.ts:6694`: a handler that read the rows before a change stores
    its plan after the invalidation, and a forced heartbeat that is answered as
    coalesced loses its force; the change then waits for the five-minute audit
    (`Delivered` holds because of `Age`).
12. `xrayRuntimeOperations.ts:287`: the replayed result of an install that the panel
    already counted fails the operation (`Completed`, stage INSTALL_COMPLETE), against
    `AGENT_PROTOCOL.md:247`; and an INSTALL whose Agent crashed after the work and
    before its result is not handed out again, because the report shows the binary
    (this is why `OperationEnds` speaks of SYNC and RESTART).
13. `xrayRepository.ts:240`: mutations do not look at open operations
    (`docs/xray/DATA_MODEL.md:249`); a superseded operation stays open and blocks
    `assertNoRuntimeOperation`, and its result is never acknowledged.
14. `agentHeartbeatRoute.ts:6546`: deferral and desired state are read under different
    locks, so a desired state may go out before its INSTALL (`AGENT_PROTOCOL.md:247`).
15. `payment.ts:812`: whether a legacy order has consumed its code goes by the order as
    it was claimed. When a claim is given up for dead after ten minutes and both
    finalizers commit, the second finds the subscription and consumes the code again
    (the exception for completed legacy orders in `DiscountAccounted`).
16. `payment.ts:1140`: a code is consumed when the order is created, while
    `docs/PAYMENT_CN.md:175` says "折扣码只在套餐发放成功后消耗". An order that nobody pays
    holds a use until it is closed, and may use up a code with a limit for others.
    `DiscountAccounted` is about what the code does: it counts the uses that open orders
    have reserved beside those that were spent (`Users`), and says that a closed order
    gives its use back.
17. `xray_runtime.go:434`: `rollbackAfterFailure` starts Xray also when the previous
    state was stopped, against `RUNTIME_LIFECYCLE.md:104` and `:150`; the Agent then
    reports its own runtime as a conflict (`xray_state.go:108`), until a further switch,
    stop or crash ends it (`"revived" \in amiss` in `NothingHalfApplied`).
18. `payment.ts:857`: a grant that throws keeps its order in processing, as the comment
    there explains, against `docs/PAYMENT_CN.md:167` ("订单会回到 `paid`"); the order waits
    ten minutes for the maintenance (`FailGrant`).

Seen while modelling, outside the models:
`recoverExpiredGlobalPortReservations` has no caller, against
`docs/xray/DATA_MODEL.md:570`; a second port change of an inbound before the first is
applied keeps the first reservation; `hasQueuedXrayRuntimeTasks` is not among the
conditions of the fast path; `AgentHeartbeatGate.clear` has no caller but the tests.

## Plan

Done: the ledger with its abstract specification, the reclaim scan, the Agent's Xray
runtime, the supervisor, the convergence of panel and Agent, the heartbeat gate, the
exit of direct UDP and payment orders, each with the proofs of its safety properties.
Next, in this order:

1. Proofs: the start and stop steps of `XrayAgentRuntime` as an abstraction of
   `XraySupervisor`.
2. `PortClients`: inbounds and tunnels that reserve, activate and release over
   `GlobalPortLedger`, with crashes between the steps; no leaked reservation.
3. Report ordering and the keyed dispatcher: status never goes back.
4. Forward-group failover, the quick-config saga, traffic accounting.

## Not modelled

The repository has some 200,000 lines, most of them user interface, bots, compilers,
migrations and queries; the models cover the protocols named above. Left out: the
configuration compilers (pure translations to Xray JSON, opaque values
here), cryptography and sessions, the web client and the Android shell, bots and
mail, schema and migrations, and the parts of the inventory that the plan lists.
Within the modelled parts: the text of errors, logging, audit rows, the probing
of listeners by `/proc` (a start is ready or it is not), signature checks of
webhooks, what a grant does to ports, traffic and entitlements, the global ports of
staged inbounds in `XrayConvergence`, the clients of an inbound (their deletion
follows the inbound's), and, in the data plane, the entry side, TCP, ciphers and the
way back from the target, whose failure alone matters to a session.

# TLA+ models of GPULink

GPULink leases GPUs of registered workers to jobs (batch) and sessions
(interactive, relayed over WebSockets). This directory holds TLA+ models of its
control plane on both of its databases, relay, worker agent, event stream, local
broker and adapter subprocesses, the TLC configurations that check them, and TLAPS
proofs of their safety properties. Paths below are relative to the repository.

## The system

| Component | State | Operations | Talks to |
|---|---|---|---|
| Control-plane service (`src/control-plane/service.mjs`, `persistence/postgres.mjs`) | rows of `workers`, `jobs`, `sessions`, `gpu_resource_fences`, `events` | register, heartbeat, drain; submit, start, renew, finish, cancel (jobs); submit, start, activate, renew, close (sessions); reserve an execution attempt | PostgreSQL transactions; triggers the scheduler after a commit |
| Scheduler (`scheduler.mjs`) | none between passes | one pass: mark stale workers, recover expired work, list, place, lease | one long READ COMMITTED transaction under an advisory lock |
| Scheduler runner and app (`scheduler-runner.mjs`, `app.mjs`) | pending flag, drain promise, timer, stopping | trigger (coalesced), stop, timer cycle, ordered shutdown | scheduler, HTTP server, relay, database |
| Data-plane relay (`data-plane-relay.mjs`) | map of pair entries, revalidation promise and pending flag | upgrade, accept, pair, activate, forward, time out, revalidate, stop | service (authorization), event notifications, sockets |
| Event log and stream (`postgres.mjs`, `http-server.mjs`) | `events`, one cursor and flush queue per client | append, notify, connect, flush, disconnect | LISTEN/NOTIFY, HTTP responses |
| Worker agent (`src/worker/agent.mjs`) | `inFlight`, `sessionLeases`, pending operations | poll, run a job, run a session, renew, report, stop | HTTP requests with a timeout; adapters; relay |
| SQLite backend (`database.mjs`, `persistence/sqlite.mjs`) | the same tables in one file, the promise chain `#tail` | the same operations, queued one behind the other; close | one connection |
| Broker (`src/broker/*.py`, `broker-claim-service.mjs`) | claims, host bindings, synthetic probe events, local ledger; attempts and fences at the control plane | start with quarantine, reserve, observe, capture, spawn, claim, cancel, stop | control plane over HTTP, worker over a Unix socket |
| Adapter bridge and supervisor (`src/worker/approved-subprocess-adapters.mjs`, `adapter-subprocess-supervisor.mjs`, `adapter-ipc-v1.mjs`) | queue and pump of the bridge; mode, timers and buffers of the supervisor | start, forward, end, acknowledge, terminate | child process, data-plane socket |
| SDKs, CLI, dashboard, infrastructure | | | HTTP API |

What is hard here:

* a pass is many statements, and requests of any replica commit between them;
* requests read the clock before their transaction, and clocks differ;
* leases expire silently; a late holder may still report;
* every `await` of the relay is a window for socket closes, timers, lease loss
  and event notifications;
* requests of the agent time out and are served later, answers are lost, the
  agent restarts under the same worker id;
* sequence numbers of events are given before they become visible;
* triggers, failing passes and shutdown of a replica race;
* on SQLite, operations that await share one connection: only the order of a
  promise chain keeps one out of the transaction of another;
* the broker may be killed between any two writes of its journal, and a request
  it has given up may still be served;
* end of input, end acknowledgement, exit, hang-up, cancellation and two deadlines
  of an adapter process arrive in any order.

What makes each part correct: one holder per GPU, fenced GPUs left alone, bounded
retries, no completion by a superseded holder, final work stays final, waiting
work is placed (control plane); both ends or none, no forwarding without a lease,
nothing left after stop (relay); a lease is executed at most once, lost work is
aborted, stop is clean (agent); in order, once, without gaps (events); an
answered request had its pass, which scheduled it or was refused the lock, every
commit is scheduled in the end, and the database closes last (runner); what a caller
was told survives a crash, and every call settles (SQLite); an attempt is sent once,
an acknowledged one is held, and it has at most one child (broker); a completion
that is reported to the client really happened, and the bridge returns only after
its process is gone (adapter).
`PROJECT.json` lists the hazards line by line.

## Modules

| Module | Models | Run by |
|---|---|---|
| `GpuLeasing` | the promise of the control plane about GPUs, in the abstract | through its two implementations |
| `ControlPlane` | service, PostgreSQL persistence and scheduling pass | `MCControlPlane` |
| `SqliteControlPlane` | the same on SQLite: chain, transactions, restart | `MCSqliteControlPlane` |
| `SchedulerRunner` | runner, timer and shutdown of one replica | `MCSchedulerRunner` |
| `DataPlaneRelay` | the relay of one replica, with the session rows it observes | `MCDataPlaneRelay` |
| `WorkerAgent` | one agent, with the rows it observes and its requests | `MCWorkerAgent` |
| `EventStream` | events table and the streams of one replica | `MCEventStream` |
| `Broker` | local broker with the attempts and fences of the control plane | `MCBroker` |
| `Adapter` | bridge, supervisor and process of one subprocess session | `MCAdapter` |
| `ControlPlane_proofs`, `SqliteControlPlane_proofs`, `SchedulerRunner_proofs`, `DataPlaneRelay_proofs`, `WorkerAgent_proofs`, `EventStream_proofs`, `Broker_proofs`, `Adapter_proofs` | TLAPS proofs about the module they are named after | |

Operators named `Mut...` are variants of the definition after them with a
plausible mistake; `PROJECT.json` names the property that each one breaks. They
are not part of any specification.

### ControlPlane

`row` holds the committed rows of jobs and sessions; status names are those of
the code, `lease` numbers the lease ids, `count` is `attempt` of a job and
`interruption_count` of a session. `workers` and `fence` are the other tables.
`pass` is the open scheduling transaction: its program counter, the rows it has
written (`writes`, invisible and locked until it commits), and the lists it has
read. `issued` and `done` are history variables: the lease tokens handed out and
the lease that finished a job.

A service operation is a single transaction with one guarded UPDATE, so it is one
action whose guard is the WHERE clause. A pass is a sequence of actions, one per
query (`BeginPass`, `RecoverExpiredJobs`, `RecoverInterruptedSessions`,
`ListWorkers`, `ListOccupied`, `ListPending`, one `Assign`, `AssignMissed` or
`SkipUnplaceable` per pending item, `CommitPass`), and `AbortPass` is a failure
or crash at any point. Only one pass is open at a time: `pg_try_advisory_xact_lock`
makes the others return at once. Adjacent reads are one action where nothing in
between can make a difference; comments at the definitions say why.

Time is relative: `ttl`, `age` and `lag` are differences to the most advanced
clock. `lag` is how stale the `now` of a request or pass is when it is compared.
Values that no comparison can tell apart are saturated, so the state space is
finite without a bound on time.

Placement is the set of admissible candidates (`Candidates`): online, not
draining, fresh, no fence, free GPU, and `Fits` for capabilities, adapter and
VRAM. Which candidate is preferred is left open.

### GpuLeasing and the two backends

`GpuLeasing` says what a lease is, without database, clock or pass: leases of one
commit may end and others be given, no two share a GPU, ids are never used twice, a
lease is not moved or edited, finished work gets none, and a GPU that was reserved
for an execution is out of reach of later leases. `ControlPlane` and
`SqliteControlPlane` each define `LeasingSpec`, an instance in which `grant` is
read off the committed rows, `over` is the set of final rows, `used` the ids of the
leases issued and `reserved` the fenced pairs. TLC checks it as a property of
`leasing` and `sqlite`, and `ImplementsLeasing` proves it for each: every commit is a
step of `GpuLeasing` or leaves its variables alone.

In `SqliteControlPlane` the statements of `database.mjs` are functions from a
database to a database. `db` is what the connection sees, `disk` what was
committed; `Restart` is a crash and drops everything but `disk`. `tail` is the
chain: a call is appended when it is made (`Request...`, `TriggerPass`,
`CallClose`) and runs when it is first (`Turn`), in several steps, because an
operation awaits between its statements. `Rollback` is a failure at any of them.
`told` records what callers were told.

### SchedulerRunner

Requests commit, then trigger; the timer triggers too. `drain` is where the pass of
the drain loop is: about to ask for the scheduler lock (`locking`), scheduling
(`running`), or refused (`skipped`). With `LockIsShared`, as on PostgreSQL, the pass
of another replica or a reservation may have the lock (`LockTaken`): `runOnce()` then
returns `acquired: false`, the loop goes on as after any other pass, and those that
wait are answered although nothing was scheduled (`SkipEnds`). SQLite always grants
the lock. `sees` are the commits that precede the lock query, `covered` those that a
finished pass has scheduled; a skipped pass adds none.
`app` follows the awaits of `stop()`: relay, server, runner, database. A pass
that fails while `runner.stop()` is not awaited yet ends the process (`crashed`),
because nothing handles the rejection.

### DataPlaneRelay

An entry has a lease, the connected roles, the phase of `tryPair` (`reading`,
`linking`), the answers it has read, and the flags `active` and `closed`. `reval`
is the loop of `revalidatePairs` with its snapshot `todo`. The session rows change
by the actions of the control plane (`StartSession`, `LeaseExpires`,
`RequeueSession`, `AllocateSession`, `CloseSession`); each commit puts `notice`
on its way. Frames are not modelled, except that any of them may fail the entry.

### WorkerAgent

A request is sent (`calls`), served (`Serve`) and answered (`run[x].answer`); it
may time out and still be served, or its answer may be lost. A session goes on
from its start to the grant of its data plane (`GrantIssued`), the socket
(`DataPlaneOpens`) and the handler, while a renewal loop may end it
(`RenewalStops`). `poll` is the assignment poll: two queries at the control plane,
then one synchronous application of the answer. `PollApply(ready)` takes up every job
of the answer and those of its sessions that a ready handler supports; the others
are left for a later poll (`HandlerFound`). `begun` is a history of executed
leases. Heartbeats do not appear: what they prevent, the loss of a lease, is open
(`TakeAway`). A worker has at most `GpuCount` leases because the control plane
gives one per GPU, which is what `ControlPlane` shows.

### Broker

The variables are the tables of the journal, the place the single-threaded broker
is at (`broker`), the requests on their way (`net`), and, of the control plane,
leases, attempts and fences. Every durable write and every exchange with the
control plane is a step of its own, and `Crash` fits between any two. `Start`
quarantines open claims, validates the journals and binds the socket; a socket
file left by a killed broker keeps it from starting until the operator removes it
(`RemoveSocket`). The control plane grants and ends leases at will, within what
`ControlPlane` shows: none on a GPU that is held or fenced.

### Adapter

`bridge` is `bridgeSubprocessSession` with its queue and `pump()`, `child` is
`startAdapterSubprocess` with its process. Every event handler and every stretch
between two awaits is one action. The process is any program: it may write every
frame in any order, ignore SIGTERM, stop reading, and exit with any code. It starts
no process of its own that holds its output open: the supervisor waits for the
`close` event of the process, which waits for the pipes too, and it kills only the
process it started.

### EventStream

`open` are transactions that have inserted an event and not committed. A
transaction has one event here; several in one transaction appear together and
are not told apart by the cursor. A flush is a read of one page
(`ListEventsAfter`: the ascending page behind the cursor) and a write with an await
between them, chained per client by `queue`.

## Runs

| Run | Instance | Shows | Distinct states |
|---|---|---|---|
| `leasing` | two workers that report the same GPU, a job with two attempts, a session | types; one holder per GPU; fenced GPUs left alone; holders online; attempts within budget; no completion by a superseded lease; final rows stay final; a new lease is usable; `GpuLeasing` is implemented | 855 000 |
| `recovery` | one worker whose GPU may vanish, a job and a session, clocks one unit late | leases that are not renewed are taken back; placeable work is placed | 297 000 |
| `sqlite` | one worker, two jobs and a session with idempotency keys, one client and the scheduler | what a caller was told is on disk, retries with one key make one row; `GpuLeasing` is implemented; a drained worker gets no lease; every call settles | 255 000 |
| `relay_pairing` | one session with two leases, two entries | a live pair has both ends; nothing is left after `stop()`; a closed entry never goes live | 919 000 |
| `relay_settling` | two leases, one entry, failing queries | entries settle, stale live pairs close | 50 000 |
| `agent` | a job or a session with two leases | clean stop; a lease is executed at most once; lost work ends; leases are taken up | 108 000 |
| `stream_delivery` | four events, pages of two, three retained | in order and once; delivery without a later event | 17 000 |
| `scheduler_runner` | three requests, a lock that others take | an answered request had its pass, and was scheduled by it unless it was refused the lock; the timer makes up for failed and skipped passes; order and end of shutdown | 26 900 |
| `broker` | three attempts on two GPUs, three leases, a local attempt | an attempt is sent once; what was acknowledged is held; one child per attempt, on a fenced GPU; every journal a crash leaves is accepted | 1 637 000 |
| `adapter` | two messages of the client, the last of them END or not, three frames of the process | a completion told to the client means that everything was written to the process, which acknowledged the end and exited with 0; the bridge returns with the process gone, and it returns | 1 514 000 |

Two runs end in a violation. Each states a sentence of the documentation that
the code does not keep; `PROJECT.json` quotes it.

| Run | What happens |
|---|---|
| `relay_late_link` | a lease lost during `tryPair` leaves a live pair without lease until another event |
| `stream_skipped` | an event that commits after a higher sequence number is never sent |

Limits of the code that are premises of the models or properties, not runs of
their own:

* a request that is delayed between its clock read and its UPDATE is accepted
  after the expiry, as long as the lease was not given away (`lag`);
* a socket that closes during a revalidation makes the loop throw, and the pairs
  behind it wait for the next event (`aborted` in `StalePairCloses`);
* a flush reads one page, so a client further behind waits for an unrelated event
  or request (the page in `EventReachesStream`);
* on PostgreSQL, a pass that read the workers before a drain committed may still
  lease to the drained worker (`docs/ARCHITECTURE.md` says it receives none). On
  SQLite the chain keeps them apart, which is what `DrainRespected` shows there;
* the leases route cuts its page of 100 jobs before it drops the finished ones, so
  a worker with more rows than that may not see an active one. `WorkerAgent` has
  fewer rows than `ListLimit`;
* a request whose pass finds the scheduler lock taken is answered unscheduled, and its
  commit waits for the timer or another trigger (`AnsweredHadItsPass`,
  `CommitIsScheduled`; `test/scheduler-advisory-lock.test.mjs`);
* an adapter process that leaves a grandchild with its output keeps the bridge
  waiting.

### Bounds

Two work items and one GPU are enough for a conflict, two workers with the same
GPU for one between workers; every conflict the invariants speak of is between two
rows, and the proofs lift every bound for the invariants and action properties. Two attempts
and one interruption reach both outcomes of recovery. A lease duration and
heartbeat timeout of 1 or 2 and a lag of 0 or 1 order expiry, staleness and a late
request in every way. The relay has two leases of a session, so that an entry of
an old lease meets one of a new lease. The agent has two leases per work item, so
that a job comes back, and starts with one item that is still to be done
(`MaxWork`), a job or a session: executions of two items meet only in `stop()` and
the poll, which treat each on its own. On SQLite one client and the scheduler are
enough for two operations in the chain, and `MaxLag` is 0: what a late `now` does is
the subject of `recovery`, and the statements compare it in the same way. The broker
has two attempts on one lease, a later lease of the same GPU, and an attempt on a
second GPU; one more attempt would meet the same fences. The client of the
adapter sends up to two messages, of which the last may be END: a message and its
END, or two messages and none. There is room for two frames in a pipe so that a
write may block, and three frames, the length of a whole conversation (ready, reply,
end). `Page`, `Retain` and `ListLimit` stand for 500, 10 000 and
100 and keep their order to the number of rows. `MaxLag`, `MaxSeq`, `MaxQueue`,
`MaxEntries`, `MaxUpgrades`, `MaxLeases`, `MaxWork`, `MaxMessages`, `MaxFrames` and
`PipeRoom` are bounds of the model only. Workers
are symmetric in `leasing`, which checks no liveness.

`CHECK_DEADLOCK FALSE` is set for the relay and the runner, which end when they
are stopped, and for the adapter, whose session ends.

### Fairness

* `ControlPlane!FairSpec`: time passes, and passes that are begun go on and are
  begun again (`app.mjs` rearms its timer in `finally`). Clients and workers owe
  nothing. Rollbacks are left out: they leave no trace, so this is the behaviour
  after the last one.
* `SchedulerRunner!FairSpec`: accepted requests are carried out, the timer fires,
  passes end and do not all fail, the lock is not taken by others every time, `stop()`
  goes on.
* `DataPlaneRelay!Fairness`: queries are answered, timers fire, notifications
  arrive. Endpoints owe nothing.
* `WorkerAgent!Fairness`: a request is answered or times out, polls go on and
  succeed again and again, also while the handlers of the sessions are ready, an
  adapter ends once it is aborted.
* `EventStream!FairSpec`: notifications arrive and queries are answered. The
  database may fail; delivery is stated for behaviours in which it does not,
  because nothing in the code repeats a failed query or opens a lost listener.
* `SqliteControlPlane!Spec`: the first operation of the chain goes on. Failures and
  crashes may happen for ever.
* `Adapter!FairSpec`: runnable handlers run, timers that stay armed fire, SIGKILL
  kills, and an exited process closes. Nothing is asked of the process, the client
  or the session's parent. `BridgeReturns` is what `WorkerAgent` assumes of a session
  handler: it ends once it is aborted.
* `Broker!Spec` has no fairness; its properties are invariants.

## Proofs

Every invariant and every action property that a run checks is also a theorem, and
so are both refinements of `GpuLeasing`: for all values of the constants, from the
named assumption of the component's module only.

| Module | Theorems | Assumes |
|---|---|---|
| `ControlPlane_proofs` | `TypeCorrect`, `GpuNeverShared`, `FenceIsRespected`, `HoldersAreOnline`, `ZombiesAreRefused`, `FinalStatusIsStable`, `AttemptsAreBounded`, `NewLeasesAreUsable`, `ImplementsLeasing` | `ConstantsAssumption` |
| `SqliteControlPlane_proofs` | `TypeCorrect`, `AnswersAreDurable`, `DrainIsRespected`, `ImplementsLeasing` | `SqliteAssumption` |
| `Broker_proofs` | `TypeCorrect`, `NeverSentTwice`, `AcknowledgedStaysHeld`, `ChildIsFenced`, `RestartNeverRefuses` | `BrokerAssumption` |
| `WorkerAgent_proofs` | `TypeCorrect`, `StopLeavesNoExecution`, `LeaseRunsOnce` | `AgentAssumption` |
| `DataPlaneRelay_proofs` | `TypeCorrect`, `LivePairsAreComplete`, `StopLeavesNothing`, `ClosedStaysDown` | `RelayAssumption` |
| `SchedulerRunner_proofs` | `ClosesLast`, `AnswersHadTheirPass` | nothing: for any set of requests, and the lock shared or not |
| `EventStream_proofs` | `TypeCorrect`, `SentInOrderOnce` | `StreamAssumption` |
| `Adapter_proofs` | `TypeCorrect`, `CompletionIsHonest`, `ReturnsWhenAlone` | `BoundsAssumption` |

The assumptions say that jobs and sessions are apart, that `None` is no element of
the sets it stands beside, and that durations, limits and bounds are natural
numbers, positive where the code's configuration makes them so. `WorkerAgent` adds
`GpuCount <= ListLimit`: no worker has more GPUs than the leases route lists.

Each module has one inductive invariant `IInv` (`Inductive`), a lemma per action or
per group of actions with the same effect, and a step lemma that puts them together.
What the invariants add, and why:

**ControlPlane.** `GpuExclusive` is not inductive: a pass has written rows nobody
sees and works with lists it has read earlier. `IInv` adds

* `RowsOK(row)` and `RowsOK(Seen)`: committed rows, and rows as the pass sees
  them, are exclusive, unfenced for others and with online holders;
* `PassOK`: what the pass may have written at each statement, that its list of
  occupied GPUs covers every row that is held *now*, that its free resources are
  unfenced and their workers online, and that workers it marked stale hold
  nothing once recovery is over;
* `LeasesOK`: lease ids grow from the issued ones to those of the open pass, and
  a finished job was finished by the latest.

The argument for the lists is that only a pass makes a row held and only a
reservation sets a fence, and both need the advisory lock: concurrent commits can
only free what the pass believes occupied. Row locks keep the rows that the pass
has written from changing under it. The steps of clients and holders are first
reduced to a common form (`RowStepInv`).

`JInv` (`GrantsInductive`) adds what a commit gives. `GrantsOK`: a lease in
`pass.writes` is on a resource that the pass found free, and has an id of its own
that is later than all committed ones. `FreshOK`: the workers of free resources were
fresh when they were listed, or have sent a heartbeat since. `BudgetOK`: the tokens
issued for a job or session are counted by its row, and a row that waits has one to
spare, in the table and in the writes of the pass. `AttemptsAreBounded` then needs
only that a commit adds at most one token per row. `ImplementsLeasing` shows that
the initial rows map to the initial state of `GpuLeasing` and that each action maps
to one of its steps or to none; the only action that gives leases is `CommitPass`.

**SqliteControlPlane.** The argument is about two databases. `Good` says what a
well-formed one is (exclusive GPUs and ids, one row per idempotency key and table).
`ChainOK`: only the head of the chain has begun, and with nothing begun `db = disk`.
`DataOK`: `db` follows from `disk` by the statements of one transaction, a round of
ordinary ones (`RoundTo`) or a reservation (`ReserveTo`). A commit is then a step of
`GpuLeasing`, a rollback or crash is none, and a drain, which waits for its turn,
cannot lie between the listing of workers and the commit of a pass (`SameDrains`).
`SubmitsOK`, `OversOK` and `ToldOK` follow an answer from the statement that earns it
to the disk.

**Broker.** A second send or a second child is impossible because of where the
process is (`Busy`), what it has made durable before it went there (`ClaimsOK`,
`JournalsOK`) and what the control plane had written when it answered
(`AttemptsOK`: a fence that was taken stays with its attempt).

**WorkerAgent.** A lease is executed once because the control plane accepts one start
of it (`Spent`), the agent waits for one answer per execution (`CallsOK`), and an
execution that was told to go on, and waits for its data plane, is the only one of
its lease and has not begun (`StartsOK`). `StagesOK` says what each await of `stop()`
has waited for, and that it stays over.

**DataPlaneRelay.** `LivePairHasBothEnds` says nothing of an entry that waits in
`tryPair`; `Good` adds that such an entry, unless it is closed, has both sockets too.

**SchedulerRunner.** `StagesOK` says what each stage of `stop()` has put to rest,
`WaitersOK` that whoever waits for a drain finds it under way, and `CoalescingOK`
that a waiting request was committed before the lock query of the pass under way, or
a lock query is still to come, of this pass or of a follow-up.

**EventStream.** What may still be sent matters: at most one flush of a client has
read, the cursor has not moved since and is at or past the last event sent, and the
page is ascending and comes after the cursor (`StreamOK`).

**Adapter.** Two counts have to agree before a completion is told: every frame of
the process is in its pipe, was forwarded, or was one of the two of the handshake and
of END (`CountOK`); what was written is the front of what was accepted, and END can
only be its last (`WrittenOK`). `BridgeOK` says that an aborted bridge has a
terminated process, so neither count goes on behind its back, and that a bridge that
has returned has none.

Attempts at these proofs corrected two properties, each in a case that the instance
of its run does not reach:

* `NewLeaseIsUsable` bounded the age of the worker by `HeartbeatTimeout + MaxLag`. A
  heartbeat that is itself late, committed after the pass has listed the workers, may
  leave it older than that when `MaxLag` exceeds the timeout; the bound is now the
  larger of that and `2 * MaxLag`;
* `ToldIsDurable` counted the rows of a key in both tables. A job and a session may
  have the same key, since the code looks it up in one table; the property now counts
  the rows of the table in question.

Only model-checked: the liveness properties (`LeaseNeedsRenewal`,
`PlaceableIsPlaced`, `CallSettles`, `EntrySettles`, `StalePairCloses`,
`LostWorkEnds`, `LeaseIsTakenUp`, `EventReachesStream`, `CommitIsScheduled`,
`StopTerminates`, `BridgeReturns`), because fairness and ENABLED are beyond TLAPS, and
the two violations, which are counterexamples.

## Not modelled

Authentication, validation of bodies, signing and parsing of grants, payloads and
frame layout, because no state depends on more than their outcome; audit and event
rows of a transaction beyond `EventStream`; migrations and the copy script from
SQLite to PostgreSQL, which run alone; placement preference, which chooses among
candidates that are all admissible; the synthetic ASR protocol; SDKs, whose freedom
to connect, send and close is open in the relay; CLI; dashboard; deployment.
`PROJECT.json` gives the reason for each.

## Plan

1. The premises that components take from each other, as theorems where they are
   safety: the leases of the control plane as `Broker` sees them implement
   `GpuLeasing` (no lease on a GPU that is held or fenced), and so do the session rows
   of `DataPlaneRelay` and the rows of `WorkerAgent`.
2. Action properties worth adding with their proofs: a fence epoch is never reused
   and a quarantined claim never becomes usable again (`Broker`); the cursor of a
   stream never goes back while it is open (`EventStream`).

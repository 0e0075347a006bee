---------------------------- MODULE ControlPlane ----------------------------
(***************************************************************************)
(* The durable core of GPULink: the rows of the jobs, sessions, workers    *)
(* and gpu_resource_fences tables, the service operations that update      *)
(* them, and the scheduling pass that runs beside them.                    *)
(*                                                                         *)
(* A service operation is one short PostgreSQL transaction and is atomic   *)
(* here.  A scheduling pass is one long READ COMMITTED transaction: every  *)
(* statement reads what is committed at that moment, the pass sees its own *)
(* writes, a row it has written stays locked until it ends, and all of its *)
(* writes become visible together.  row holds the committed rows and       *)
(* pass.writes the uncommitted ones, so the operations of other replicas   *)
(* interleave with the statements of the pass.                             *)
(*                                                                         *)
(* Time is relative.  With clock the most advanced of the replicas' clocks *)
(*   ttl = lease_expires_at - clock      (of a row that holds a lease)     *)
(*   age = clock - last_seen_at          (of a worker)                     *)
(*   lag = clock - now                   (of a request or of the pass)     *)
(* A request reads now = clock() before its transaction and may be delayed *)
(* by the pool, by a row lock or by the skew between replicas: lag ranges  *)
(* over 0..MaxLag.  Comparisons of the code become comparisons of ttl, age *)
(* and lag; values beyond the reach of every comparison are saturated.     *)
(***************************************************************************)
EXTENDS Integers, FiniteSets

CONSTANTS
    Workers,          \* worker ids
    Gpus,             \* GPU UUIDs
    Jobs, Sessions,   \* ids of the work that may be submitted
    None,             \* SQL NULL for worker and gpu columns
    Inventories,      \* the GPU sets a worker may report
    Fits,             \* <<work, gpu>>: capabilities, adapter and VRAM suffice
    Priority,         \* priority column
    MaxAttempts,      \* max_attempts column of a job
    MaxInterruptions, \* max_interruptions column of a session
    LeaseTtl,         \* leaseDurationMs
    HeartbeatTimeout, \* heartbeatTimeoutMs
    MaxLag            \* bound: how stale the now of a request or pass can be

Work == Jobs \cup Sessions

ASSUME ConstantsAssumption ==
    /\ Jobs \cap Sessions = {}
    /\ None \notin Workers \cup Gpus
    /\ Inventories \subseteq SUBSET Gpus
    /\ Fits \subseteq Work \X Gpus
    /\ Priority \in [Work -> Int]
    /\ MaxAttempts \in [Jobs -> Nat \ {0}]
    /\ MaxInterruptions \in [Sessions -> Nat]
    /\ LeaseTtl \in Nat \ {0}
    /\ HeartbeatTimeout \in Nat \ {0}
    /\ MaxLag \in Nat

VARIABLES
    row,       \* committed rows of jobs and sessions
    workers,   \* committed rows of workers
    fence,     \* lease that holds a (worker, gpu) fence, 0 when there is none
    pass,      \* the scheduling transaction that holds the advisory lock
    nextLease, \* createId("lease"): no committed lease id is used again
    issued,    \* history: the lease tokens handed out by committed passes
    done       \* history: the lease whose holder finished a job, or 0

vars == <<row, workers, fence, pass, nextLease, issued, done>>

----------------------------------------------------------------------------
(* Rows *)

PendingStatus == {"queued", "requested"}
JobHeld       == {"leased", "running"}
SessionHeld   == {"allocated", "connecting", "active"}
HeldStatus    == JobHeld \cup SessionHeld
FinalStatus   == {"succeeded", "failed", "cancelled", "closed", "interrupted"}
Status        == {"absent"} \cup PendingStatus \cup HeldStatus \cup FinalStatus

Row == [status : Status, worker : Workers \cup {None}, gpu : Gpus \cup {None},
        lease : Nat, ttl : Int, count : Nat]

Worker == [status : {"absent", "online", "offline"}, drain : BOOLEAN,
           age : Nat, gpus : SUBSET Gpus]

(* A pass that has written the rows of S. *)
Pass(S) ==
    [pc : {"idle", "recoverJobs", "recoverSessions", "listWorkers",
           "listOccupied", "listPending", "assign"},
     lag : 0 .. MaxLag, stale : SUBSET Workers, writes : [S -> Row],
     free : SUBSET (Workers \X Gpus), occupied : SUBSET Gpus,
     pending : SUBSET Work, lease : Nat]

Token == [work : Work, worker : Workers, lease : Nat]

Lags == 0 .. MaxLag

Held(r)    == r.status \in HeldStatus
Pending(r) == r.status \in PendingStatus
Final(r)   == r.status \in FinalStatus

(* The columns a row loses when its lease is taken away. *)
Released(r, s) ==
    [status |-> s, worker |-> None, gpu |-> None, lease |-> 0, ttl |-> 0,
     count |-> r.count]

(* The columns an update sets that leaves worker, GPU and lease id alone. *)
Updated(r, s, ttl) == [r EXCEPT !.status = s, !.ttl = ttl]

EmptyRow == [status |-> "absent", worker |-> None, gpu |-> None,
             lease |-> 0, ttl |-> 0, count |-> 0]

NoWrites == [x \in {} |-> EmptyRow]

IdlePass == [pc |-> "idle", lag |-> 0, stale |-> {}, writes |-> NoWrites,
             free |-> {}, occupied |-> {}, pending |-> {}, lease |-> 0]

(* What the statements of the pass read: its own writes over the committed rows. *)
View(x) == IF x \in DOMAIN pass.writes THEN pass.writes[x] ELSE row[x]

(* Row locks: what the pass has written waits for its commit or rollback. *)
Unlocked(x)       == x \notin DOMAIN pass.writes
WorkerUnlocked(w) == w \notin pass.stale

Init ==
    /\ row = [x \in Work |-> EmptyRow]
    /\ workers = [w \in Workers |->
            [status |-> "absent", drain |-> FALSE, age |-> 0, gpus |-> {}]]
    /\ fence = [w \in Workers |-> [g \in Gpus |-> 0]]
    /\ pass = IdlePass
    /\ nextLease = 1
    /\ issued = {}
    /\ done = [x \in Work |-> 0]

----------------------------------------------------------------------------
(* Time *)

Older(r) ==
    IF Held(r) /\ r.ttl > 0 - MaxLag THEN [r EXCEPT !.ttl = r.ttl - 1] ELSE r

OldestAge == HeartbeatTimeout + MaxLag + 1

(* One unit of time passes for every lease, heartbeat and open transaction. *)
Tick ==
    /\ pass.pc # "idle" => pass.lag < MaxLag
    /\ row' = [x \in Work |-> Older(row[x])]
    /\ workers' = [w \in Workers |->
            IF workers[w].status # "absent" /\ workers[w].age < OldestAge
            THEN [workers[w] EXCEPT !.age = workers[w].age + 1]
            ELSE workers[w]]
    /\ pass' = IF pass.pc = "idle" THEN pass
               ELSE [pass EXCEPT
                        !.lag = pass.lag + 1,
                        !.writes = [x \in DOMAIN pass.writes |->
                                        Older(pass.writes[x])]]
    /\ UNCHANGED <<fence, nextLease, issued, done>>

----------------------------------------------------------------------------
(* Worker operations *)

(* What a worker reports at request time now: online, fresh, its inventory.  *)
(* Drain mode is not its to set.                                             *)
Reported(w, inventory, lag) ==
    workers' = [workers EXCEPT ![w] =
        [status |-> "online", drain |-> workers[w].drain,
         age |-> lag, gpus |-> inventory]]

(* registerWorker: upsert by name; a known worker keeps its drain mode. *)
RegisterWorker(w, inventory, lag) ==
    /\ WorkerUnlocked(w)
    /\ Reported(w, inventory, lag)
    /\ UNCHANGED <<row, fence, pass, nextLease, issued, done>>

(* heartbeatWorker: an unknown worker is refused; last_seen_at may go back. *)
HeartbeatWorker(w, inventory, lag) ==
    /\ workers[w].status # "absent"
    /\ WorkerUnlocked(w)
    /\ Reported(w, inventory, lag)
    /\ UNCHANGED <<row, fence, pass, nextLease, issued, done>>

SetWorkerDrain(w, drain) ==
    /\ workers[w].status # "absent"
    /\ WorkerUnlocked(w)
    /\ workers' = [workers EXCEPT ![w].drain = drain]
    /\ UNCHANGED <<row, fence, pass, nextLease, issued, done>>

----------------------------------------------------------------------------
(* Client and lease-holder operations on jobs and sessions *)

SetRow(x, r) ==
    /\ row' = [row EXCEPT ![x] = r]
    /\ UNCHANGED <<workers, fence, pass, nextLease, issued>>

(* insertJob / insertSession with a fresh id; a duplicate idempotency key *)
(* finds the existing row and changes nothing.                            *)
SubmitJob(j) ==
    /\ row[j].status = "absent"
    /\ SetRow(j, [row[j] EXCEPT !.status = "queued"])
    /\ UNCHANGED done

SubmitSession(s) ==
    /\ row[s].status = "absent"
    /\ SetRow(s, [row[s] EXCEPT !.status = "requested"])
    /\ UNCHANGED done

(* Mutation: the WHERE clause does not compare lease_id. *)
MutOwnsLease(t, statuses, lag) ==
    /\ Unlocked(t.work)
    /\ row[t.work].status \in statuses
    /\ row[t.work].worker = t.worker
    /\ row[t.work].ttl + lag > 0

(* The WHERE clause every lease-holder operation shares.  t is the token *)
(* the caller presents, current or long superseded.                      *)
OwnsLease(t, statuses, lag) ==
    /\ Unlocked(t.work)
    /\ row[t.work].status \in statuses
    /\ row[t.work].worker = t.worker
    /\ row[t.work].lease = t.lease
    /\ row[t.work].ttl + lag > 0

Renewed(r, s, lag) == Updated(r, s, LeaseTtl - lag)

StartJob(t, lag) ==
    /\ t.work \in Jobs
    /\ OwnsLease(t, {"leased"}, lag)
    /\ SetRow(t.work, Renewed(row[t.work], "running", lag))
    /\ UNCHANGED done

RenewJob(t, lag) ==
    /\ t.work \in Jobs
    /\ OwnsLease(t, {"running"}, lag)
    /\ SetRow(t.work, Renewed(row[t.work], "running", lag))
    /\ UNCHANGED done

(* finishJob also accepts a job that was leased and never started. *)
FinishJob(t, outcome, lag) ==
    /\ t.work \in Jobs
    /\ OwnsLease(t, JobHeld, lag)
    /\ SetRow(t.work, Updated(row[t.work], outcome, 0))
    /\ done' = [done EXCEPT ![t.work] = t.lease]

(* cancelJob keeps worker, GPU and lease id in the row. *)
CancelJob(j) ==
    /\ Unlocked(j)
    /\ row[j].status \in {"queued"} \cup JobHeld
    /\ SetRow(j, Updated(row[j], "cancelled", 0))
    /\ UNCHANGED done

StartSession(t, lag) ==
    /\ t.work \in Sessions
    /\ OwnsLease(t, {"allocated"}, lag)
    /\ SetRow(t.work, Renewed(row[t.work], "connecting", lag))
    /\ UNCHANGED done

ActivateSession(t, lag) ==
    /\ t.work \in Sessions
    /\ OwnsLease(t, {"connecting"}, lag)
    /\ SetRow(t.work, Renewed(row[t.work], "active", lag))
    /\ UNCHANGED done

RenewSession(t, lag) ==
    /\ t.work \in Sessions
    /\ OwnsLease(t, SessionHeld, lag)
    /\ SetRow(t.work, Renewed(row[t.work], row[t.work].status, lag))
    /\ UNCHANGED done

CloseSession(s) ==
    /\ Unlocked(s)
    /\ row[s].status \in {"requested"} \cup SessionHeld
    /\ SetRow(s, Released(row[s], "closed"))
    /\ UNCHANGED done

----------------------------------------------------------------------------
(* Execution fences *)

(* Mutation: the reservation does not take the advisory lock. *)
MutReserveExecutionAttempt(t, lag) ==
    LET r == row[t.work]
        w == workers[t.worker]
    IN  /\ w.status = "online" /\ ~w.drain
        /\ w.age >= lag /\ w.age - lag < HeartbeatTimeout
        /\ OwnsLease(t, HeldStatus, lag)
        /\ r.gpu \in w.gpus
        /\ \A y \in Work \ {t.work} :
                ~(Held(row[y]) /\ row[y].worker = t.worker /\ row[y].gpu = r.gpu)
        /\ fence[t.worker][r.gpu] = 0
        /\ fence' = [fence EXCEPT ![t.worker][r.gpu] = t.lease]
        /\ UNCHANGED <<row, workers, pass, nextLease, issued, done>>

(* reserveExecutionAttempt: a broker turns a current lease into a durable  *)
(* hold on the exact (worker, gpu).  It takes the advisory lock of the     *)
(* scheduler and is refused while a pass is open.  No code clears a fence. *)
ReserveExecutionAttempt(t, lag) ==
    LET r == row[t.work]
        w == workers[t.worker]
    IN  /\ pass.pc = "idle"
        /\ w.status = "online" /\ ~w.drain
        /\ w.age >= lag /\ w.age - lag < HeartbeatTimeout
        /\ OwnsLease(t, HeldStatus, lag)
        /\ r.gpu \in w.gpus
        /\ \A y \in Work \ {t.work} :
                ~(Held(row[y]) /\ row[y].worker = t.worker /\ row[y].gpu = r.gpu)
        /\ fence[t.worker][r.gpu] = 0
        /\ fence' = [fence EXCEPT ![t.worker][r.gpu] = t.lease]
        /\ UNCHANGED <<row, workers, pass, nextLease, issued, done>>

----------------------------------------------------------------------------
(* The scheduling pass, statement by statement *)

(* tryAcquireSchedulerLock, now = clock(), markStaleWorkersOffline. *)
BeginPass(lag) ==
    /\ pass.pc = "idle"
    /\ pass' = [IdlePass EXCEPT
            !.pc = "recoverJobs",
            !.lag = lag,
            !.lease = nextLease,
            !.stale = {w \in Workers : /\ workers[w].status = "online"
                                       /\ workers[w].age - lag > HeartbeatTimeout}]
    /\ UNCHANGED <<row, workers, fence, nextLease, issued, done>>

(* Mutation: the rows of workers just marked offline are left alone. *)
MutExpiredOnly(x, statuses) ==
    row[x].status \in statuses /\ row[x].ttl + pass.lag <= 0

(* Mutation: an expired lease of a worker that still reports is left alone. *)
MutStaleOnly(x, statuses) ==
    row[x].status \in statuses /\ row[x].worker \in pass.stale

(* Rows the recovery statements pick: the lease ran out by the clock of the *)
(* pass, or the worker has just been marked offline.                        *)
Interrupted(x, statuses) ==
    /\ row[x].status \in statuses
    /\ row[x].ttl + pass.lag <= 0 \/ row[x].worker \in pass.stale

(* Mutation: off by one in the attempt budget. *)
MutRecoveredJob(j) ==
    Released(row[j], IF row[j].count > MaxAttempts[j] THEN "failed" ELSE "queued")

(* Mutation: the name of the event is written as the status. *)
MutRequeuedJob(j) ==
    Released(row[j], IF row[j].count >= MaxAttempts[j] THEN "failed" ELSE "requeued")

RecoveredJob(j) ==
    Released(row[j], IF row[j].count >= MaxAttempts[j] THEN "failed" ELSE "queued")

RecoveredSession(s) ==
    LET n == row[s].count + 1
    IN  [Released(row[s], IF n <= MaxInterruptions[s] THEN "requested"
                                                      ELSE "interrupted")
            EXCEPT !.count = n]

RecoverExpiredJobs ==
    /\ pass.pc = "recoverJobs"
    /\ pass' = [pass EXCEPT
            !.pc = "recoverSessions",
            !.writes = [j \in {k \in Jobs : Interrupted(k, JobHeld)} |->
                            RecoveredJob(j)]]
    /\ UNCHANGED <<row, workers, fence, nextLease, issued, done>>

RecoverInterruptedSessions ==
    /\ pass.pc = "recoverSessions"
    /\ pass' = [pass EXCEPT
            !.pc = "listWorkers",
            !.writes = [x \in DOMAIN pass.writes
                              \cup {s \in Sessions : Interrupted(s, SessionHeld)} |->
                            IF x \in Jobs THEN View(x) ELSE RecoveredSession(x)]]
    /\ UNCHANGED <<row, workers, fence, nextLease, issued, done>>

(* Mutation: placement ignores the blocked resources. *)
MutListWorkers ==
    /\ pass.pc = "listWorkers"
    /\ pass' = [pass EXCEPT
            !.pc = "listOccupied",
            !.free = {p \in Workers \X Gpus :
                        LET w == workers[p[1]]
                        IN  /\ w.status = "online" /\ p[1] \notin pass.stale
                            /\ ~w.drain
                            /\ w.age - pass.lag <= HeartbeatTimeout
                            /\ p[2] \in w.gpus}]
    /\ UNCHANGED <<row, workers, fence, nextLease, issued, done>>

(* listBlockedGpuResources and listWorkers: the (worker, gpu) pairs that   *)
(* choosePlacement will consider.  Fences cannot change while the advisory *)
(* lock is held; worker rows can.                                          *)
ListWorkers ==
    /\ pass.pc = "listWorkers"
    /\ pass' = [pass EXCEPT
            !.pc = "listOccupied",
            !.free = {p \in Workers \X Gpus :
                        LET w == workers[p[1]]
                        IN  /\ w.status = "online" /\ p[1] \notin pass.stale
                            /\ ~w.drain
                            /\ w.age - pass.lag <= HeartbeatTimeout
                            /\ p[2] \in w.gpus
                            /\ fence[p[1]][p[2]] = 0}]
    /\ UNCHANGED <<row, workers, fence, nextLease, issued, done>>

(* Mutation: sessions do not occupy their GPU. *)
MutListOccupied ==
    /\ pass.pc = "listOccupied"
    /\ pass' = [pass EXCEPT
            !.pc = "listPending",
            !.occupied = {View(x).gpu : x \in {y \in Jobs : Held(View(y))}}]
    /\ UNCHANGED <<row, workers, fence, nextLease, issued, done>>

(* listActiveJobs and listOccupyingSessions.  Only a pass makes a row held, *)
(* so what a commit between the two statements frees is still in the set.   *)
ListOccupied ==
    /\ pass.pc = "listOccupied"
    /\ pass' = [pass EXCEPT
            !.pc = "listPending",
            !.occupied = {View(x).gpu : x \in {y \in Work : Held(View(y))}}]
    /\ UNCHANGED <<row, workers, fence, nextLease, issued, done>>

(* Mutation: requested sessions are not listed. *)
MutListPending ==
    /\ pass.pc = "listPending"
    /\ pass' = [pass EXCEPT
            !.pc = "assign",
            !.pending = {x \in Jobs : Pending(View(x))}]
    /\ UNCHANGED <<row, workers, fence, nextLease, issued, done>>

(* listQueuedJobs and listRequestedSessions. *)
ListPending ==
    /\ pass.pc = "listPending"
    /\ pass' = [pass EXCEPT
            !.pc = "assign",
            !.pending = {x \in Work : Pending(View(x))}]
    /\ UNCHANGED <<row, workers, fence, nextLease, issued, done>>

(* comparePendingWork; created_at and id only break ties. *)
IsNext(x) ==
    /\ pass.pc = "assign"
    /\ x \in pass.pending
    /\ \A y \in pass.pending : Priority[y] <= Priority[x]

(* choosePlacement: the candidates among which it picks the best match. *)
Candidates(x) ==
    {p \in pass.free : p[2] \notin pass.occupied /\ <<x, p[2]>> \in Fits}

SkipUnplaceable(x) ==
    /\ IsNext(x)
    /\ Candidates(x) = {}
    /\ pass' = [pass EXCEPT !.pending = pass.pending \ {x}]
    /\ UNCHANGED <<row, workers, fence, nextLease, issued, done>>

Leased(r, x, p) ==
    [status |-> IF x \in Jobs THEN "leased" ELSE "allocated",
     worker |-> p[1], gpu |-> p[2], lease |-> pass.lease,
     ttl |-> LeaseTtl - pass.lag,
     count |-> IF x \in Jobs THEN r.count + 1 ELSE r.count]

(* Mutation: the assignment does not check that the row still waits. *)
MutAssign(x, p) ==
    /\ IsNext(x)
    /\ p \in Candidates(x)
    /\ Unlocked(x) \/ Pending(View(x))
    /\ pass' = [pass EXCEPT
            !.pending = pass.pending \ {x},
            !.occupied = pass.occupied \cup {p[2]},
            !.lease = pass.lease + 1,
            !.writes = [y \in DOMAIN pass.writes \cup {x} |->
                            IF y = x THEN Leased(View(x), x, p) ELSE View(y)]]
    /\ UNCHANGED <<row, workers, fence, nextLease, issued, done>>

(* assignJob / assignSession: WHERE status is still queued / requested. *)
Assign(x, p) ==
    /\ IsNext(x)
    /\ p \in Candidates(x)
    /\ Pending(View(x))
    /\ pass' = [pass EXCEPT
            !.pending = pass.pending \ {x},
            !.occupied = pass.occupied \cup {p[2]},
            !.lease = pass.lease + 1,
            !.writes = [y \in DOMAIN pass.writes \cup {x} |->
                            IF y = x THEN Leased(View(x), x, p) ELSE View(y)]]
    /\ UNCHANGED <<row, workers, fence, nextLease, issued, done>>

(* The row was cancelled or closed since it was listed: no row is updated. *)
AssignMissed(x) ==
    /\ IsNext(x)
    /\ Candidates(x) # {}
    /\ ~Pending(View(x))
    /\ pass' = [pass EXCEPT !.pending = pass.pending \ {x}]
    /\ UNCHANGED <<row, workers, fence, nextLease, issued, done>>

CommitPass ==
    /\ pass.pc = "assign" /\ pass.pending = {}
    /\ row' = [x \in Work |-> View(x)]
    /\ workers' = [w \in Workers |->
            IF w \in pass.stale THEN [workers[w] EXCEPT !.status = "offline"]
                                ELSE workers[w]]
    /\ issued' = issued \cup
            {[work |-> x, worker |-> View(x).worker, lease |-> View(x).lease] :
                x \in {y \in DOMAIN pass.writes : Held(pass.writes[y])}}
    /\ nextLease' = pass.lease
    /\ pass' = IdlePass
    /\ UNCHANGED <<fence, done>>

(* ROLLBACK: an error in any statement, or the replica dies.  Nobody has *)
(* seen the lease ids of the pass.                                       *)
AbortPass ==
    /\ pass.pc # "idle"
    /\ pass' = IdlePass
    /\ UNCHANGED <<row, workers, fence, nextLease, issued, done>>

----------------------------------------------------------------------------
WorkerNext ==
    \E w \in Workers :
        \/ \E inventory \in Inventories, lag \in Lags :
                \/ RegisterWorker(w, inventory, lag)
                \/ HeartbeatWorker(w, inventory, lag)
        \/ \E drain \in BOOLEAN : SetWorkerDrain(w, drain)

ClientNext ==
    \/ \E j \in Jobs : SubmitJob(j) \/ CancelJob(j)
    \/ \E s \in Sessions : SubmitSession(s) \/ CloseSession(s)

HolderNext ==
    \E t \in issued, lag \in Lags :
        \/ StartJob(t, lag)
        \/ RenewJob(t, lag)
        \/ \E outcome \in {"succeeded", "failed"} : FinishJob(t, outcome, lag)
        \/ StartSession(t, lag)
        \/ ActivateSession(t, lag)
        \/ RenewSession(t, lag)
        \/ ReserveExecutionAttempt(t, lag)

PassNext ==
    \/ \E lag \in Lags : BeginPass(lag)
    \/ RecoverExpiredJobs
    \/ RecoverInterruptedSessions
    \/ ListWorkers
    \/ ListOccupied
    \/ ListPending
    \/ \E x \in Work :
            \/ SkipUnplaceable(x)
            \/ \E p \in Workers \X Gpus : Assign(x, p)
            \/ AssignMissed(x)
    \/ CommitPass

SteadyNext == WorkerNext \/ ClientNext \/ HolderNext \/ PassNext \/ Tick

Next == SteadyNext \/ AbortPass

Spec == Init /\ [][Next]_vars

(* Clients and workers owe nothing.  Time passes, and the timer of every    *)
(* replica keeps triggering passes that run to their end.  FairSpec is the  *)
(* behaviour after the last rollback: a rolled back pass leaves nothing     *)
(* behind, so no state is lost by leaving rollbacks out.  Tick needs strong *)
(* fairness only because MaxLag stops it while a slow pass is open.         *)
FairSpec == Init /\ [][SteadyNext]_vars /\ WF_vars(PassNext) /\ SF_vars(Tick)

----------------------------------------------------------------------------
(* Properties *)

TablesOK ==
    /\ row \in [Work -> Row]
    /\ workers \in [Workers -> Worker]
    /\ fence \in [Workers -> [Gpus -> Nat]]
    /\ nextLease \in Nat \ {0}
    /\ issued \subseteq Token
    /\ done \in [Work -> Nat]

(* Types of the tables, of the histories and of the open pass. *)
TypeOK ==
    /\ TablesOK
    /\ \E S \in SUBSET Work : pass \in Pass(S)

(* One GPU serves one job or session, whatever client and worker requests *)
(* commit between the statements of a pass, and whichever worker reports  *)
(* the GPU.                                                               *)
GpuExclusive ==
    \A x, y \in Work :
        /\ Held(row[x]) /\ Held(row[y])
        /\ row[x].gpu = row[y].gpu
        => x = y

(* A reserved (worker, gpu) goes to no lease but the one that reserved it, *)
(* also after that lease has expired and its work has been requeued: the   *)
(* process on the GPU may still be running.                                *)
FenceBlocksReuse ==
    \A x \in Work :
        Held(row[x]) =>
            fence[row[x].worker][row[x].gpu] \in {0, row[x].lease}

(* When a worker is marked offline, the same commit takes every lease away *)
(* from it, and no pass leases to a worker it has just marked.             *)
HolderOnline ==
    \A x \in Work : Held(row[x]) => workers[row[x].worker].status = "online"

(* A job is leased at most max_attempts times and requeued only while an   *)
(* attempt is left; a session outlives at most max_interruptions losses.   *)
AttemptBudget ==
    /\ \A j \in Jobs :
        /\ Cardinality({t \in issued : t.work = j}) <= MaxAttempts[j]
        /\ row[j].status = "queued" => row[j].count < MaxAttempts[j]
    /\ \A s \in Sessions :
        Cardinality({t \in issued : t.work = s}) <= MaxInterruptions[s] + 1

(* The completion that is accepted is that of the last lease ever issued:  *)
(* a worker whose lease was superseded cannot finish the job, even when    *)
(* its report arrives after the job has been leased again.                 *)
NoZombieCompletion ==
    \A x \in Work : done[x] # 0 =>
        \A t \in issued : t.work = x => t.lease <= done[x]

(* No step takes a row out of a final status: a pass that listed a job     *)
(* before it was cancelled or finished does not bring it back.             *)
FinalIsFinal ==
    [][\A x \in Work : Final(row[x]) => row'[x].status = row[x].status]_vars

(* The worker of a new lease reported within the heartbeat timeout by the  *)
(* clock of the pass, or since then by a heartbeat that was itself late,   *)
(* and the GPU carried no fence.                                           *)
NewLeaseIsUsable ==
    [][\A x \in Work :
            Held(row'[x]) /\ row'[x].lease # row[x].lease =>
                /\ \/ workers'[row'[x].worker].age <= HeartbeatTimeout + MaxLag
                   \/ workers'[row'[x].worker].age <= 2 * MaxLag
                /\ fence[row'[x].worker][row'[x].gpu] = 0]_vars

(* Work that stays leased forever is renewed forever: the lease of a worker *)
(* that has vanished is taken away.                                         *)
LeaseNeedsRenewal ==
    \A x \in Work : <>[]Held(row[x]) => []<>(row[x].ttl > 0)

(* Some worker would be given x: online, not draining, fresh, and with a   *)
(* fitting GPU that no row holds and no fence blocks.                      *)
Usable(x) ==
    \E w \in Workers, g \in Gpus :
        /\ workers[w].status = "online" /\ ~workers[w].drain
        /\ workers[w].age <= HeartbeatTimeout
        /\ g \in workers[w].gpus /\ fence[w][g] = 0 /\ <<x, g>> \in Fits
        /\ \A y \in Work : Held(row[y]) => row[y].gpu # g

(* Pending work does not wait forever beside a GPU it could run on. *)
PlaceableIsPlaced ==
    \A x \in Work : []<>~(Pending(row[x]) /\ Usable(x))

(* The leases of the committed rows, seen as the abstract specification *)
(* sees them.                                                           *)
Leasing == INSTANCE GpuLeasing WITH
    grant <- [x \in Work |->
                IF Held(row[x])
                THEN [worker |-> row[x].worker, gpu |-> row[x].gpu,
                      lease |-> row[x].lease]
                ELSE [worker |-> "none", gpu |-> "none", lease |-> 0]],
    over <- {x \in Work : Final(row[x])},
    used <- {t.lease : t \in issued},
    reserved <- {p \in Workers \X Gpus : fence[p[1]][p[2]] # 0}

(* The rows keep the promise of GpuLeasing through every interleaving of   *)
(* requests with the statements of a pass, through rollbacks, expiry and   *)
(* reservations: leases are exclusive, have fresh ids, are never edited,   *)
(* never go to finished work and never to a reserved GPU.                  *)
LeasingSpec == Leasing!Spec
=============================================================================

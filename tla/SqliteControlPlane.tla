------------------------- MODULE SqliteControlPlane -------------------------
(***************************************************************************)
(* The control plane on SQLite: one process, one connection, and a promise *)
(* chain that runs one operation after the other.  An operation awaits     *)
(* between its statements, so others are called meanwhile and wait in the  *)
(* chain; the connection has no other protection from them.  What has been *)
(* committed survives a crash (journal_mode WAL, synchronous FULL).        *)
(*                                                                         *)
(* The statements are functions from a database to a database.  When no    *)
(* row matches the WHERE clause they return it unchanged, the service      *)
(* answers with a conflict and the transaction is rolled back.             *)
(*                                                                         *)
(* Time is relative: ttl = lease_expires_at - clock, age = clock -         *)
(* last_seen_at, lag = clock - now of an operation, whose now is read when *)
(* it is called and so grows while it waits.                               *)
(***************************************************************************)
EXTENDS Integers, Sequences

CONSTANTS
    Workers, Gpus, None,
    Jobs,             \* job ids, numbered in the order of their rows
    Sessions,         \* session ids
    Clients,          \* what the HTTP server runs side by side
    Scheduler,        \* the scheduler runner as a caller
    Key,              \* idempotency_key of a job or session, or None
    MaxAttempts, MaxInterruptions, LeaseTtl, HeartbeatTimeout,
    MaxLag            \* bound: how long an operation waits

Work    == Jobs \cup Sessions
Callers == Clients \cup {Scheduler}

ASSUME SqliteAssumption ==
    /\ Jobs \subseteq Nat /\ Jobs \cap Sessions = {}
    /\ None \notin Workers \cup Gpus \cup Work
    /\ Scheduler \notin Clients
    /\ MaxAttempts \in Nat \ {0} /\ MaxInterruptions \in Nat
    /\ LeaseTtl \in Nat \ {0} /\ HeartbeatTimeout \in Nat \ {0} /\ MaxLag \in Nat

VARIABLES
    db,      \* what the connection reads and writes
    disk,    \* the database as of the last COMMIT
    tail,    \* #tail: the callers that wait, the first one runs
    call,    \* the operation of each caller
    open,    \* not #closed
    issued,  \* history: the lease tokens of committed passes
    told     \* history: what callers were told had happened

vars == <<db, disk, tail, call, open, issued, told>>

JobHeld     == {"leased", "running"}
SessionHeld == {"allocated", "connecting", "active"}
FinalStatus == {"succeeded", "failed", "cancelled", "closed", "interrupted"}
Status      == {"absent", "queued", "requested"} \cup JobHeld \cup SessionHeld
                    \cup FinalStatus

Row == [status : Status, worker : Workers \cup {None}, gpu : Gpus \cup {None},
        lease : Nat, ttl : Int, count : Nat]

(* #migrate: the tables the transactions work on.  next stands for the lease *)
(* ids createId has not returned to anybody yet.                             *)
Database ==
    [row : [Work -> Row],
     workers : [Workers -> [status : {"absent", "online", "offline"},
                            drain : BOOLEAN, age : Nat]],
     fence : [Workers \X Gpus -> Nat],
     next : Nat]

Held(r)    == r.status \in JobHeld \cup SessionHeld
Pending(r) == r.status \in {"queued", "requested"}
Final(r)   == r.status \in FinalStatus

Released(r, s) == [status |-> s, worker |-> None, gpu |-> None, lease |-> 0,
                   ttl |-> 0, count |-> r.count]

Op(kind, x, w, lease) ==
    [kind |-> kind, work |-> x, worker |-> w, lease |-> lease, lag |-> 0,
     pc |-> "queued"]

NoCall == Op("none", None, None, 0)

Empty ==
    [row |-> [x \in Work |-> Released([count |-> 0], "absent")],
     workers |-> [w \in Workers |->
                    [status |-> "absent", drain |-> FALSE, age |-> 0]],
     fence |-> [p \in Workers \X Gpus |-> 0],
     next |-> 1]

Init ==
    /\ db = Empty
    /\ disk = Empty
    /\ tail = <<>>
    /\ call = [c \in Callers |-> NoCall]
    /\ open = TRUE
    /\ issued = {}
    /\ told = {}

----------------------------------------------------------------------------
(* Statements on workers *)

Online(d, o) ==
    [d EXCEPT !.workers[o.worker].status = "online",
              !.workers[o.worker].age = o.lag]

UpsertWorker(d, o) == Online(d, o)

UpdateWorkerHeartbeat(d, o) ==
    IF d.workers[o.worker].status = "absent" THEN d ELSE Online(d, o)

SetWorkerDrain(d, o, drain) ==
    IF d.workers[o.worker].status = "absent" THEN d
    ELSE [d EXCEPT !.workers[o.worker].drain = drain]

StaleWorkers(d, lag) ==
    {w \in Workers : /\ d.workers[w].status = "online"
                     /\ d.workers[w].age - lag > HeartbeatTimeout}

MarkStaleWorkersOffline(d, lag) ==
    [d EXCEPT !.workers = [w \in Workers |->
        IF w \in StaleWorkers(d, lag) THEN [d.workers[w] EXCEPT !.status = "offline"]
                                      ELSE d.workers[w]]]

----------------------------------------------------------------------------
(* Statements on jobs and sessions *)

SetRow(d, x, r) == [d EXCEPT !.row[x] = r]

(* Mutation: the UNIQUE constraint covers the id only. *)
MutSameKey(x, y) == x = y

(* UNIQUE(project_id, idempotency_key); NULL keys differ from each other. *)
SameKey(x, y) == Key[x] # None /\ Key[x] = Key[y]

InsertJob(d, o) ==
    IF \E y \in Jobs : d.row[y].status # "absent" /\ SameKey(o.work, y) THEN d
    ELSE SetRow(d, o.work, Released([count |-> 0], "queued"))

InsertSession(d, o) ==
    IF \E y \in Sessions : d.row[y].status # "absent" /\ SameKey(o.work, y) THEN d
    ELSE SetRow(d, o.work, Released([count |-> 0], "requested"))

(* The WHERE clause the statements of a lease holder share. *)
OwnsLease(d, o, statuses) ==
    LET r == d.row[o.work]
    IN  /\ r.status \in statuses
        /\ r.worker = o.worker /\ r.lease = o.lease
        /\ r.ttl + o.lag > 0

(* The lease holder moves the row on and its lease is renewed. *)
Advance(d, o, from, to) ==
    IF OwnsLease(d, o, from)
    THEN SetRow(d, o.work, [d.row[o.work] EXCEPT !.status = to,
                                                 !.ttl = LeaseTtl - o.lag])
    ELSE d

StartJob(d, o) == Advance(d, o, {"leased"}, "running")
RenewJob(d, o) == Advance(d, o, {"running"}, "running")

FinishJob(d, o) ==
    IF OwnsLease(d, o, JobHeld)
    THEN SetRow(d, o.work, [d.row[o.work] EXCEPT !.status = o.kind, !.ttl = 0])
    ELSE d

CancelJob(d, o) ==
    IF d.row[o.work].status \in {"queued"} \cup JobHeld
    THEN SetRow(d, o.work, [d.row[o.work] EXCEPT !.status = "cancelled", !.ttl = 0])
    ELSE d

StartSession(d, o)    == Advance(d, o, {"allocated"}, "connecting")
ActivateSession(d, o) == Advance(d, o, {"connecting"}, "active")
RenewSession(d, o)    == Advance(d, o, SessionHeld, d.row[o.work].status)

CloseSession(d, o) ==
    IF d.row[o.work].status \in {"requested"} \cup SessionHeld
    THEN SetRow(d, o.work, Released(d.row[o.work], "closed"))
    ELSE d

Lost(d, x, lag, stale, held) ==
    /\ d.row[x].status \in held
    /\ d.row[x].ttl + lag <= 0 \/ d.row[x].worker \in stale

RecoverExpiredJobs(d, lag, stale) ==
    [d EXCEPT !.row = [x \in Work |->
        IF x \in Jobs /\ Lost(d, x, lag, stale, JobHeld)
        THEN Released(d.row[x], IF d.row[x].count >= MaxAttempts THEN "failed"
                                                                 ELSE "queued")
        ELSE d.row[x]]]

RecoverInterruptedSessions(d, lag, stale) ==
    [d EXCEPT !.row = [x \in Work |->
        IF x \in Sessions /\ Lost(d, x, lag, stale, SessionHeld)
        THEN LET n == d.row[x].count + 1
             IN  Released([count |-> n],
                          IF n <= MaxInterruptions THEN "requested" ELSE "interrupted")
        ELSE d.row[x]]]

(* Mutation: only jobs are asked for the GPUs they hold. *)
MutOccupied(d) == {d.row[x].gpu : x \in {y \in Jobs : Held(d.row[y])}}

(* listActiveJobs and listOccupyingSessions. *)
Occupied(d) == {d.row[x].gpu : x \in {y \in Work : Held(d.row[y])}}

(* listBlockedGpuResources: every fence row that is not clear. *)
Blocked(d) == {p \in Workers \X Gpus : d.fence[p] # 0}

AssignRow(d, x, p, status, count, lag) ==
    [d EXCEPT !.next = d.next + 1,
              !.row[x] = [status |-> status, worker |-> p[1], gpu |-> p[2],
                          lease |-> d.next, ttl |-> LeaseTtl - lag,
                          count |-> count]]

AssignJob(d, j, p, lag) == AssignRow(d, j, p, "leased", d.row[j].count + 1, lag)

AssignSession(d, s, p, lag) == AssignRow(d, s, p, "allocated", d.row[s].count, lag)

(* The worker is online, not draining and fresh, the caller holds the lease, *)
(* nobody else holds the GPU, and the fence is free.  No code clears it.     *)
ReserveExecutionAttempt(d, o) ==
    LET w == d.workers[o.worker]
        p == <<o.worker, d.row[o.work].gpu>>
    IN  IF /\ w.status = "online" /\ ~w.drain
           /\ w.age >= o.lag /\ w.age - o.lag < HeartbeatTimeout
           /\ OwnsLease(d, o, JobHeld \cup SessionHeld)
           /\ \A y \in Work \ {o.work} :
                    ~(Held(d.row[y]) /\ <<d.row[y].worker, d.row[y].gpu>> = p)
           /\ d.fence[p] = 0
        THEN [d EXCEPT !.fence[p] = o.lease]
        ELSE d

(* The transaction of each request. *)
Statement(d, o) ==
    LET job == o.work \in Jobs
    IN  CASE o.kind = "register"  -> UpsertWorker(d, o)
          [] o.kind = "heartbeat" -> UpdateWorkerHeartbeat(d, o)
          [] o.kind = "drain"     -> SetWorkerDrain(d, o, TRUE)
          [] o.kind = "resume"    -> SetWorkerDrain(d, o, FALSE)
          [] o.kind = "submit"    -> IF job THEN InsertJob(d, o) ELSE InsertSession(d, o)
          [] o.kind = "start"     -> IF job THEN StartJob(d, o) ELSE StartSession(d, o)
          [] o.kind = "activate"  -> ActivateSession(d, o)
          [] o.kind = "renew"     -> IF job THEN RenewJob(d, o) ELSE RenewSession(d, o)
          [] o.kind \in {"succeeded", "failed"} -> FinishJob(d, o)
          [] o.kind = "end"       -> IF job THEN CancelJob(d, o) ELSE CloseSession(d, o)
          [] o.kind = "reserve"   -> ReserveExecutionAttempt(d, o)

----------------------------------------------------------------------------
(* Calls *)

Idle(c) == call[c] = NoCall

(* #enqueue: the operation is chained behind all earlier ones.  A call of a *)
(* closed database fails at once and is not a step.                         *)
Enqueue(c, o) ==
    /\ Idle(c) /\ open
    /\ call' = [call EXCEPT ![c] = o]
    /\ tail' = Append(tail, c)
    /\ UNCHANGED <<db, disk, open, issued, told>>

(* createId: a fresh id per submission, also when a client retries with its *)
(* key.  The ids are numbered in the order in which they get a row.         *)
Fresh(x) ==
    /\ db.row[x].status = "absent"
    /\ \A c \in Callers : ~(call[c].kind = "submit" /\ call[c].work = x)
    /\ x \in Jobs => \A y \in Jobs : y < x => db.row[y].status # "absent"

RequestWorker(c) ==
    \E kind \in {"register", "heartbeat", "drain", "resume"}, w \in Workers :
        Enqueue(c, Op(kind, None, w, 0))

RequestClient(c) ==
    \E x \in Work :
        \/ Fresh(x) /\ Enqueue(c, Op("submit", x, None, 0))
        \/ Enqueue(c, Op("end", x, None, 0))

RequestHolder(c) ==
    \E t \in issued :
        \E kind \in {"start", "renew", "reserve"} \cup
                    (IF t.work \in Jobs THEN {"succeeded", "failed"} ELSE {"activate"}) :
            Enqueue(c, Op(kind, t.work, t.worker, t.lease))

TriggerPass == Enqueue(Scheduler, Op("pass", None, None, 0))

(* close() is chained like any other operation. *)
CallClose(c) == Enqueue(c, Op("close", None, None, 0))

(* Mutation: operations do not wait for each other. *)
MutTurn(c) == ~Idle(c)

(* The chain has come to c. *)
Turn(c) == tail # <<>> /\ tail[1] = c

Goto(c, pc) == call' = [call EXCEPT ![c].pc = pc]

(* The promise of c settles and the next operation starts. *)
Settle(c) ==
    /\ call' = [call EXCEPT ![c] = NoCall]
    /\ tail' = Tail(tail)

(* BEGIN IMMEDIATE and the statements of a request. *)
Run(c) ==
    /\ Turn(c) /\ open /\ c # Scheduler
    /\ call[c].kind # "close" /\ call[c].pc = "queued"
    /\ db' = Statement(db, call[c])
    /\ Goto(c, "commit")
    /\ UNCHANGED <<disk, tail, open, issued, told>>

(* BEGIN IMMEDIATE and the recovery statements of a pass. *)
RunPass ==
    /\ Turn(Scheduler) /\ open /\ call[Scheduler].pc = "queued"
    /\ LET lag   == call[Scheduler].lag
           stale == StaleWorkers(db, lag)
       IN  db' = RecoverInterruptedSessions(
                    RecoverExpiredJobs(MarkStaleWorkersOffline(db, lag), lag, stale),
                    lag, stale)
    /\ Goto(Scheduler, "assign")
    /\ UNCHANGED <<disk, tail, open, issued, told>>

Placements ==
    {p \in Workers \X Gpus :
        LET w == db.workers[p[1]]
        IN  /\ w.status = "online" /\ ~w.drain
            /\ w.age - call[Scheduler].lag <= HeartbeatTimeout
            /\ p \notin Blocked(db) /\ p[2] \notin Occupied(db)}

(* The pass gives pending work a GPU; which work comes first is not told. *)
Assign(x, p) ==
    /\ Turn(Scheduler) /\ call[Scheduler].pc = "assign"
    /\ Pending(db.row[x]) /\ p \in Placements
    /\ db' = IF x \in Jobs THEN AssignJob(db, x, p, call[Scheduler].lag)
                           ELSE AssignSession(db, x, p, call[Scheduler].lag)
    /\ UNCHANGED <<disk, tail, call, open, issued, told>>

(* No pending work is left that could be placed. *)
EndPass ==
    /\ Turn(Scheduler) /\ call[Scheduler].pc = "assign"
    /\ Placements = {} \/ \A x \in Work : ~Pending(db.row[x])
    /\ Goto(Scheduler, "commit")
    /\ UNCHANGED <<db, disk, tail, open, issued, told>>

(* What the caller is told: a submission always finds a row, its own or the *)
(* earlier one of its key; the rest has succeeded if a row matched.         *)
Answer(o) ==
    IF o.kind = "submit" THEN {<<"present", o.work>>}
    ELSE IF o.kind \in {"end", "succeeded", "failed"} /\ db # disk
         THEN {<<"over", o.work>>}
    ELSE {}

(* COMMIT; only then does the caller get its answer. *)
Commit(c) ==
    /\ Turn(c) /\ call[c].pc = "commit"
    /\ disk' = db
    /\ told' = told \cup Answer(call[c])
    /\ issued' = issued \cup
            {[work |-> x, worker |-> db.row[x].worker, lease |-> db.row[x].lease] :
                x \in {y \in Work : Held(db.row[y])}}
    /\ Settle(c)
    /\ UNCHANGED <<db, open>>

(* Mutation: the chain waits for an operation that never settles. *)
MutRollback(c) ==
    /\ Turn(c) /\ call[c].pc # "queued"
    /\ db' = disk
    /\ Goto(c, "failed")
    /\ UNCHANGED <<disk, tail, open, issued, told>>

(* A statement or COMMIT fails: ROLLBACK, and the caller gets the error. *)
Rollback(c) ==
    /\ Turn(c) /\ call[c].pc # "queued"
    /\ db' = disk
    /\ Settle(c)
    /\ UNCHANGED <<disk, open, issued, told>>

(* #assertOpen fails. *)
Refuse(c) ==
    /\ Turn(c) /\ ~open
    /\ Settle(c)
    /\ UNCHANGED <<db, disk, open, issued, told>>

(* close(): subscribers are dropped and the database is closed. *)
Close(c) ==
    /\ Turn(c) /\ open /\ call[c].kind = "close"
    /\ open' = FALSE
    /\ Settle(c)
    /\ UNCHANGED <<db, disk, issued, told>>

(* The process ends, at whatever point, and a new one opens the file. *)
Restart ==
    /\ db' = disk
    /\ tail' = <<>>
    /\ call' = [c \in Callers |-> NoCall]
    /\ open' = TRUE
    /\ UNCHANGED <<disk, issued, told>>

Aged(d) ==
    [d EXCEPT
        !.row = [x \in Work |->
            IF Held(d.row[x]) /\ d.row[x].ttl > 0 - MaxLag
            THEN [d.row[x] EXCEPT !.ttl = d.row[x].ttl - 1] ELSE d.row[x]],
        !.workers = [w \in Workers |->
            IF d.workers[w].status # "absent"
               /\ d.workers[w].age <= HeartbeatTimeout + MaxLag
            THEN [d.workers[w] EXCEPT !.age = d.workers[w].age + 1] ELSE d.workers[w]]]

Tick ==
    /\ \A c \in Callers : Idle(c) \/ call[c].lag < MaxLag
    /\ db' = Aged(db)
    /\ disk' = Aged(disk)
    /\ call' = [c \in Callers |-> IF Idle(c) THEN NoCall
                                  ELSE [call[c] EXCEPT !.lag = call[c].lag + 1]]
    /\ UNCHANGED <<tail, open, issued, told>>

PassStep == RunPass \/ (\E x \in Work, p \in Workers \X Gpus : Assign(x, p)) \/ EndPass

ChainStep ==
    \/ \E c \in Callers : Run(c) \/ Commit(c) \/ Refuse(c) \/ Close(c)
    \/ PassStep

Next ==
    \/ \E c \in Clients : RequestWorker(c) \/ RequestClient(c) \/ RequestHolder(c)
    \/ \E c \in Clients : CallClose(c)
    \/ TriggerPass
    \/ ChainStep
    \/ \E c \in Callers : Rollback(c)
    \/ Restart
    \/ Tick

(* The event loop keeps running the chain: what its first operation awaits *)
(* settles.                                                                *)
Spec == Init /\ [][Next]_vars /\ WF_vars(ChainStep)

----------------------------------------------------------------------------
(* Properties *)

(* Types of the two databases, the chain and the calls. *)
TypeOK ==
    /\ db \in Database /\ disk \in Database
    /\ tail \in Seq(Callers)
    /\ open \in BOOLEAN
    /\ issued \subseteq [work : Work, worker : Workers, lease : Nat]

Leasing == INSTANCE GpuLeasing WITH
    grant <- [x \in Work |->
                IF Held(disk.row[x])
                THEN [worker |-> disk.row[x].worker, gpu |-> disk.row[x].gpu,
                      lease |-> disk.row[x].lease]
                ELSE [worker |-> "none", gpu |-> "none", lease |-> 0]],
    over <- {x \in Work : Final(disk.row[x])},
    used <- {t.lease : t \in issued},
    reserved <- Blocked(disk)

(* The committed rows keep the same promise about leases as the PostgreSQL *)
(* backend, through rollbacks and crashes at every statement.              *)
LeasingSpec == Leasing!Spec

(* docs/ARCHITECTURE.md: a drained worker receives no new leases.  Holds on *)
(* this backend: a drain request waits until the pass has ended.            *)
DrainRespected ==
    [][\A t \in issued' \ issued : ~disk.workers[t.worker].drain]_vars

(* What a caller was told is on disk and stays there, whatever is rolled    *)
(* back or crashes later: that the work is over, or that it was submitted;  *)
(* and however often a submission is retried with its idempotency key, also *)
(* while the first is waiting or after a crash has lost its answer, exactly *)
(* one job or one session comes out of it: a job and a session may have the *)
(* same key.                                                                *)
ToldIsDurable ==
    \A m \in told :
        IF m[1] = "over" THEN Final(disk.row[m[2]])
        ELSE \E y \in Work :
                {z \in Work : /\ disk.row[z].status # "absent"
                              /\ z \in Jobs <=> m[2] \in Jobs
                              /\ z = m[2] \/ (Key[z] # None /\ Key[z] = Key[m[2]])} = {y}

(* Every operation is answered, served or refused: a failed one, a close or *)
(* a pass in front of it does not block the chain.                          *)
CallSettles == \A c \in Callers : ~Idle(c) ~> Idle(c)
=============================================================================

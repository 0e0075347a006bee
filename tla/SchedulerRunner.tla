--------------------------- MODULE SchedulerRunner --------------------------
(***************************************************************************)
(* The life of one control-plane replica around its scheduler: requests    *)
(* that commit and then trigger a pass, the timer that triggers one, the   *)
(* runner that coalesces triggers, and the shutdown that closes the        *)
(* database last.  A pass is a whole here, but for the lock it asks for    *)
(* first; ControlPlane opens it up.                                        *)
(***************************************************************************)
EXTENDS Integers, FiniteSets

CONSTANTS
    Requests,      \* HTTP requests that change rows and trigger a pass
    LockIsShared   \* PostgreSQL: passes of other replicas and reservations take
                   \* the scheduler lock too.  SQLite always grants it

ASSUME LockAssumption == LockIsShared \in BOOLEAN

VARIABLES
    request,   \* where each request stands
    pending,   \* SchedulerRunner.#pending
    drain,     \* #drainPromise: no drain, or where its runOnce() is: before the
               \* lock query, scheduling, or refused the lock
    sees,      \* the requests whose commit precedes the lock query
    covered,   \* history: requests whose commit a finished pass has seen
    timer,     \* the reconciliation timer: armed, waiting for its pass, off
    app        \* "up", and how far stop() has come

vars == <<request, pending, drain, sees, covered, timer, app>>

Stopping == app # "up"

Init ==
    /\ request = [r \in Requests |-> "new"]
    /\ pending = FALSE
    /\ drain = "none"
    /\ sees = {}
    /\ covered = {}
    /\ timer = "armed"
    /\ app = "up"

----------------------------------------------------------------------------
(* Triggers *)

(* What a pass sees that begins now. *)
Committed == {r \in Requests : request[r] \notin {"new", "received"}}

(* Mutation: a trigger during a pass is taken to be served by that pass. *)
MutTrigger ==
    /\ pending' = FALSE
    /\ drain' = IF drain = "none" THEN "locking" ELSE drain

(* trigger(): pending is set; an idle runner starts to drain at once. *)
Trigger ==
    /\ pending' = (drain # "none")
    /\ drain' = IF drain = "none" THEN "locking" ELSE drain

(* The server accepts requests until it is closed. *)
Receive(r) ==
    /\ request[r] = "new" /\ app \in {"up", "relay"}
    /\ request' = [request EXCEPT ![r] = "received"]
    /\ UNCHANGED <<pending, drain, sees, covered, timer, app>>

(* The transaction of the request. *)
CommitRequest(r) ==
    /\ request[r] = "received"
    /\ request' = [request EXCEPT ![r] = "committed"]
    /\ UNCHANGED <<pending, drain, sees, covered, timer, app>>

(* Mutation: a trigger is left pending, not refused, when the runner stops. *)
MutTriggerRequest(r) ==
    /\ request[r] = "committed"
    /\ request' = [request EXCEPT ![r] = "waiting"]
    /\ IF Stopping THEN UNCHANGED <<pending, drain>> ELSE Trigger
    /\ UNCHANGED <<sees, covered, timer, app>>

(* scheduler.runOnce() after the commit: refused once the runner stops. *)
TriggerRequest(r) ==
    /\ request[r] = "committed"
    /\ IF Stopping
       THEN /\ request' = [request EXCEPT ![r] = "failed"]
            /\ UNCHANGED <<pending, drain>>
       ELSE /\ request' = [request EXCEPT ![r] = "waiting"]
            /\ Trigger
    /\ UNCHANGED <<sees, covered, timer, app>>

TriggerTimer ==
    /\ timer = "armed"
    /\ timer' = "waiting"
    /\ Trigger
    /\ UNCHANGED <<request, sees, covered, app>>

----------------------------------------------------------------------------
(* Passes *)

(* The pass gets the lock and schedules what is committed by then. *)
AcquireLock ==
    /\ drain = "locking"
    /\ drain' = "running"
    /\ sees' = Committed
    /\ UNCHANGED <<request, pending, covered, timer, app>>

(* Another replica's pass or a reservation has the lock: runOnce() returns  *)
(* acquired: false and schedules nothing.                                   *)
LockTaken ==
    /\ LockIsShared /\ drain = "locking"
    /\ drain' = "skipped"
    /\ sees' = Committed
    /\ UNCHANGED <<request, pending, covered, timer, app>>

(* The drain settles: those that wait for its promise go on, and finally the *)
(* timer is armed again, unless the replica stops.                           *)
Settle(answer) ==
    /\ drain' = "none"
    /\ request' = [r \in Requests |->
            IF request[r] = "waiting" THEN answer ELSE request[r]]
    /\ timer' = IF timer = "waiting" THEN (IF Stopping THEN "off" ELSE "armed")
                ELSE timer

(* runOnce() has returned to the drain loop: one more pass when a trigger    *)
(* came meanwhile.                                                           *)
Continue ==
    /\ sees' = {}
    /\ IF pending /\ ~Stopping
       THEN /\ pending' = FALSE
            /\ drain' = "locking"
            /\ UNCHANGED <<request, timer>>
       ELSE /\ Settle("answered")
            /\ UNCHANGED pending

(* A pass commits. *)
PassEnds ==
    /\ drain = "running"
    /\ covered' = covered \cup sees
    /\ Continue
    /\ UNCHANGED app

(* A pass that was skipped is no failure: the loop does not look at the     *)
(* result, and does not ask again for the lock.                             *)
SkipEnds ==
    /\ drain = "skipped"
    /\ Continue
    /\ UNCHANGED <<covered, app>>

(* Mutation: the timer is armed after a successful cycle only. *)
MutPassFails ==
    /\ drain # "none"
    /\ drain' = "none"
    /\ request' = [r \in Requests |->
            IF request[r] = "waiting" THEN "failed" ELSE request[r]]
    /\ timer' = IF timer = "waiting" THEN "off" ELSE timer
    /\ sees' = {}
    /\ app' = IF app \in {"relay", "closing"} THEN "crashed" ELSE app
    /\ UNCHANGED <<pending, covered>>

(* A pass throws out of the drain loop: pending stays as it is.  During     *)
(* shutdown nothing handles the rejection of runner.stop() until it is      *)
(* awaited, and an unhandled rejection ends the process.                    *)
PassFails ==
    /\ drain # "none"
    /\ Settle("failed")
    /\ sees' = {}
    /\ app' = CASE app \in {"relay", "closing"} -> "crashed"
                [] app = "runner"               -> "stopFailed"
                [] OTHER                        -> app
    /\ UNCHANGED <<pending, covered>>

----------------------------------------------------------------------------
(* Shutdown *)

(* stop(): the timer is cleared and the runner told, in one step. *)
Stop ==
    /\ app = "up"
    /\ app' = "relay"
    /\ pending' = FALSE
    /\ timer' = IF timer = "armed" THEN "off" ELSE timer
    /\ UNCHANGED <<request, drain, sees, covered>>

(* The relay has stopped and server.close() is called. *)
CloseServer ==
    /\ app = "relay"
    /\ app' = "closing"
    /\ UNCHANGED <<request, pending, drain, sees, covered, timer>>

Busy == {r \in Requests : request[r] \in {"received", "committed", "waiting"}}

(* server.close() calls back when every request is answered. *)
ServerClosed ==
    /\ app = "closing" /\ Busy = {}
    /\ app' = "runner"
    /\ UNCHANGED <<request, pending, drain, sees, covered, timer>>

(* Mutation: the runner is told to stop and not awaited. *)
MutCloseDatabase ==
    /\ app = "runner"
    /\ app' = "closed"
    /\ UNCHANGED <<request, pending, drain, sees, covered, timer>>

(* The runner's stop is awaited, then the database is closed. *)
CloseDatabase ==
    /\ app = "runner" /\ drain = "none"
    /\ app' = "closed"
    /\ UNCHANGED <<request, pending, drain, sees, covered, timer>>

----------------------------------------------------------------------------
RequestNext(r) == CommitRequest(r) \/ TriggerRequest(r)
PassNext == AcquireLock \/ LockTaken \/ PassEnds \/ SkipEnds \/ PassFails
StopNext == CloseServer \/ ServerClosed \/ CloseDatabase

Next ==
    \/ \E r \in Requests : Receive(r) \/ RequestNext(r)
    \/ TriggerTimer \/ PassNext
    \/ Stop \/ StopNext

Spec == Init /\ [][Next]_vars

(* Requests are carried out, the timer fires, passes go on, and not every   *)
(* one of them fails or finds the lock taken.  Clients and the operator owe *)
(* nothing.                                                                 *)
FairSpec ==
    /\ Spec
    /\ \A r \in Requests : WF_vars(RequestNext(r))
    /\ WF_vars(TriggerTimer) /\ WF_vars(PassNext)
    /\ SF_vars(AcquireLock) /\ SF_vars(PassEnds)
    /\ WF_vars(StopNext)

----------------------------------------------------------------------------
(* Properties *)

(* trigger() coalesces: a request is answered only when a pass that began   *)
(* after its commit has scheduled it, or has asked for the lock after its   *)
(* commit and was refused, also when its trigger came during another pass   *)
(* or after that pass was refused.  Where the lock is not shared, every     *)
(* answered request was scheduled.  stop() drops the follow-up pass.        *)
AnsweredHadItsPass ==
    [][\A r \in Requests :
          request[r] = "waiting" /\ request'[r] = "answered" /\ ~Stopping
              => \/ r \in covered'
                 \/ LockIsShared /\ drain = "skipped" /\ r \in sees]_vars

(* stop() keeps persistence open until the others have finished: no request *)
(* and no pass is left when the database closes, and no timer to start one. *)
ClosedIsQuiet ==
    app = "closed" => drain = "none" /\ Busy = {} /\ timer = "off"

(* The timer is the backstop of lost triggers: what is committed is         *)
(* scheduled, even when the pass that its request triggered failed or was   *)
(* refused the lock, unless the replica is told to stop.                    *)
CommitIsScheduled ==
    \A r \in Requests : (request[r] = "committed") ~> (r \in covered \/ Stopping)

(* stop() awaits relay, server, runner and database in turn: shutdown comes *)
(* to an end, in good order or not.                                         *)
StopTerminates ==
    Stopping ~> (app \in {"closed", "crashed", "stopFailed"})
=============================================================================

---------------------------- MODULE WorkerAgent -----------------------------
(***************************************************************************)
(* The worker agent: it polls the control plane for the work leased to it, *)
(* runs one execution per job and per session, and reports.  A request is  *)
(* three events here: it is sent, the control plane serves it, the answer  *)
(* is received.  A request that timed out may be served later, an answer   *)
(* may be lost, and the agent may be restarted at any point.               *)
(*                                                                         *)
(* The rows are the control plane's, reduced to what this worker can see.  *)
(* Renewal keeps a lease from being taken away; when a lease is taken away *)
(* is open here, so only a refused renewal is a step.                      *)
(***************************************************************************)
EXTENDS Integers, FiniteSets

CONSTANTS
    Jobs,        \* job ids, numbered in order of creation
    Sessions,    \* session ids
    GpuCount,    \* GPUs of this worker
    ListLimit,   \* the limit of 100 rows of the leases route
    MaxLeases,   \* bound: leases given to this worker per job or session
    MaxWork      \* bound: jobs and sessions that are not over at the start

Work == Jobs \cup Sessions

ASSUME AgentAssumption ==
    /\ Jobs \subseteq Nat
    /\ Jobs \cap Sessions = {}
    /\ GpuCount \in Nat /\ ListLimit \in Nat
    /\ GpuCount <= ListLimit
    /\ MaxLeases \in Nat /\ MaxWork \in Nat

VARIABLES
    row,    \* control plane: status, number of the lease, assigned to us?
    run,    \* inFlight and sessionLeases
    calls,  \* requests sent and not served yet
    poll,   \* the assignment poll under way and its answer
    agent,  \* "running", or how far stop() has come
    begun   \* history: the <<work, lease>> whose execution has begun

vars == <<row, run, calls, poll, agent, begun>>

NoRun    == [pc |-> "none", lease |-> 0, aborted |-> FALSE, answer |-> "none"]
IdlePoll == [pc |-> "idle", list |-> {}]

Init ==
    /\ \E pending \in SUBSET Work :
        /\ Cardinality(pending) <= MaxWork
        /\ row = [x \in Work |-> [status |-> IF x \in pending THEN "pending" ELSE "done",
                                  lease |-> 0, mine |-> FALSE]]
    /\ run = [x \in Work |-> NoRun]
    /\ calls = {}
    /\ poll = IdlePoll
    /\ agent = "running"
    /\ begun = {}

Live(x) == run[x].pc # "none"

HeldHere(x)  == row[x].mine /\ row[x].status \in {"leased", "running"}
Owned(x)     == HeldHere(x) /\ row[x].lease = run[x].lease

----------------------------------------------------------------------------
(* The control plane *)

(* A pass leases the work to this worker, one lease per GPU. *)
LeaseHere(x) ==
    /\ row[x].status = "pending" /\ row[x].lease < MaxLeases
    /\ Cardinality({y \in Work : HeldHere(y)}) < GpuCount
    /\ row' = [row EXCEPT ![x] = [status |-> "leased", lease |-> row[x].lease + 1,
                                  mine |-> TRUE]]
    /\ UNCHANGED <<run, calls, poll, agent, begun>>

(* Recovery of an expired lease: the work waits again, or is leased elsewhere. *)
TakeAway(x) ==
    /\ HeldHere(x)
    /\ row' = [row EXCEPT ![x].status = "pending", ![x].mine = FALSE]
    /\ UNCHANGED <<run, calls, poll, agent, begun>>

(* cancelJob keeps assigned_worker_id, closeSession clears it. *)
Cancel(x) ==
    /\ row[x].status # "done"
    /\ row' = [row EXCEPT ![x].status = "done", ![x].mine = x \in Jobs /\ @]
    /\ UNCHANGED <<run, calls, poll, agent, begun>>

(* Mutation: a start is accepted again while the job runs. *)
MutAccepts(c) ==
    /\ HeldHere(c.work) /\ row[c.work].lease = c.lease

(* The conditions of startJob, startSession and finishJob. *)
Accepts(c) ==
    /\ HeldHere(c.work) /\ row[c.work].lease = c.lease
    /\ c.kind = "start" => row[c.work].status = "leased"

(* A request is served.  Its answer is for the run that still waits for it. *)
Serve(c) ==
    /\ c \in calls
    /\ calls' = calls \ {c}
    /\ row' = IF Accepts(c)
              THEN [row EXCEPT ![c.work].status =
                        IF c.kind = "start" THEN "running" ELSE "done"]
              ELSE row
    /\ run' = IF c.awaited
              THEN [run EXCEPT ![c.work].answer =
                        IF Accepts(c) THEN "ok" ELSE "conflict"]
              ELSE run
    /\ UNCHANGED <<poll, agent, begun>>

----------------------------------------------------------------------------
(* Runs: each sends its requests one after the other *)

Call(x, kind) == [work |-> x, lease |-> run[x].lease, kind |-> kind, awaited |-> TRUE]

Waiting(x, pc) == run[x].pc = pc /\ run[x].answer # "none"

Goto(x, pc) == run' = [run EXCEPT ![x].pc = pc, ![x].answer = "none"]
Leave(x)    == run' = [run EXCEPT ![x] = NoRun]

(* The 10 s timeout of a request whose answer has not come: it was lost on *)
(* its way, or will still be served.                                       *)
TimeOut(x) ==
    /\ run[x].answer = "none"
    /\ \E c \in calls :
            /\ c.work = x /\ c.awaited
            /\ \/ calls' = calls \ {c}
               \/ calls' = (calls \ {c}) \cup {[c EXCEPT !.awaited = FALSE]}
    /\ run' = [run EXCEPT ![x].answer = "lost"]
    /\ UNCHANGED <<row, poll, agent, begun>>

(* The answer of a served request is lost. *)
LoseAnswer(x) ==
    /\ run[x].answer \in {"ok", "conflict"}
    /\ run' = [run EXCEPT ![x].answer = "lost"]
    /\ UNCHANGED <<row, calls, poll, agent, begun>>

(* executeLease after the answer to start.  The type of a job, and with it *)
(* whether an adapter is installed, is open.                               *)
Started(x) ==
    /\ x \in Jobs /\ Waiting(x, "starting") /\ run[x].answer = "ok"
    /\ \/ Goto(x, "executing")
          /\ begun' = begun \cup {<<x, run[x].lease>>} /\ UNCHANGED calls
       \/ Goto(x, "failing")
          /\ calls' = calls \cup {Call(x, "failed")} /\ UNCHANGED begun
    /\ UNCHANGED <<row, poll, agent>>

NotStarted(x) ==
    /\ Waiting(x, "starting") /\ run[x].answer # "ok"
    /\ Leave(x)
    /\ UNCHANGED <<row, calls, poll, agent, begun>>

AdapterSucceeds(x) ==
    /\ x \in Jobs /\ run[x].pc = "executing"
    /\ Goto(x, "succeeding")
    /\ calls' = calls \cup {Call(x, "succeeded")}
    /\ UNCHANGED <<row, poll, agent, begun>>

(* The adapter fails, or sees that its signal is aborted. *)
AdapterFails(x) ==
    /\ x \in Jobs /\ run[x].pc = "executing"
    /\ Goto(x, "failing")
    /\ calls' = calls \cup {Call(x, "failed")}
    /\ UNCHANGED <<row, poll, agent, begun>>

(* A success that could not be reported is caught as a failure. *)
SuccessNotReported(x) ==
    /\ Waiting(x, "succeeding") /\ run[x].answer # "ok"
    /\ Goto(x, "failing")
    /\ calls' = calls \cup {Call(x, "failed")}
    /\ UNCHANGED <<row, poll, agent, begun>>

(* The run leaves inFlight, whatever came of its last report. *)
Reported(x) ==
    /\ \/ Waiting(x, "succeeding") /\ run[x].answer = "ok"
       \/ Waiting(x, "failing")
    /\ Leave(x)
    /\ UNCHANGED <<row, calls, poll, agent, begun>>

----------------------------------------------------------------------------
(* Sessions *)

(* maintainSessionLease after the answer to start: a grant is asked for. *)
SessionStarted(s) ==
    /\ s \in Sessions /\ Waiting(s, "starting") /\ run[s].answer = "ok"
    /\ Goto(s, "granting")
    /\ UNCHANGED <<row, calls, poll, agent, begun>>

(* issueDataPlaneGrant: for the current lease only. *)
GrantIssued(s) ==
    /\ s \in Sessions /\ run[s].pc = "granting" /\ Owned(s)
    /\ Goto(s, "opening")
    /\ UNCHANGED <<row, calls, poll, agent, begun>>

(* The socket opens; the lease may be gone by then. *)
DataPlaneOpens(s) ==
    /\ s \in Sessions /\ run[s].pc = "opening" /\ ~run[s].aborted
    /\ Goto(s, "executing")
    /\ begun' = begun \cup {<<s, run[s].lease>>}
    /\ UNCHANGED <<row, calls, poll, agent>>

(* No grant, no connection, or aborted meanwhile: the socket is closed. *)
DataPlaneFails(s) ==
    /\ s \in Sessions /\ run[s].pc \in {"granting", "opening"}
    /\ Leave(s)
    /\ UNCHANGED <<row, calls, poll, agent, begun>>

(* The race is decided and the rest of the run is aborted: the handler     *)
(* returned or the socket closed (an abort closes it), ...                 *)
SessionStops(s) ==
    /\ s \in Sessions /\ run[s].pc = "executing"
    /\ run' = [run EXCEPT ![s].pc = "ending", ![s].aborted = TRUE]
    /\ UNCHANGED <<row, calls, poll, agent, begun>>

(* ... or the renewal loop ended: refused with a conflict, or aborted.  Any *)
(* other failure of a renewal is logged and tried again.                    *)
RenewalStops(s) ==
    /\ s \in Sessions /\ run[s].pc = "executing"
    /\ ~Owned(s) \/ run[s].aborted
    /\ run' = [run EXCEPT ![s].pc = "ending", ![s].aborted = TRUE]
    /\ UNCHANGED <<row, calls, poll, agent, begun>>

(* Handler and renewal loop have settled. *)
SessionEnds(s) ==
    /\ s \in Sessions /\ run[s].pc = "ending"
    /\ Leave(s)
    /\ UNCHANGED <<row, calls, poll, agent, begun>>

----------------------------------------------------------------------------
(* The assignment poll *)

PollAsk ==
    /\ agent = "running" /\ poll.pc = "idle"
    /\ poll' = [IdlePoll EXCEPT !.pc = "asked"]
    /\ UNCHANGED <<row, run, calls, agent, begun>>

(* listJobs: the newest rows assigned to the worker, final ones included. *)
Newest == {j \in Jobs : /\ row[j].mine
                        /\ Cardinality({k \in Jobs : k > j /\ row[k].mine}) < ListLimit}

Listed(x) == [work |-> x, lease |-> row[x].lease, status |-> row[x].status]

(* Mutation: the answer is not filtered. *)
MutReadJobs ==
    /\ poll.pc = "asked"
    /\ poll' = [poll EXCEPT !.pc = "jobs", !.list = {Listed(j) : j \in Newest}]
    /\ UNCHANGED <<row, run, calls, agent, begun>>

(* The leases route: two queries, each filtered after its limit. *)
ReadJobs ==
    /\ poll.pc = "asked"
    /\ poll' = [poll EXCEPT !.pc = "jobs", !.list = {Listed(j) : j \in
                                {k \in Newest : HeldHere(k)}}]
    /\ UNCHANGED <<row, run, calls, agent, begun>>

ReadSessions ==
    /\ poll.pc = "jobs"
    /\ poll' = [poll EXCEPT !.pc = "answered", !.list = poll.list \cup
                    {Listed(s) : s \in {k \in Sessions : HeldHere(k)}}]
    /\ UNCHANGED <<row, run, calls, agent, begun>>

PollFails ==
    /\ poll.pc # "idle"
    /\ poll' = IdlePoll
    /\ UNCHANGED <<row, run, calls, agent, begun>>

(* Mutation: work that is missing from the answer is left alone. *)
MutGone(x) ==
    /\ Live(x)
    /\ \E e \in poll.list : e.work = x /\ e.lease # run[x].lease

(* Executions the answer no longer names: a job by its id, a session by id *)
(* and lease.                                                              *)
Gone(x) ==
    /\ Live(x)
    /\ \A e \in poll.list :
            e.work = x => x \in Sessions /\ e.lease # run[x].lease

(* selectSessionHandler finds one: an adapter of the session's capability *)
(* that is ready, the requested one if one is requested, or the legacy    *)
(* handler.  A job needs none.                                            *)
HandlerFound(x, ready) == x \in Sessions => x \in ready

(* Mutation: work that was executed before is taken for a duplicate. *)
MutFresh(x, ready) ==
    /\ ~Live(x)
    /\ \E e \in poll.list : e.work = x /\ e.status = "leased"
    /\ HandlerFound(x, ready)
    /\ \A b \in begun : b[1] # x

(* New leases of the answer.  A session without a handler that is ready is *)
(* left as it is, until a later poll.                                      *)
Fresh(x, ready) ==
    /\ ~Live(x)
    /\ \E e \in poll.list : e.work = x /\ e.status = "leased"
    /\ HandlerFound(x, ready)

LeaseOf(x) == (CHOOSE e \in poll.list : e.work = x).lease

(* The answer is applied: lost executions are aborted, new leases started. *)
(* ready are the sessions for which selectSessionHandler finds a handler:  *)
(* the health probes of the adapters decide it and change it at any time.  *)
PollApply(ready) ==
    /\ poll.pc = "answered"
    /\ run' = [x \in Work |->
            IF Gone(x) THEN [run[x] EXCEPT !.aborted = TRUE]
            ELSE IF Fresh(x, ready) THEN [NoRun EXCEPT !.pc = "starting", !.lease = LeaseOf(x)]
            ELSE run[x]]
    /\ calls' = calls \cup
            {[work |-> x, lease |-> LeaseOf(x), kind |-> "start", awaited |-> TRUE] :
                x \in {y \in Work : Fresh(y, ready)}}
    /\ poll' = IdlePoll
    /\ UNCHANGED <<row, agent, begun>>

----------------------------------------------------------------------------
(* Shutdown and restart *)

AbortAll(S) == run' = [x \in Work |-> IF x \in S /\ Live(x)
                                      THEN [run[x] EXCEPT !.aborted = TRUE]
                                      ELSE run[x]]

Stop ==
    /\ agent = "running"
    /\ agent' = "draining"
    /\ UNCHANGED <<row, run, calls, poll, begun>>

(* Mutation: stop() does not wait for the operations under way. *)
MutAbortJobs ==
    /\ agent = "draining"
    /\ agent' = "jobs"
    /\ AbortAll(Jobs)
    /\ UNCHANGED <<row, calls, poll, begun>>

(* The poll under way has ended: jobs are aborted first. *)
AbortJobs ==
    /\ agent = "draining" /\ poll.pc = "idle"
    /\ agent' = "jobs"
    /\ AbortAll(Jobs)
    /\ UNCHANGED <<row, calls, poll, begun>>

(* When they are over, sessions are. *)
AbortSessions ==
    /\ agent = "jobs" /\ \A j \in Jobs : ~Live(j)
    /\ agent' = "sessions"
    /\ AbortAll(Sessions)
    /\ UNCHANGED <<row, calls, poll, begun>>

Stopped ==
    /\ agent = "sessions" /\ \A s \in Sessions : ~Live(s)
    /\ agent' = "stopped"
    /\ UNCHANGED <<row, run, calls, poll, begun>>

(* The process dies with its executions and is started again; it registers *)
(* under the same name and keeps its id.                                   *)
Restart ==
    /\ agent' = "running"
    /\ run' = [x \in Work |-> NoRun]
    /\ calls' = {[c EXCEPT !.awaited = FALSE] : c \in calls}
    /\ poll' = IdlePoll
    /\ UNCHANGED <<row, begun>>

----------------------------------------------------------------------------
ControlPlaneNext == \E x \in Work : LeaseHere(x) \/ TakeAway(x) \/ Cancel(x)

RunNext(x) ==
    \/ Started(x) \/ NotStarted(x) \/ SuccessNotReported(x) \/ Reported(x)
    \/ SessionStarted(x) \/ GrantIssued(x) \/ DataPlaneOpens(x) \/ DataPlaneFails(x)
    \/ SessionEnds(x)

AdapterNext(x) == AdapterSucceeds(x) \/ AdapterFails(x) \/ SessionStops(x) \/ RenewalStops(x)

PollNext ==
    \/ PollAsk \/ ReadJobs \/ ReadSessions
    \/ \E ready \in SUBSET Sessions : PollApply(ready)

StopNext == AbortJobs \/ AbortSessions \/ Stopped

Next ==
    \/ ControlPlaneNext
    \/ \E c \in calls : Serve(c)
    \/ \E x \in Work : TimeOut(x) \/ LoseAnswer(x) \/ RunNext(x) \/ AdapterNext(x)
    \/ PollNext \/ PollFails
    \/ Stop \/ StopNext \/ Restart

Spec == Init /\ [][Next]_vars

(* Every request ends, in an answer or in its timeout, and what follows is *)
(* done; polls go on and succeed again and again, also at times at which   *)
(* the handlers of the sessions are ready; an adapter and a session        *)
(* handler end once their signal is aborted.  The control plane, the       *)
(* adapters before that and the operator owe nothing.                      *)
Fairness ==
    /\ \A x \in Work :
            /\ WF_vars(TimeOut(x) \/ \E c \in calls : c.work = x /\ c.awaited /\ Serve(c))
            /\ WF_vars(RunNext(x))
            /\ WF_vars(run[x].aborted /\ AdapterNext(x))
    /\ WF_vars(PollAsk)
    /\ SF_vars(ReadJobs) /\ SF_vars(ReadSessions) /\ SF_vars(PollApply(Sessions))
    /\ WF_vars(StopNext)

FairSpec == Spec /\ Fairness

----------------------------------------------------------------------------
(* Properties *)

Pcs == {"none", "starting", "executing", "succeeding", "failing", "granting", "opening",
        "ending"}
Kinds == {"start", "succeeded", "failed"}

(* Types of the rows, runs, requests and of the poll. *)
TypeOK ==
    /\ row \in [Work -> [status : {"pending", "leased", "running", "done"},
                         lease : 0 .. MaxLeases, mine : BOOLEAN]]
    /\ run \in [Work -> [pc : Pcs, lease : 0 .. MaxLeases, aborted : BOOLEAN,
                         answer : {"none", "ok", "conflict", "lost"}]]
    /\ calls \subseteq [work : Work, lease : 1 .. MaxLeases, kind : Kinds,
                        awaited : BOOLEAN]
    /\ poll.list \subseteq [work : Work, lease : 1 .. MaxLeases,
                            status : {"leased", "running"}]
    /\ poll.pc \in {"idle", "asked", "jobs", "answered"}
    /\ agent \in {"running", "draining", "jobs", "sessions", "stopped"}
    /\ begun \subseteq Work \X (1 .. MaxLeases)

(* A lease is executed at most once, whatever requests and answers get lost, *)
(* arrive late or are repeated by a later poll or a restarted agent.         *)
ExecutedOnce ==
    [][\A x \in Work :
            run[x].pc # "executing" /\ run'[x].pc = "executing" =>
                <<x, run[x].lease>> \notin begun]_vars

(* When stop() returns nothing is running, also when an assignment poll was *)
(* under way as it was called.                                              *)
StopIsClean ==
    agent = "stopped" => \A x \in Work : ~Live(x)

(* docs/API.md: an execution whose job is not leased to this worker any     *)
(* more, or whose session has another lease, is aborted and ends.           *)
LostWorkEnds ==
    \A x \in Work :
        (Live(x) /\ ~Owned(x)) ~> (~Live(x) \/ (x \in Jobs /\ HeldHere(x)))

(* A lease given to a running agent that polls and has no execution of the *)
(* work left is asked for: start is sent, also when the handler of a       *)
(* session was not ready at the first polls.                               *)
LeaseIsTakenUp ==
    \A x \in Work :
        (HeldHere(x) /\ row[x].status = "leased" /\ agent = "running") ~>
            (Live(x) \/ ~HeldHere(x) \/ row[x].status # "leased" \/ agent # "running")
=============================================================================

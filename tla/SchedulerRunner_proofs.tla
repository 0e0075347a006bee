----------------------- MODULE SchedulerRunner_proofs -----------------------
(***************************************************************************)
(* Proofs about SchedulerRunner, for any set of requests, with a lock that *)
(* is shared or not.                                                       *)
(*                                                                         *)
(* ClosedIsQuiet looks at the end of a shutdown; IInv says what every      *)
(* stage of it has already put to rest, and that whoever waits for a drain *)
(* will find it under way.  For AnsweredHadItsPass it adds that a waiting  *)
(* request was committed when the pass under way asked for the lock, or    *)
(* that the lock query of this or of a follow-up pass is still to come.    *)
(***************************************************************************)
EXTENDS SchedulerRunner, TLAPS

Types ==
    /\ request \in [Requests -> {"new", "received", "committed", "waiting",
                                 "answered", "failed"}]
    /\ pending \in BOOLEAN
    /\ drain \in {"none", "locking", "running", "skipped"}
    /\ drain = "skipped" => LockIsShared
    /\ sees \subseteq Requests /\ covered \subseteq Requests
    /\ timer \in {"armed", "waiting", "off"}
    /\ app \in {"up", "relay", "closing", "runner", "closed", "crashed", "stopFailed"}

(* Whoever waits, waits for a drain that is under way. *)
WaitersOK ==
    /\ timer = "waiting" => drain # "none"
    /\ \A r \in Requests : request[r] = "waiting" => drain # "none"

(* What the stages of stop() have put to rest. *)
StagesOK ==
    /\ Stopping => timer # "armed"
    /\ app \in {"runner", "closed", "stopFailed"} =>
        \A r \in Requests : request[r] \notin {"received", "committed", "waiting"}
    /\ app = "closed" => drain = "none"

(* A waiting request has a lock query that comes, or came, after its commit. *)
CoalescingOK ==
    ~Stopping =>
        \A r \in Requests : request[r] = "waiting" =>
            pending \/ drain = "locking" \/ r \in sees

IInv == Types /\ WaitersOK /\ StagesOK /\ CoalescingOK

----------------------------------------------------------------------------
LEMMA InitInv == Init => IInv
  BY DEF Init, IInv, Types, WaitersOK, StagesOK, CoalescingOK, Stopping

(* A trigger leaves a drain under way whose next lock query is to come. *)
LEMMA TriggerEffect ==
    ASSUME Types, Trigger
    PROVE  /\ pending' \in BOOLEAN /\ drain' \in {"locking", "running", "skipped"}
           /\ drain' = "skipped" => LockIsShared
           /\ pending' \/ drain' = "locking"
  BY DEF Types, Trigger

(* A drain that settles leaves nobody waiting. *)
LEMMA SettleEffect ==
    ASSUME Types, NEW answer \in {"answered", "failed"}, Settle(answer)
    PROVE  /\ drain' = "none"
           /\ request' \in [Requests -> {"new", "received", "committed", "waiting",
                                         "answered", "failed"}]
           /\ \A r \in Requests : /\ request'[r] # "waiting"
                                  /\ request'[r] = request[r] \/ request'[r] = answer
           /\ timer' \in {"armed", "off"}
           /\ Stopping /\ timer # "armed" => timer' = "off"
  BY DEF Types, Settle

LEMMA StepInv == ASSUME IInv, [Next]_vars PROVE IInv'
  <1> USE DEF IInv
  <1>1. ASSUME NEW r \in Requests, Receive(r) \/ CommitRequest(r) PROVE IInv'
    BY <1>1 DEF Receive, CommitRequest, Types, WaitersOK, StagesOK, CoalescingOK, Stopping
  <1>2. ASSUME NEW r \in Requests, TriggerRequest(r) PROVE IInv'
    <2>1. CASE Stopping
      BY <1>2, <2>1 DEF TriggerRequest, Types, WaitersOK, StagesOK, CoalescingOK, Stopping
    <2>2. CASE ~Stopping
      <3>1. /\ request[r] = "committed" /\ request' = [request EXCEPT ![r] = "waiting"]
            /\ Trigger /\ UNCHANGED <<sees, covered, timer, app>> /\ app = "up"
        BY <1>2, <2>2 DEF TriggerRequest, Stopping
      <3>2. Types'
        BY <3>1, TriggerEffect DEF Types
      <3>3. WaitersOK' /\ StagesOK'
        BY <3>1, TriggerEffect DEF WaitersOK, StagesOK, Stopping
      <3>4. CoalescingOK'
        BY <3>1, TriggerEffect DEF CoalescingOK
      <3> QED
        BY <3>2, <3>3, <3>4
    <2> QED
      BY <2>1, <2>2
  <1>3. CASE TriggerTimer
    <2>1. /\ timer = "armed" /\ timer' = "waiting" /\ Trigger
          /\ UNCHANGED <<request, sees, covered, app>> /\ app = "up"
      BY <1>3 DEF TriggerTimer, StagesOK, Stopping
    <2>2. Types'
      BY <2>1, TriggerEffect DEF Types
    <2>3. WaitersOK' /\ StagesOK'
      BY <2>1, TriggerEffect DEF WaitersOK, StagesOK, Stopping
    <2>4. CoalescingOK'
      BY <2>1, TriggerEffect DEF CoalescingOK
    <2> QED
      BY <2>2, <2>3, <2>4
  <1>4. CASE AcquireLock \/ LockTaken
    <2>1. /\ drain = "locking" /\ drain' \in {"running", "skipped"} /\ sees' = Committed
          /\ drain' = "skipped" => LockIsShared
          /\ UNCHANGED <<request, pending, covered, timer, app>>
      BY <1>4 DEF AcquireLock, LockTaken
    <2> QED
      BY <2>1 DEF Types, WaitersOK, StagesOK, CoalescingOK, Stopping, Committed
  <1>5. CASE PassEnds \/ SkipEnds
    <2>0. Continue /\ drain # "none" /\ covered' \subseteq Requests /\ UNCHANGED app
      BY <1>5 DEF PassEnds, SkipEnds, Types
    <2>1. CASE pending /\ ~Stopping
      BY <2>0, <2>1 DEF Continue, Types, WaitersOK, StagesOK, CoalescingOK, Stopping
    <2>2. CASE ~(pending /\ ~Stopping)
      <3>1. Settle("answered") /\ sees' = {} /\ UNCHANGED <<pending, app>>
        BY <2>0, <2>2 DEF Continue
      <3>2. Types'
        BY <2>0, <3>1, SettleEffect DEF Types
      <3>3. WaitersOK' /\ CoalescingOK'
        BY <3>1, SettleEffect DEF WaitersOK, CoalescingOK
      <3>4. StagesOK'
        BY <3>1, SettleEffect DEF StagesOK, Stopping
      <3> QED
        BY <3>2, <3>3, <3>4
    <2> QED
      BY <2>1, <2>2
  <1>6. CASE PassFails
    <2>1. /\ Settle("failed") /\ sees' = {} /\ drain # "none"
          /\ UNCHANGED <<pending, covered>>
      BY <1>6 DEF PassFails
    <2>2. /\ app' \in {"up", "closed", "crashed", "stopFailed"}
          /\ app' = "up" <=> app = "up"
          /\ app' = "closed" => app = "closed"
          /\ app' = "stopFailed" => app \in {"runner", "stopFailed"}
      BY <1>6 DEF PassFails, Types
    <2>3. Types'
      BY <2>1, <2>2, SettleEffect DEF Types
    <2>4. WaitersOK' /\ CoalescingOK'
      BY <2>1, SettleEffect DEF WaitersOK, CoalescingOK
    <2>5. StagesOK'
      BY <2>1, <2>2, SettleEffect DEF StagesOK, Stopping
    <2> QED
      BY <2>3, <2>4, <2>5
  <1>7. CASE Stop \/ StopNext
    BY <1>7 DEF Stop, StopNext, CloseServer, ServerClosed, CloseDatabase, Busy, Types,
       WaitersOK, StagesOK, CoalescingOK, Stopping
  <1>8. CASE UNCHANGED vars
    BY <1>8 DEF vars, Types, WaitersOK, StagesOK, CoalescingOK, Stopping
  <1> QED
    BY <1>1, <1>2, <1>3, <1>4, <1>5, <1>6, <1>7, <1>8 DEF Next, RequestNext, PassNext

----------------------------------------------------------------------------
(* The theorems *)

(* The inductive invariant of requests, runner, timer and shutdown. *)
THEOREM Inductive == Spec => []IInv
  <1>1. IInv /\ [Next]_vars => IInv'
    BY StepInv
  <1> QED
    BY <1>1, InitInv, PTL DEF Spec

(* The database is closed last: no request, pass or timer is left then     *)
(* (app.mjs stop), however the triggers and failures fell.                 *)
THEOREM ClosesLast == Spec => []ClosedIsQuiet
  <1>1. IInv => ClosedIsQuiet
    BY DEF IInv, Types, WaitersOK, StagesOK, Stopping, ClosedIsQuiet, Busy
  <1> QED
    BY <1>1, Inductive, PTL

(* A request that is answered was scheduled, or was refused the lock in a   *)
(* query after its commit (scheduler-runner.mjs trigger and #drain,         *)
(* scheduler.mjs #runOnce), for any number of requests that share passes.   *)
THEOREM AnswersHadTheirPass == Spec => AnsweredHadItsPass
  <1> DEFINE Had(r) == \/ r \in covered'
                       \/ LockIsShared /\ drain = "skipped" /\ r \in sees
  <1>1. ASSUME IInv, [Next]_vars, NEW r \in Requests,
               request[r] = "waiting", request'[r] = "answered", ~Stopping
        PROVE  Had(r)
    <2>1. PassEnds \/ SkipEnds
      BY <1>1 DEF Next, RequestNext, PassNext, Receive, CommitRequest, TriggerRequest,
         TriggerTimer, AcquireLock, LockTaken, PassFails, Settle, Stop, StopNext,
         CloseServer, ServerClosed, CloseDatabase, vars, IInv, Types
    <2>2. ~pending
      BY <1>1, <2>1 DEF PassEnds, SkipEnds, Continue
    <2>3. r \in sees
      BY <1>1, <2>1, <2>2 DEF PassEnds, SkipEnds, IInv, CoalescingOK
    <2> QED
      BY <1>1, <2>1, <2>3 DEF PassEnds, SkipEnds, IInv, Types
  <1>2. IInv /\ [Next]_vars =>
            [\A r \in Requests :
                request[r] = "waiting" /\ request'[r] = "answered" /\ ~Stopping
                    => Had(r)]_vars
    BY <1>1
  <1> QED
    BY <1>2, Inductive, PTL DEF Spec, AnsweredHadItsPass
=============================================================================

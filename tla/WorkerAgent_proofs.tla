------------------------- MODULE WorkerAgent_proofs -------------------------
(***************************************************************************)
(* Proofs about the worker agent, for any set of jobs and sessions and any *)
(* number of GPUs and leases.                                              *)
(*                                                                         *)
(* That a lease is executed once rests on the control plane accepting its  *)
(* start once (Spent), on the agent waiting for one answer per execution   *)
(* (CallsOK), and on an execution that was told "ok", or waits for its     *)
(* data plane since, being the only one of its lease (StartsOK).           *)
(***************************************************************************)
EXTENDS WorkerAgent, TLAPS

Statuses == {"pending", "leased", "running", "done"}
Answers  == {"none", "ok", "conflict", "lost"}
RowOf    == [status : Statuses, lease : 0 .. MaxLeases, mine : BOOLEAN]
RunOf    == [pc : Pcs, lease : 0 .. MaxLeases, aborted : BOOLEAN, answer : Answers]
CallOf   == [work : Work, lease : 1 .. MaxLeases, kind : Kinds, awaited : BOOLEAN]
EntryOf  == [work : Work, lease : 1 .. MaxLeases, status : {"leased", "running"}]
PollOf   == [pc : {"idle", "asked", "jobs", "answered"}, list : SUBSET EntryOf]

Types ==
    /\ row \in [Work -> RowOf]
    /\ run \in [Work -> RunOf]
    /\ calls \subseteq CallOf
    /\ poll \in PollOf
    /\ agent \in {"running", "draining", "jobs", "sessions", "stopped"}
    /\ begun \subseteq Work \X (1 .. MaxLeases)

(* Leases are counted from 1: lease 0 is neither held nor executed. *)
LeasesOK ==
    \A x \in Work :
        /\ HeldHere(x) => row[x].lease # 0
        /\ Live(x) => run[x].lease # 0

(* What each stage of stop() has waited for stays over. *)
StagesOK ==
    /\ agent \in {"jobs", "sessions", "stopped"} => poll.pc = "idle"
    /\ agent \in {"sessions", "stopped"} => \A j \in Jobs : ~Live(j)
    /\ agent = "stopped" => \A s \in Sessions : ~Live(s)

(* Where an execution stands that waits for the answer to such a request. *)
PcOf(kind) == CASE kind = "start"     -> "starting"
                [] kind = "succeeded" -> "succeeding"
                [] kind = "failed"    -> "failing"

(* A request that is waited for is the one its execution has just sent. *)
CallsOK ==
    \A c \in calls : c.awaited =>
        /\ run[c.work].pc = PcOf(c.kind)
        /\ run[c.work].lease = c.lease
        /\ run[c.work].answer = "none"

(* No start of this lease is accepted any more. *)
Spent(x, lease) ==
    \/ row[x].lease > lease
    \/ row[x].lease = lease /\ row[x].status # "leased"

(* The control plane has told the execution to go on; it has not yet begun. *)
MayBegin(x) ==
    \/ run[x].pc = "starting" /\ run[x].answer = "ok"
    \/ run[x].pc \in {"granting", "opening"}

StartsOK ==
    /\ \A b \in begun : Spent(b[1], b[2])
    /\ \A x \in Work : MayBegin(x) =>
            Spent(x, run[x].lease) /\ <<x, run[x].lease>> \notin begun

IInv == Types /\ LeasesOK /\ StagesOK /\ CallsOK /\ StartsOK
----------------------------------------------------------------------------
(* An execution waits for at most one request, and for none when it has its *)
(* answer or is at a point where it sends none.                             *)
LEMMA NoCall ==
    ASSUME IInv, NEW x \in Work,
           run[x].answer # "none" \/ run[x].pc \notin {"starting", "succeeding", "failing"},
           NEW c \in calls, c.awaited
    PROVE  c.work # x
  <1>1. c.kind \in Kinds /\ run[c.work].pc = PcOf(c.kind) /\ run[c.work].answer = "none"
    BY DEF IInv, Types, CallOf, CallsOK
  <1> QED
    BY <1>1 DEF Kinds, PcOf

LEMMA OneCall ==
    ASSUME IInv, NEW c \in calls, NEW d \in calls, c.awaited, d.awaited, c.work = d.work
    PROVE  c = d
  <1>1. c \in CallOf /\ d \in CallOf
    BY DEF IInv, Types
  <1>2. PcOf(c.kind) = PcOf(d.kind) /\ c.lease = d.lease
    BY DEF IInv, CallsOK
  <1>3. c.kind = d.kind
    BY <1>1, <1>2 DEF CallOf, Kinds, PcOf
  <1>4. c.awaited = d.awaited
    BY <1>1 DEF CallOf
  <1> QED
    BY <1>1, <1>2, <1>3, <1>4 DEF CallOf

----------------------------------------------------------------------------
(* A step of one execution keeps the invariant if it sends at most the       *)
(* request that fits its new pc, and begins to execute only if it may.       *)
LEMMA RunLocal ==
    ASSUME IInv, NEW x \in Work, NEW r \in RunOf, run' = [run EXCEPT ![x] = r],
           UNCHANGED <<row, poll, agent>>,
           calls' \subseteq CallOf,
           \A c \in calls' : c.awaited =>
                \/ c \in calls /\ c.work # x
                \/ /\ c.work = x /\ r.pc = PcOf(c.kind)
                   /\ r.lease = c.lease /\ r.answer = "none",
           r.pc # "none" => Live(x) /\ r.lease = run[x].lease,
           \/ begun' = begun
           \/ /\ begun' = begun \cup {<<x, run[x].lease>>}
              /\ MayBegin(x) /\ r.pc = "executing",
           \/ r.pc = "starting" /\ r.answer = "ok"
           \/ r.pc \in {"granting", "opening"}
           => MayBegin(x)
    PROVE  IInv'
  <1>0. /\ run \in [Work -> RunOf] /\ row \in [Work -> RowOf]
        /\ begun \subseteq Work \X (1 .. MaxLeases)
    BY DEF IInv, Types
  <1>1. run'[x] = r /\ \A y \in Work : y # x => run'[y] = run[y]
    BY <1>0
  <1>2. Live(x) => run[x].lease \in 1 .. MaxLeases
    BY <1>0 DEF IInv, LeasesOK, RunOf
  <1>3. MayBegin(x) => Live(x)
    BY DEF MayBegin, Live
  <1>4. Types'
    <2>1. run' \in [Work -> RunOf]
      BY <1>0
    <2>2. begun' \subseteq Work \X (1 .. MaxLeases)
      BY <1>0, <1>2, <1>3
    <2> QED
      BY <2>1, <2>2 DEF IInv, Types
  <1>5. LeasesOK'
    BY <1>1, <1>2 DEF IInv, LeasesOK, Live, HeldHere
  <1>6. StagesOK'
    <2>1. \A y \in Work : ~Live(y) => ~Live(y)'
      BY <1>1 DEF Live
    <2> QED
      BY <2>1 DEF IInv, StagesOK, Work
  <1>7. CallsOK'
    <2> SUFFICES ASSUME NEW c \in calls', c.awaited
                 PROVE  /\ run'[c.work].pc = PcOf(c.kind)
                        /\ run'[c.work].lease = c.lease
                        /\ run'[c.work].answer = "none"
      BY DEF CallsOK
    <2>1. c.work \in Work
      BY DEF CallOf
    <2> QED
      BY <1>1, <2>1 DEF IInv, CallsOK
  <1>8. StartsOK'
    <2>1. \A y, l : Spent(y, l)' <=> Spent(y, l)
      BY DEF Spent
    <2>2. \A b \in begun' : Spent(b[1], b[2])
      <3>1. MayBegin(x) => Spent(<<x, run[x].lease>>[1], <<x, run[x].lease>>[2])
        BY DEF IInv, StartsOK
      <3> QED
        BY <3>1 DEF IInv, StartsOK
    <2>3. ASSUME NEW y \in Work, MayBegin(y)'
          PROVE  Spent(y, run'[y].lease) /\ <<y, run'[y].lease>> \notin begun'
      <3>1. CASE y = x
        <4>1. r.lease = run[x].lease /\ MayBegin(x) /\ begun' = begun
          BY <1>1, <2>3, <3>1 DEF MayBegin
        <4> QED
          BY <1>1, <3>1, <4>1 DEF IInv, StartsOK
      <3>2. CASE y # x
        <4>1. MayBegin(y) /\ run'[y] = run[y]
          BY <1>1, <2>3, <3>2 DEF MayBegin
        <4>2. <<y, run[y].lease>> \notin begun'
          BY <3>2, <4>1 DEF IInv, StartsOK
        <4> QED
          BY <4>1, <4>2 DEF IInv, StartsOK
      <3> QED
        BY <3>1, <3>2
    <2> QED
      BY <2>1, <2>2, <2>3 DEF StartsOK
  <1> QED
    BY <1>4, <1>5, <1>6, <1>7, <1>8 DEF IInv

----------------------------------------------------------------------------
LEMMA GotoIs ==
    ASSUME IInv, NEW x \in Work, NEW pc \in Pcs, Goto(x, pc)
    PROVE  \E r \in RunOf : /\ run' = [run EXCEPT ![x] = r]
                            /\ r.pc = pc /\ r.answer = "none" /\ r.lease = run[x].lease
  <1>1. run[x] \in RunOf
    BY DEF IInv, Types
  <1> DEFINE a == [run[x] EXCEPT !.pc = pc]
             r == [a EXCEPT !.answer = "none"]
  <1>2. run' = [run EXCEPT ![x] = r]
    BY <1>1 DEF Goto, RunOf, IInv, Types
  <1>3. a \in RunOf /\ a.pc = pc /\ a.lease = run[x].lease
    BY <1>1 DEF RunOf
  <1> HIDE DEF a
  <1>4. r \in RunOf /\ r.pc = pc /\ r.answer = "none" /\ r.lease = run[x].lease
    BY <1>3 DEF RunOf, Answers
  <1> QED
    BY <1>2, <1>4

LEMMA NoRunType == NoRun \in RunOf /\ NoRun.pc = "none" /\ NoRun.answer = "none"
  BY AgentAssumption DEF NoRun, RunOf, Pcs, Answers

LEMMA CallType ==
    ASSUME IInv, NEW x \in Work, Live(x), NEW kind \in Kinds
    PROVE  /\ Call(x, kind) \in CallOf
           /\ Call(x, kind).work = x /\ Call(x, kind).lease = run[x].lease
           /\ Call(x, kind).kind = kind
  <1>1. run[x].lease \in 1 .. MaxLeases
    BY DEF IInv, Types, RunOf, LeasesOK
  <1> QED
    BY <1>1 DEF Call, CallOf
----------------------------------------------------------------------------
(* The steps of one execution. *)

(* A step that moves to pc and sends nothing. *)
LEMMA MoveStep ==
    ASSUME IInv, NEW x \in Work, NEW pc \in Pcs \ {"none", "starting"}, Goto(x, pc),
           run[x].answer # "none" \/ run[x].pc \notin {"starting", "succeeding", "failing"},
           Live(x), pc \in {"granting", "opening"} => MayBegin(x),
           \/ begun' = begun
           \/ begun' = begun \cup {<<x, run[x].lease>>} /\ MayBegin(x) /\ pc = "executing",
           UNCHANGED <<row, calls, poll, agent>>
    PROVE  IInv'
  <1>1. PICK r \in RunOf : /\ run' = [run EXCEPT ![x] = r]
                           /\ r.pc = pc /\ r.answer = "none" /\ r.lease = run[x].lease
    BY GotoIs
  <1>2. \A c \in calls' : c.awaited => c \in calls /\ c.work # x
    BY NoCall
  <1>3. calls' \subseteq CallOf
    BY DEF IInv, Types
  <1> QED
    BY <1>1, <1>2, <1>3, RunLocal

(* A step that sends a report and waits for its answer. *)
LEMMA SendStep ==
    ASSUME IInv, NEW x \in Work, NEW kind \in {"succeeded", "failed"},
           Goto(x, PcOf(kind)), calls' = calls \cup {Call(x, kind)},
           run[x].answer # "none" \/ run[x].pc \notin {"starting", "succeeding", "failing"},
           Live(x), UNCHANGED <<row, poll, agent, begun>>
    PROVE  IInv'
  <1>1. kind \in Kinds /\ PcOf(kind) \in Pcs \ {"none", "starting", "granting", "opening"}
    BY DEF Kinds, PcOf, Pcs
  <1>2. PICK r \in RunOf : /\ run' = [run EXCEPT ![x] = r]
                           /\ r.pc = PcOf(kind) /\ r.answer = "none"
                           /\ r.lease = run[x].lease
    BY <1>1, GotoIs
  <1> DEFINE d == Call(x, kind)
  <1>3. d \in CallOf /\ d.work = x /\ d.lease = run[x].lease /\ d.kind = kind
    BY <1>1, CallType
  <1> HIDE DEF d
  <1>4. calls' = calls \cup {d}
    BY DEF d
  <1>5. \A c \in calls' : c.awaited =>
            \/ c \in calls /\ c.work # x
            \/ /\ c.work = x /\ r.pc = PcOf(c.kind)
               /\ r.lease = c.lease /\ r.answer = "none"
    BY <1>2, <1>3, <1>4, NoCall
  <1>6. calls' \subseteq CallOf
    BY <1>3, <1>4 DEF IInv, Types
  <1>7. /\ r.pc # "none" => Live(x) /\ r.lease = run[x].lease
        /\ ~(\/ r.pc = "starting" /\ r.answer = "ok"
             \/ r.pc \in {"granting", "opening"})
        /\ begun' = begun /\ UNCHANGED <<row, poll, agent>>
    BY <1>1, <1>2
  <1> QED
    BY ONLY IInv, <1>2, <1>5, <1>6, <1>7, x \in Work, RunLocal

(* A step by which the execution is over. *)
LEMMA LeaveStep ==
    ASSUME IInv, NEW x \in Work, Leave(x),
           run[x].answer # "none" \/ run[x].pc \notin {"starting", "succeeding", "failing"},
           UNCHANGED <<row, calls, poll, agent, begun>>
    PROVE  IInv'
  <1> DEFINE r == NoRun
  <1>1. r \in RunOf /\ r.pc = "none" /\ run' = [run EXCEPT ![x] = r]
    BY NoRunType DEF Leave
  <1> HIDE DEF r
  <1>2. \A c \in calls' : c.awaited => c \in calls /\ c.work # x
    BY NoCall
  <1>3. calls' \subseteq CallOf
    BY DEF IInv, Types
  <1> QED
    BY <1>1, <1>2, <1>3, RunLocal

LEMMA RunSteps ==
    ASSUME IInv, NEW x \in Work, RunNext(x) \/ AdapterNext(x)
    PROVE  IInv'
  <1>0. run[x] \in RunOf
    BY DEF IInv, Types
  <1>1. CASE Started(x)
    <2>1. /\ Live(x) /\ run[x].answer # "none" /\ MayBegin(x)
          /\ UNCHANGED <<row, poll, agent>>
      BY <1>1 DEF Started, Waiting, Live, MayBegin
    <2>2. CASE /\ Goto(x, "executing")
               /\ begun' = begun \cup {<<x, run[x].lease>>} /\ UNCHANGED calls
      <3>1. "executing" \in Pcs \ {"none", "starting"}
        BY DEF Pcs
      <3> QED
        BY <2>1, <2>2, <3>1, MoveStep
    <2>3. CASE /\ Goto(x, "failing")
               /\ calls' = calls \cup {Call(x, "failed")} /\ UNCHANGED begun
      <3>1. PcOf("failed") = "failing"
        BY DEF PcOf
      <3> QED
        BY <2>1, <2>3, <3>1, SendStep
    <2> QED
      BY <1>1, <2>2, <2>3 DEF Started
  <1>2. CASE NotStarted(x) \/ Reported(x)
    BY <1>2, LeaveStep DEF NotStarted, Reported, Waiting
  <1>3. CASE AdapterSucceeds(x)
    <2>1. PcOf("succeeded") = "succeeding"
      BY DEF PcOf
    <2> QED
      BY <1>3, <2>1, SendStep DEF AdapterSucceeds, Live
  <1>4. CASE AdapterFails(x) \/ SuccessNotReported(x)
    <2>1. PcOf("failed") = "failing"
      BY DEF PcOf
    <2> QED
      BY <1>4, <2>1, SendStep DEF AdapterFails, SuccessNotReported, Waiting, Live
  <1>5. CASE SessionStarted(x)
    <2>1. "granting" \in Pcs \ {"none", "starting"}
      BY DEF Pcs
    <2> QED
      BY <1>5, <2>1, MoveStep DEF SessionStarted, Waiting, Live, MayBegin
  <1>6. CASE GrantIssued(x)
    <2>1. "opening" \in Pcs \ {"none", "starting"}
      BY DEF Pcs
    <2> QED
      BY <1>6, <2>1, MoveStep DEF GrantIssued, Live, MayBegin
  <1>7. CASE DataPlaneOpens(x)
    <2>1. "executing" \in Pcs \ {"none", "starting"}
      BY DEF Pcs
    <2> QED
      BY <1>7, <2>1, MoveStep DEF DataPlaneOpens, Live, MayBegin
  <1>8. CASE DataPlaneFails(x) \/ SessionEnds(x)
    BY <1>8, LeaveStep DEF DataPlaneFails, SessionEnds
  <1>9. CASE SessionStops(x) \/ RenewalStops(x)
    <2> DEFINE a == [run[x] EXCEPT !.pc = "ending"]
               r == [a EXCEPT !.aborted = TRUE]
    <2>1. run[x].pc = "executing" /\ UNCHANGED <<row, calls, poll, agent, begun>>
      BY <1>9 DEF SessionStops, RenewalStops
    <2>2. run' = [run EXCEPT ![x] = r]
      BY <1>0, <1>9 DEF SessionStops, RenewalStops, RunOf, IInv, Types
    <2>3. a \in RunOf /\ a.pc = "ending" /\ a.lease = run[x].lease
      BY <1>0 DEF RunOf, Pcs
    <2> HIDE DEF a
    <2>4. r \in RunOf /\ r.pc = "ending" /\ r.lease = run[x].lease
      BY <2>3 DEF RunOf
    <2> HIDE DEF r
    <2>5. \A c \in calls' : c.awaited => c \in calls /\ c.work # x
      BY <2>1, NoCall
    <2>6. calls' \subseteq CallOf
      BY <2>1 DEF IInv, Types
    <2> QED
      BY <2>1, <2>2, <2>4, <2>5, <2>6, RunLocal DEF Live
  <1> QED
    BY <1>1, <1>2, <1>3, <1>4, <1>5, <1>6, <1>7, <1>8, <1>9 DEF RunNext, AdapterNext

(* The answer does not come in time, or is lost. *)
LEMMA LossStep ==
    ASSUME IInv, NEW x \in Work, TimeOut(x) \/ LoseAnswer(x)
    PROVE  IInv'
  <1>0. run[x] \in RunOf
    BY DEF IInv, Types
  <1> DEFINE r == [run[x] EXCEPT !.answer = "lost"]
  <1>1. /\ r \in RunOf /\ r.pc = run[x].pc /\ r.lease = run[x].lease /\ r.answer = "lost"
        /\ run' = [run EXCEPT ![x] = r] /\ UNCHANGED <<row, poll, agent, begun>>
    BY <1>0 DEF TimeOut, LoseAnswer, RunOf, Answers
  <1> HIDE DEF r
  <1>2. /\ calls' \subseteq CallOf
        /\ \A c \in calls' : c.awaited => c \in calls /\ c.work # x
    <2>1. CASE LoseAnswer(x)
      <3>1. calls' = calls /\ run[x].answer # "none"
        BY <2>1 DEF LoseAnswer
      <3> QED
        BY <3>1, NoCall DEF IInv, Types
    <2>2. CASE TimeOut(x)
      <3>1. PICK c \in calls :
                /\ c.work = x /\ c.awaited
                /\ \/ calls' = calls \ {c}
                   \/ calls' = (calls \ {c}) \cup {[c EXCEPT !.awaited = FALSE]}
        BY <2>2 DEF TimeOut
      <3> DEFINE d == [c EXCEPT !.awaited = FALSE]
      <3>2. c \in CallOf
        BY DEF IInv, Types
      <3>3. d \in CallOf /\ d.awaited = FALSE
        BY <3>2 DEF CallOf
      <3>4. calls' \subseteq (calls \ {c}) \cup {d}
        BY <3>1
      <3> HIDE DEF d
      <3>5. calls' \subseteq CallOf
        BY <3>3, <3>4 DEF IInv, Types
      <3>6. ASSUME NEW e \in calls', e.awaited
            PROVE  e \in calls /\ e.work # x
        <4>1. e \in calls /\ e # c
          BY <3>3, <3>4, <3>6
        <4> QED
          BY <3>1, <3>6, <4>1, OneCall
      <3> QED
        BY <3>5, <3>6
    <2> QED
      BY <2>1, <2>2
  <1> QED
    BY <1>1, <1>2, RunLocal DEF MayBegin, Live
----------------------------------------------------------------------------
(* The control plane's steps *)

(* A row only moves on: its lease number grows, or stays and the row does   *)
(* not become leased again.                                                 *)
MovesOn(old, new) ==
    \/ new.lease > old.lease
    \/ new.lease = old.lease /\ (new.status = "leased" => old.status = "leased")

LEMMA SpentStays ==
    ASSUME row \in [Work -> RowOf], NEW x \in Work, NEW r \in RowOf,
           row' = [row EXCEPT ![x] = r], MovesOn(row[x], r),
           NEW y \in Work, NEW l \in 0 .. MaxLeases, Spent(y, l)
    PROVE  Spent(y, l)'
  <1>1. /\ row[y].lease \in Int /\ row[x].lease \in Int /\ r.lease \in Int /\ l \in Int
        /\ row'[x] = r /\ (y # x => row'[y] = row[y])
    BY DEF RowOf
  <1> QED
    BY <1>1 DEF Spent, MovesOn

(* The invariant when one row moves on, and nothing else. *)
LEMMA RowStep ==
    ASSUME IInv, NEW x \in Work, NEW r \in RowOf, row' = [row EXCEPT ![x] = r],
           MovesOn(row[x], r), r.mine /\ r.status \in {"leased", "running"} => r.lease # 0,
           UNCHANGED <<run, calls, poll, agent, begun>>
    PROVE  IInv'
  <1>0. /\ row \in [Work -> RowOf] /\ run \in [Work -> RunOf]
        /\ begun \subseteq Work \X (1 .. MaxLeases)
    BY DEF IInv, Types
  <1>1. row'[x] = r /\ \A y \in Work : y # x => row'[y] = row[y]
    BY <1>0
  <1>2. Types'
    BY <1>0 DEF IInv, Types
  <1>3. LeasesOK'
    BY <1>1 DEF IInv, LeasesOK, HeldHere, Live
  <1>4. StagesOK' /\ CallsOK'
    BY DEF IInv, StagesOK, CallsOK, Live
  <1>5. StartsOK'
    <2>1. \A b \in begun : Spent(b[1], b[2])'
      <3> SUFFICES ASSUME NEW b \in begun  PROVE Spent(b[1], b[2])'
        OBVIOUS
      <3>1. b[1] \in Work /\ b[2] \in 0 .. MaxLeases /\ Spent(b[1], b[2])
        BY <1>0 DEF IInv, StartsOK
      <3> QED
        BY <1>0, <3>1, SpentStays
    <2>2. ASSUME NEW y \in Work, MayBegin(y)'
          PROVE  Spent(y, run[y].lease)' /\ <<y, run[y].lease>> \notin begun'
      <3>1. MayBegin(y) /\ run[y].lease \in 0 .. MaxLeases
        BY <1>0, <2>2 DEF MayBegin, RunOf
      <3> QED
        BY <1>0, <3>1, SpentStays DEF IInv, StartsOK
    <2> QED
      BY <2>1, <2>2 DEF StartsOK, Spent
  <1> QED
    BY <1>2, <1>3, <1>4, <1>5 DEF IInv

LEMMA ControlPlaneSteps ==
    ASSUME IInv, NEW x \in Work, LeaseHere(x) \/ TakeAway(x) \/ Cancel(x)
    PROVE  IInv'
  <1>0. row[x] \in RowOf /\ row \in [Work -> RowOf]
    BY DEF IInv, Types
  <1>1. CASE LeaseHere(x)
    <2> DEFINE r == [status |-> "leased", lease |-> row[x].lease + 1, mine |-> TRUE]
    <2>1. r \in RowOf /\ r.lease > row[x].lease /\ r.lease # 0
      BY <1>0, <1>1, AgentAssumption DEF LeaseHere, RowOf, Statuses
    <2>2. row' = [row EXCEPT ![x] = r] /\ UNCHANGED <<run, calls, poll, agent, begun>>
      BY <1>1 DEF LeaseHere
    <2> HIDE DEF r
    <2> QED
      BY <2>1, <2>2, RowStep DEF MovesOn
  <1>2. CASE TakeAway(x)
    <2> DEFINE a == [row[x] EXCEPT !.status = "pending"]
               r == [a EXCEPT !.mine = FALSE]
    <2>1. row' = [row EXCEPT ![x] = r] /\ UNCHANGED <<run, calls, poll, agent, begun>>
      BY <1>0, <1>2 DEF TakeAway, RowOf
    <2>2. a \in RowOf /\ a.status = "pending" /\ a.lease = row[x].lease
      BY <1>0 DEF RowOf, Statuses
    <2> HIDE DEF a
    <2>3. r \in RowOf /\ r.status = "pending" /\ r.lease = row[x].lease
      BY <2>2 DEF RowOf
    <2> HIDE DEF r
    <2> QED
      BY <2>1, <2>3, RowStep DEF MovesOn
  <1>3. CASE Cancel(x)
    <2> DEFINE a == [row[x] EXCEPT !.status = "done"]
               m == x \in Jobs /\ row[x].mine
               r == [a EXCEPT !.mine = m]
    <2>1. row' = [row EXCEPT ![x] = r] /\ UNCHANGED <<run, calls, poll, agent, begun>>
      BY <1>0, <1>3 DEF Cancel, RowOf
    <2>2. a \in RowOf /\ a.status = "done" /\ a.lease = row[x].lease
      BY <1>0 DEF RowOf, Statuses
    <2>3. m \in BOOLEAN
      OBVIOUS
    <2> HIDE DEF a, m
    <2>4. r \in RowOf /\ r.status = "done" /\ r.lease = row[x].lease
      BY <2>2, <2>3 DEF RowOf
    <2> HIDE DEF r
    <2> QED
      BY <2>1, <2>4, RowStep DEF MovesOn
  <1> QED
    BY <1>1, <1>2, <1>3

(* A request is served: a start that is accepted is the first of its lease, *)
(* so the lease has not been executed.                                      *)
LEMMA ServeStep ==
    ASSUME IInv, NEW c \in calls, Serve(c)
    PROVE  IInv'
  <1> DEFINE x == c.work
             w == [row[x] EXCEPT !.status = IF c.kind = "start" THEN "running" ELSE "done"]
             ans == IF Accepts(c) THEN "ok" ELSE "conflict"
             r == [run[x] EXCEPT !.answer = ans]
  <1>0. /\ row \in [Work -> RowOf] /\ run \in [Work -> RunOf] /\ calls \subseteq CallOf
        /\ begun \subseteq Work \X (1 .. MaxLeases)
        /\ c \in CallOf /\ x \in Work /\ row[x] \in RowOf /\ run[x] \in RunOf
    BY DEF IInv, Types, CallOf
  <1>1. /\ w \in RowOf /\ w.lease = row[x].lease /\ w.status # "leased"
        /\ w.mine = row[x].mine
    BY <1>0 DEF RowOf, Statuses
  <1>2. r \in RunOf /\ r.lease = run[x].lease /\ r.pc = run[x].pc /\ r.answer = ans
    BY <1>0 DEF RunOf, Answers
  <1>3. /\ row' = IF Accepts(c) THEN [row EXCEPT ![x] = w] ELSE row
        /\ run' = IF c.awaited THEN [run EXCEPT ![x] = r] ELSE run
        /\ calls' = calls \ {c} /\ UNCHANGED <<poll, agent, begun>>
    BY <1>0 DEF Serve, RowOf, RunOf
  <1> HIDE DEF w, r
  <1>4. row' \in [Work -> RowOf] /\ run' \in [Work -> RunOf]
    BY <1>0, <1>1, <1>2, <1>3
  <1>5. \A y \in Work :
            /\ run'[y].pc = run[y].pc /\ run'[y].lease = run[y].lease
            /\ ~(y = x /\ c.awaited) => run'[y] = run[y]
            /\ row'[y].lease = row[y].lease /\ row'[y].mine = row[y].mine
            /\ row'[y].status \in {"leased", "running"} =>
                    row[y].status \in {"leased", "running"}
    <2>1. Accepts(c) => row[x].status \in {"leased", "running"}
      BY DEF Accepts, HeldHere
    <2> QED
      BY <1>0, <1>1, <1>2, <1>3, <2>1
  <1>6. Types'
    BY <1>0, <1>3, <1>4 DEF IInv, Types
  <1>7. LeasesOK'
    BY <1>5 DEF IInv, LeasesOK, HeldHere, Live
  <1>8. StagesOK'
    BY <1>3, <1>5 DEF IInv, StagesOK, Live, Work
  <1>9. CallsOK'
    <2> SUFFICES ASSUME NEW d \in calls', d.awaited
                 PROVE  /\ run'[d.work].pc = PcOf(d.kind)
                        /\ run'[d.work].lease = d.lease
                        /\ run'[d.work].answer = "none"
      BY DEF CallsOK
    <2>1. d \in calls /\ d # c /\ d.work \in Work
      BY <1>0, <1>3 DEF CallOf
    <2>2. ~(d.work = x /\ c.awaited)
      BY <2>1, OneCall
    <2> QED
      BY <1>5, <2>1, <2>2 DEF IInv, CallsOK
  <1>10. ASSUME NEW y \in Work, NEW l \in 0 .. MaxLeases, Spent(y, l)
         PROVE  Spent(y, l)'
    <2>1. CASE Accepts(c)
      <3>1. MovesOn(row[x], w)
        BY <1>1 DEF MovesOn
      <3> QED
        BY <1>0, <1>1, <1>3, <1>10, <2>1, <3>1, SpentStays
    <2> QED
      BY <1>3, <1>10, <2>1 DEF Spent
  <1>11. StartsOK'
    <2>1. \A b \in begun : Spent(b[1], b[2])'
      <3> SUFFICES ASSUME NEW b \in begun  PROVE Spent(b[1], b[2])'
        OBVIOUS
      <3>1. b[1] \in Work /\ b[2] \in 0 .. MaxLeases /\ Spent(b[1], b[2])
        BY <1>0 DEF IInv, StartsOK
      <3> QED
        BY <1>10, <3>1
    <2>2. ASSUME NEW y \in Work, MayBegin(y)'
          PROVE  Spent(y, run[y].lease)' /\ <<y, run'[y].lease>> \notin begun'
      <3>0. run[y].lease \in 0 .. MaxLeases /\ run'[y].lease = run[y].lease
        BY <1>0, <1>5 DEF RunOf
      <3>1. CASE MayBegin(y)
        <4>1. Spent(y, run[y].lease)'
          BY <1>10, <3>0, <3>1 DEF IInv, StartsOK
        <4> QED
          BY <1>3, <3>0, <3>1, <4>1 DEF IInv, StartsOK
      <3>2. CASE ~MayBegin(y)
        <4>1. y = x /\ c.awaited /\ run[x].pc = "starting" /\ ans = "ok"
          <5>1. y = x /\ c.awaited
            BY <1>5, <2>2, <3>2 DEF MayBegin
          <5>2. run'[x] = r
            BY <1>0, <1>3, <5>1
          <5> QED
            BY <1>2, <2>2, <3>2, <5>1, <5>2 DEF MayBegin
        <4>2. Accepts(c) /\ run[x].lease = c.lease /\ PcOf(c.kind) = "starting"
          BY <4>1 DEF IInv, CallsOK
        <4>3. c.kind = "start"
          BY <1>0, <4>2 DEF CallOf, Kinds, PcOf
        <4>4. row[x].lease = c.lease /\ row[x].status = "leased" /\ row[x].lease \in Int
          BY <1>0, <4>2, <4>3 DEF Accepts, RowOf
        <4>5. ~Spent(x, c.lease)
          BY <4>4 DEF Spent
        <4>6. <<x, c.lease>> \notin begun
          BY <4>5 DEF IInv, StartsOK
        <4>7. row'[x] = w
          BY <1>0, <1>3, <4>2
        <4>8. Spent(x, c.lease)'
          BY <1>1, <4>4, <4>7 DEF Spent
        <4>9. y = x /\ run'[y].lease = c.lease
          BY <3>0, <4>1, <4>2
        <4> QED
          BY <1>3, <4>6, <4>8, <4>9 DEF Spent
      <3> QED
        BY <3>1, <3>2
    <2> QED
      BY <1>3, <2>1, <2>2 DEF StartsOK, Spent
  <1> QED
    BY <1>6, <1>7, <1>8, <1>9, <1>11 DEF IInv
----------------------------------------------------------------------------
(* The poll, shutdown and restart *)

(* A step that touches only the poll. *)
LEMMA PollOnly ==
    ASSUME IInv, poll' \in PollOf,
           agent \in {"jobs", "sessions", "stopped"} => poll'.pc = "idle",
           UNCHANGED <<row, run, calls, agent, begun>>
    PROVE  IInv'
  BY DEF IInv, Types, LeasesOK, StagesOK, CallsOK, StartsOK, Spent, MayBegin, Live, HeldHere

LEMMA IdlePollType == IdlePoll \in PollOf /\ IdlePoll.pc = "idle"
  BY DEF IdlePoll, PollOf

LEMMA ListedType ==
    ASSUME IInv, NEW x \in Work, HeldHere(x)
    PROVE  Listed(x) \in EntryOf
  <1>1. row[x].lease \in 1 .. MaxLeases /\ row[x].status \in {"leased", "running"}
    BY DEF IInv, Types, RowOf, LeasesOK, HeldHere
  <1> QED
    BY <1>1 DEF Listed, EntryOf

LEMMA PollSteps ==
    ASSUME IInv, PollAsk \/ ReadJobs \/ ReadSessions \/ PollFails
    PROVE  IInv'
  <1>0. poll \in PollOf
    BY DEF IInv, Types
  <1>1. CASE PollAsk
    <2>1. [IdlePoll EXCEPT !.pc = "asked"] \in PollOf
      BY IdlePollType DEF PollOf
    <2> QED
      BY <1>1, <2>1, PollOnly DEF PollAsk
  <1>2. CASE ReadJobs
    <2> DEFINE l == {Listed(j) : j \in {k \in Newest : HeldHere(k)}}
               a == [poll EXCEPT !.pc = "jobs"]
               b == [a EXCEPT !.list = l]
    <2>1. l \subseteq EntryOf
      BY ListedType DEF Newest, Work
    <2>2. poll' = b
      BY <1>0, <1>2 DEF ReadJobs, PollOf
    <2> HIDE DEF l
    <2>3. a \in PollOf
      BY <1>0 DEF PollOf
    <2> HIDE DEF a
    <2>4. b \in PollOf
      BY <2>1, <2>3 DEF PollOf
    <2>5. agent \notin {"jobs", "sessions", "stopped"}
      BY <1>2 DEF ReadJobs, IInv, StagesOK
    <2> QED
      BY <1>2, <2>2, <2>4, <2>5, PollOnly DEF ReadJobs
  <1>3. CASE ReadSessions
    <2> DEFINE l == poll.list \cup {Listed(s) : s \in {k \in Sessions : HeldHere(k)}}
               a == [poll EXCEPT !.pc = "answered"]
               b == [a EXCEPT !.list = l]
    <2>1. l \subseteq EntryOf
      BY <1>0, ListedType DEF Work, PollOf
    <2>2. poll' = b
      BY <1>0, <1>3 DEF ReadSessions, PollOf
    <2> HIDE DEF l
    <2>3. a \in PollOf
      BY <1>0 DEF PollOf
    <2> HIDE DEF a
    <2>4. b \in PollOf
      BY <2>1, <2>3 DEF PollOf
    <2>5. agent \notin {"jobs", "sessions", "stopped"}
      BY <1>3 DEF ReadSessions, IInv, StagesOK
    <2> QED
      BY <1>3, <2>2, <2>4, <2>5, PollOnly DEF ReadSessions
  <1>4. CASE PollFails
    BY <1>4, IdlePollType, PollOnly DEF PollFails
  <1> QED
    BY <1>1, <1>2, <1>3, <1>4

(* What a poll starts is a lease the answer named, of work without an *)
(* execution.                                                         *)
LEMMA FreshLease ==
    ASSUME IInv, NEW ready, NEW x \in Work, Fresh(x, ready)
    PROVE  LeaseOf(x) \in 1 .. MaxLeases
  <1> DEFINE e == CHOOSE d \in poll.list : d.work = x
  <1>1. e \in poll.list
    BY DEF Fresh
  <1>2. e \in EntryOf
    BY <1>1 DEF IInv, Types, PollOf
  <1>3. LeaseOf(x) = e.lease
    BY DEF LeaseOf
  <1> HIDE DEF e
  <1> QED
    BY <1>2, <1>3 DEF EntryOf

LEMMA ApplyStep ==
    ASSUME IInv, NEW ready \in SUBSET Sessions, PollApply(ready)
    PROVE  IInv'
  <1>0. /\ run \in [Work -> RunOf] /\ row \in [Work -> RowOf] /\ calls \subseteq CallOf
    BY DEF IInv, Types
  <1>1. UNCHANGED <<row, agent, begun>> /\ poll' = IdlePoll
    BY DEF PollApply
  <1>2. agent \in {"running", "draining"}
    BY DEF PollApply, IInv, StagesOK, Types
  <1>3. ASSUME NEW x \in Work
        PROVE  /\ run'[x] \in RunOf
               /\ Fresh(x, ready) => /\ ~Live(x) /\ run'[x].pc = "starting"
                              /\ run'[x].lease = LeaseOf(x) /\ run'[x].answer = "none"
               /\ ~Fresh(x, ready) => /\ run'[x].pc = run[x].pc /\ run'[x].lease = run[x].lease
                               /\ run'[x].answer = run[x].answer
    <2>0. run[x] \in RunOf
      BY <1>0
    <2>1. CASE Fresh(x, ready)
      <3> DEFINE a == [NoRun EXCEPT !.pc = "starting"]
                 r == [a EXCEPT !.lease = LeaseOf(x)]
      <3>1. ~Live(x) /\ ~Gone(x)
        BY <2>1 DEF Fresh, Gone
      <3>2. run'[x] = r
        BY <2>1, <3>1 DEF PollApply, NoRun
      <3>3. a \in RunOf /\ a.pc = "starting" /\ a.answer = "none"
        BY NoRunType DEF RunOf, Pcs
      <3>4. LeaseOf(x) \in 0 .. MaxLeases
        BY <2>1, FreshLease
      <3> HIDE DEF a
      <3>5. /\ r \in RunOf /\ r.pc = "starting" /\ r.answer = "none"
            /\ r.lease = LeaseOf(x)
        BY <3>3, <3>4 DEF RunOf
      <3> QED
        BY <2>1, <3>1, <3>2, <3>5
    <2>2. CASE ~Fresh(x, ready)
      <3>1. run'[x] = IF Gone(x) THEN [run[x] EXCEPT !.aborted = TRUE] ELSE run[x]
        BY <2>2 DEF PollApply
      <3> QED
        BY <2>0, <2>2, <3>1 DEF RunOf
    <2> QED
      BY <2>1, <2>2
  <1>4. run' \in [Work -> RunOf]
    <2>1. run' = [x \in Work |-> run'[x]]
      BY DEF PollApply
    <2> QED
      BY <1>3, <2>1
  <1> DEFINE new == {[work |-> x, lease |-> LeaseOf(x), kind |-> "start", awaited |-> TRUE] :
                        x \in {y \in Work : Fresh(y, ready)}}
  <1>5. calls' = calls \cup new
    BY DEF PollApply
  <1>6. \A c \in new : /\ c \in CallOf /\ Fresh(c.work, ready) /\ c.kind = "start"
                       /\ c.lease = LeaseOf(c.work)
    <2> SUFFICES ASSUME NEW x \in Work, Fresh(x, ready),
                        NEW c, c = [work |-> x, lease |-> LeaseOf(x), kind |-> "start",
                                    awaited |-> TRUE]
                 PROVE  /\ c \in CallOf /\ Fresh(c.work, ready) /\ c.kind = "start"
                        /\ c.lease = LeaseOf(c.work)
      OBVIOUS
    <2>1. "start" \in Kinds /\ LeaseOf(x) \in 1 .. MaxLeases
      BY FreshLease DEF Kinds
    <2>2. c \in CallOf /\ c.work = x /\ c.kind = "start" /\ c.lease = LeaseOf(x)
      BY <2>1 DEF CallOf
    <2> QED
      BY <2>2
  <1> HIDE DEF new
  <1>7. Types'
    BY <1>0, <1>1, <1>4, <1>5, <1>6, IdlePollType DEF IInv, Types
  <1>8. LeasesOK'
    <2> SUFFICES ASSUME NEW x \in Work
                 PROVE  /\ HeldHere(x)' => row'[x].lease # 0
                        /\ Live(x)' => run'[x].lease # 0
      BY DEF LeasesOK
    <2>1. HeldHere(x)' => row'[x].lease # 0
      BY <1>1 DEF IInv, LeasesOK, HeldHere
    <2>2. Live(x)' => run'[x].lease # 0
      BY <1>3, FreshLease DEF IInv, LeasesOK, Live
    <2> QED
      BY <2>1, <2>2
  <1>9. StagesOK'
    BY <1>1, <1>2, IdlePollType DEF StagesOK
  <1>10. CallsOK'
    <2> SUFFICES ASSUME NEW c \in calls', c.awaited
                 PROVE  /\ run'[c.work].pc = PcOf(c.kind)
                        /\ run'[c.work].lease = c.lease
                        /\ run'[c.work].answer = "none"
      BY DEF CallsOK
    <2>1. CASE c \in calls
      <3>1. c.work \in Work /\ run[c.work].pc = PcOf(c.kind) /\ c.kind \in Kinds
        BY <1>0, <2>1 DEF CallOf, IInv, CallsOK
      <3>2. ~Fresh(c.work, ready)
        BY <3>1 DEF Fresh, Live, PcOf, Kinds
      <3> QED
        BY <1>3, <2>1, <3>1, <3>2 DEF IInv, CallsOK
    <2>2. CASE c \in new
      <3>1. c.work \in Work /\ PcOf(c.kind) = "starting"
        BY <1>6, <2>2 DEF CallOf, PcOf
      <3> QED
        BY <1>3, <1>6, <2>2, <3>1
    <2> QED
      BY <1>5, <2>1, <2>2
  <1>11. StartsOK'
    <2>1. ASSUME NEW x \in Work, MayBegin(x)'
          PROVE  MayBegin(x) /\ run'[x].lease = run[x].lease
      BY <1>3, <2>1 DEF MayBegin
    <2>2. \A b \in begun' : Spent(b[1], b[2])'
      BY <1>1 DEF IInv, StartsOK, Spent
    <2>3. ASSUME NEW x \in Work, MayBegin(x)'
          PROVE  Spent(x, run[x].lease)' /\ <<x, run'[x].lease>> \notin begun'
      <3>1. Spent(x, run[x].lease) /\ <<x, run[x].lease>> \notin begun
        BY <2>1, <2>3 DEF IInv, StartsOK
      <3> QED
        BY <1>1, <2>1, <2>3, <3>1 DEF Spent
    <2> QED
      BY <2>2, <2>3 DEF StartsOK
  <1> QED
    BY <1>7, <1>8, <1>9, <1>10, <1>11 DEF IInv

(* Aborting changes nothing but the signals; a stage of stop() is entered *)
(* when what it waits for is over.                                        *)
LEMMA StopSteps ==
    ASSUME IInv, Stop \/ StopNext
    PROVE  IInv'
  <1>0. run \in [Work -> RunOf]
    BY DEF IInv, Types
  <1>1. UNCHANGED <<row, calls, poll, begun>>
    BY DEF Stop, StopNext, AbortJobs, AbortSessions, Stopped
  <1>2. ASSUME NEW S, AbortAll(S), NEW x \in Work
        PROVE  /\ run'[x] \in RunOf /\ run'[x].pc = run[x].pc
               /\ run'[x].lease = run[x].lease /\ run'[x].answer = run[x].answer
    <2>1. run[x] \in RunOf
      BY <1>0
    <2>2. run'[x] = IF x \in S /\ Live(x) THEN [run[x] EXCEPT !.aborted = TRUE] ELSE run[x]
      BY <1>2 DEF AbortAll
    <2> QED
      BY <2>1, <2>2 DEF RunOf
  <1>3. /\ run' \in [Work -> RunOf]
        /\ \A x \in Work : /\ run'[x].pc = run[x].pc /\ run'[x].lease = run[x].lease
                           /\ run'[x].answer = run[x].answer
    <2>1. CASE UNCHANGED run
      BY <1>0, <2>1
    <2>2. ASSUME NEW S, AbortAll(S)
          PROVE  run' \in [Work -> RunOf]
      <3>1. run' = [x \in Work |-> run'[x]]
        BY <2>2 DEF AbortAll
      <3> QED
        BY <1>2, <2>2, <3>1
    <2> QED
      BY <1>2, <2>1, <2>2 DEF Stop, StopNext, AbortJobs, AbortSessions, Stopped
  <1>4. Types'
    <2>1. agent' \in {"running", "draining", "jobs", "sessions", "stopped"}
      BY DEF Stop, StopNext, AbortJobs, AbortSessions, Stopped
    <2> QED
      BY <1>1, <1>3, <2>1 DEF IInv, Types
  <1>5. LeasesOK'
    BY <1>1, <1>3 DEF IInv, LeasesOK, Live, HeldHere
  <1>6. StagesOK'
    <2>1. \A x \in Work : Live(x)' <=> Live(x)
      BY <1>3 DEF Live
    <2>2. CASE Stop
      BY <2>2 DEF Stop, StagesOK
    <2>3. CASE AbortJobs
      BY <1>1, <2>3 DEF AbortJobs, StagesOK
    <2>4. CASE AbortSessions
      BY <1>1, <2>1, <2>4 DEF AbortSessions, StagesOK, IInv, Work
    <2>5. CASE Stopped
      BY <1>1, <2>1, <2>5 DEF Stopped, StagesOK, IInv, Work
    <2> QED
      BY <2>2, <2>3, <2>4, <2>5 DEF StopNext
  <1>7. CallsOK'
    <2>1. \A c \in calls : c.work \in Work
      BY DEF IInv, Types, CallOf
    <2> QED
      BY <1>1, <1>3, <2>1 DEF IInv, CallsOK
  <1>8. StartsOK'
    BY <1>1, <1>3 DEF IInv, StartsOK, Spent, MayBegin
  <1> QED
    BY <1>4, <1>5, <1>6, <1>7, <1>8 DEF IInv

LEMMA RestartStep ==
    ASSUME IInv, Restart
    PROVE  IInv'
  <1>1. /\ UNCHANGED <<row, begun>> /\ poll' = IdlePoll /\ agent' = "running"
        /\ run' \in [Work -> RunOf] /\ \A x \in Work : run'[x].pc = "none"
    BY NoRunType DEF Restart
  <1>2. \A c \in calls' : c \in CallOf /\ c.awaited = FALSE
    <2> SUFFICES ASSUME NEW c \in calls
                 PROVE  /\ [c EXCEPT !.awaited = FALSE] \in CallOf
                        /\ [c EXCEPT !.awaited = FALSE].awaited = FALSE
      BY DEF Restart
    <2>1. c \in CallOf
      BY DEF IInv, Types
    <2> QED
      BY <2>1 DEF CallOf
  <1>3. Types'
    BY <1>1, <1>2, IdlePollType DEF IInv, Types
  <1>4. LeasesOK' /\ StagesOK' /\ CallsOK'
    BY <1>1, <1>2 DEF IInv, LeasesOK, StagesOK, CallsOK, Live, HeldHere
  <1>5. StartsOK'
    BY <1>1 DEF IInv, StartsOK, Spent, MayBegin
  <1> QED
    BY <1>3, <1>4, <1>5 DEF IInv

----------------------------------------------------------------------------
(* Every step of the agent, of its executions and of the control plane keeps *)
(* the invariant.                                                            *)
THEOREM Inductive == Spec => []IInv
  <1>1. Init => IInv
    <2> SUFFICES ASSUME Init  PROVE IInv
      OBVIOUS
    <2>1. /\ \A x \in Work : run[x] = NoRun
          /\ calls = {} /\ poll = IdlePoll /\ agent = "running" /\ begun = {}
          /\ \A x \in Work : row[x].mine = FALSE
      BY DEF Init
    <2>2. row \in [Work -> RowOf] /\ run \in [Work -> RunOf]
      BY NoRunType, AgentAssumption DEF Init, RowOf, Statuses
    <2> QED
      BY <2>1, <2>2, NoRunType, IdlePollType
         DEF IInv, Types, LeasesOK, StagesOK, CallsOK, StartsOK, MayBegin, Live, HeldHere
  <1>2. IInv /\ [Next]_vars => IInv'
    <2> SUFFICES ASSUME IInv, [Next]_vars  PROVE IInv'
      OBVIOUS
    <2>1. CASE ControlPlaneNext
      BY <2>1, ControlPlaneSteps DEF ControlPlaneNext
    <2>2. ASSUME NEW c \in calls, Serve(c)  PROVE IInv'
      BY <2>2, ServeStep
    <2>3. ASSUME NEW x \in Work,
                 TimeOut(x) \/ LoseAnswer(x) \/ RunNext(x) \/ AdapterNext(x)
          PROVE  IInv'
      BY <2>3, LossStep, RunSteps
    <2>4. CASE PollNext \/ PollFails
      BY <2>4, PollSteps, ApplyStep DEF PollNext
    <2>5. CASE Stop \/ StopNext
      BY <2>5, StopSteps
    <2>6. CASE Restart
      BY <2>6, RestartStep
    <2>7. CASE UNCHANGED vars
      BY <2>7 DEF vars, IInv, Types, LeasesOK, StagesOK, CallsOK, StartsOK, Spent, MayBegin,
                  Live, HeldHere
    <2> QED
      BY <2>1, <2>2, <2>3, <2>4, <2>5, <2>6, <2>7 DEF Next
  <1> QED
    BY <1>1, <1>2, PTL DEF Spec

(* Rows, executions, requests and the poll of agent.mjs keep their types:   *)
(* above all, what a request or the poll names is a lease that was granted. *)
THEOREM TypeCorrect == Spec => []TypeOK
  <1>1. IInv => TypeOK
    BY DEF IInv, Types, TypeOK, RowOf, RunOf, CallOf, EntryOf, PollOf, Statuses, Answers
  <1> QED
    BY <1>1, Inductive, PTL

(* When stop() of agent.mjs returns no execution is left: none can be       *)
(* started by a poll that was under way when it was called.                 *)
THEOREM StopLeavesNoExecution == Spec => []StopIsClean
  <1>1. IInv => StopIsClean
    BY DEF IInv, StagesOK, StopIsClean, Work
  <1> QED
    BY <1>1, Inductive, PTL

(* executeLease and maintainSessionLease begin an execution at most once    *)
(* per lease, whatever is lost, late or repeated and whenever the agent is  *)
(* restarted.                                                               *)
THEOREM LeaseRunsOnce == Spec => ExecutedOnce
  <1>1. ASSUME IInv, [Next]_vars, NEW x \in Work,
               run[x].pc # "executing", run'[x].pc = "executing"
        PROVE  MayBegin(x)
    <2>0. run \in [Work -> RunOf]
      BY <1>1 DEF IInv, Types
    <2>1. ASSUME NEW y \in Work, TimeOut(y) \/ LoseAnswer(y) \/ RunNext(y) \/ AdapterNext(y)
          PROVE  MayBegin(x)
      <3>1. ASSUME NEW pc, Goto(y, pc)
            PROVE  run'[x].pc = IF x = y THEN pc ELSE run[x].pc
        BY <2>0, <3>1 DEF Goto, RunOf
      <3>2. ASSUME Leave(y)
            PROVE  run'[x].pc = IF x = y THEN "none" ELSE run[x].pc
        BY <2>0, <3>2, NoRunType DEF Leave
      <3>3. CASE TimeOut(y) \/ LoseAnswer(y)
        BY <1>1, <2>0, <3>3 DEF TimeOut, LoseAnswer, RunOf
      <3>4. CASE Started(y) \/ SessionStarted(y) \/ GrantIssued(y) \/ DataPlaneOpens(y)
        BY <1>1, <3>1, <3>4 DEF Started, SessionStarted, GrantIssued, DataPlaneOpens,
           Waiting, MayBegin
      <3>5. CASE NotStarted(y) \/ Reported(y) \/ DataPlaneFails(y) \/ SessionEnds(y)
        BY <1>1, <3>2, <3>5 DEF NotStarted, Reported, DataPlaneFails, SessionEnds
      <3>6. CASE SuccessNotReported(y) \/ AdapterSucceeds(y) \/ AdapterFails(y)
        BY <1>1, <3>1, <3>6 DEF SuccessNotReported, AdapterSucceeds, AdapterFails
      <3>7. CASE SessionStops(y) \/ RenewalStops(y)
        BY <1>1, <2>0, <3>7 DEF SessionStops, RenewalStops, RunOf
      <3> QED
        BY <2>1, <3>3, <3>4, <3>5, <3>6, <3>7 DEF RunNext, AdapterNext
    <2>2. ASSUME NEW c \in calls, Serve(c)  PROVE run'[x].pc = run[x].pc
      BY <2>0, <2>2 DEF Serve, RunOf
    <2>3. ASSUME NEW ready \in SUBSET Sessions, PollApply(ready)  PROVE MayBegin(x)
      <3>1. run'[x] = IF Gone(x) THEN [run[x] EXCEPT !.aborted = TRUE]
                      ELSE IF Fresh(x, ready) THEN [NoRun EXCEPT !.pc = "starting",
                                                          !.lease = LeaseOf(x)]
                      ELSE run[x]
        BY <2>3 DEF PollApply
      <3>2. run[x] \in RunOf
        BY <2>0
      <3> QED
        BY <1>1, <3>1, <3>2 DEF RunOf, NoRun
    <2>4. CASE Stop \/ StopNext
      <3>1. run[x] \in RunOf
        BY <2>0
      <3>2. run'[x] = run[x] \/ run'[x] = [run[x] EXCEPT !.aborted = TRUE]
        BY <2>4 DEF Stop, StopNext, AbortJobs, AbortSessions, Stopped, AbortAll
      <3> QED
        BY <1>1, <3>1, <3>2 DEF RunOf
    <2>5. CASE Restart
      BY <1>1, <2>5, NoRunType DEF Restart
    <2>6. CASE UNCHANGED run
      BY <1>1, <2>6
    <2> QED
      BY <1>1, <2>1, <2>2, <2>3, <2>4, <2>5, <2>6 DEF Next, ControlPlaneNext, LeaseHere,
         TakeAway, Cancel, PollNext, PollAsk, ReadJobs, ReadSessions, PollFails, vars
  <1>2. IInv /\ [Next]_vars =>
            [\A x \in Work : run[x].pc # "executing" /\ run'[x].pc = "executing" =>
                                <<x, run[x].lease>> \notin begun]_vars
    BY <1>1 DEF IInv, StartsOK
  <1> QED
    BY <1>2, Inductive, PTL DEF Spec, ExecutedOnce
=============================================================================

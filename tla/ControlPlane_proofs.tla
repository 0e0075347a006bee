------------------------ MODULE ControlPlane_proofs ------------------------
(***************************************************************************)
(* Proofs about ControlPlane, for any sets of workers, GPUs and work.      *)
(*                                                                         *)
(* GpuExclusive is not inductive: it says nothing of the rows a pass has   *)
(* written and not yet committed, nor of the lists the pass has read.      *)
(* IInv adds that the rows as the pass sees them are sound too, that the   *)
(* lists of the pass still cover every held row and only name unfenced     *)
(* GPUs of online workers, and that lease ids grow.                        *)
(*                                                                         *)
(* JInv adds what a commit makes of it: the leases it gives are on         *)
(* resources found free and fresh and have ids of their own, and the       *)
(* tokens of a job or session are counted by its row.  From it follow the  *)
(* attempt budget and the refinement of GpuLeasing.                        *)
(***************************************************************************)
EXTENDS ControlPlane, FiniteSetTheorems, TLAPS

(* TypeOK, with the shape of the pass as one set. *)
Writes == UNION {[S -> Row] : S \in SUBSET Work}

Passes ==
    [pc : {"idle", "recoverJobs", "recoverSessions", "listWorkers",
           "listOccupied", "listPending", "assign"},
     lag : 0 .. MaxLag, stale : SUBSET Workers, writes : Writes,
     free : SUBSET (Workers \X Gpus), occupied : SUBSET Gpus,
     pending : SUBSET Work, lease : Nat]

Types == TablesOK /\ pass \in Passes

(* The rows as the pass sees them. *)
Seen == [x \in Work |-> View(x)]

(* Rows v, against the fences f and the workers ws. *)
RowsOK(v, f, ws) ==
    \A x \in Work : Held(v[x]) =>
        /\ v[x].status \in JobHeld <=> x \in Jobs
        /\ v[x].worker \in Workers
        /\ v[x].gpu \in Gpus
        /\ f[v[x].worker][v[x].gpu] \in {0, v[x].lease}
        /\ ws[v[x].worker].status = "online"
        /\ \A y \in Work : Held(v[y]) /\ v[y].gpu = v[x].gpu => x = y

Recovered == {"listWorkers", "listOccupied", "listPending", "assign"}

PassOK ==
    /\ pass.pc \in {"idle", "recoverJobs"} => DOMAIN pass.writes = {}
    /\ pass.pc = "recoverSessions" => DOMAIN pass.writes \subseteq Jobs
    /\ \A x \in DOMAIN pass.writes : row[x].status \notin FinalStatus \cup {"absent"}
    /\ pass.pc = "recoverSessions" =>
        \A x \in Jobs : Held(Seen[x]) => Seen[x].worker \notin pass.stale
    /\ pass.pc \in Recovered =>
        \A x \in Work : Held(Seen[x]) => Seen[x].worker \notin pass.stale
    /\ pass.pc \in {"listOccupied", "listPending", "assign"} =>
        \A p \in pass.free : /\ fence[p[1]][p[2]] = 0
                             /\ p[1] \notin pass.stale
                             /\ workers[p[1]].status = "online"
    /\ pass.pc \in {"listPending", "assign"} =>
        \A x \in Work : Held(Seen[x]) => Seen[x].gpu \in pass.occupied

LeasesOK ==
    /\ pass.pc # "idle" => nextLease <= pass.lease
    /\ \A x \in DOMAIN pass.writes :
        Held(pass.writes[x]) => /\ nextLease <= pass.writes[x].lease
                                /\ pass.writes[x].lease < pass.lease
    /\ \A t \in issued :
        /\ t.lease < nextLease
        /\ Held(row[t.work]) => t.lease <= row[t.work].lease
        /\ done[t.work] # 0 => t.lease <= done[t.work]
    /\ \A x \in Work : done[x] # 0 => Final(row[x])

IInv ==
    /\ Types
    /\ RowsOK(row, fence, workers)
    /\ RowsOK(Seen, fence, workers)
    /\ PassOK
    /\ LeasesOK

----------------------------------------------------------------------------
(* Lemmas about the operators of the model *)

(* The uncommitted rows of a pass: a function from some of the work to rows. *)
LEMMA WritesIntro ==
    ASSUME NEW S \in SUBSET Work, NEW f \in [S -> Row]
    PROVE  f \in Writes
  BY DEF Writes

LEMMA WritesElim ==
    ASSUME NEW f \in Writes
    PROVE  /\ DOMAIN f \in SUBSET Work
           /\ f \in [DOMAIN f -> Row]
  BY DEF Writes

LEMMA NoWritesType == NoWrites \in Writes /\ DOMAIN NoWrites = {}
  <1>1. NoWrites \in [{} -> Row] /\ DOMAIN NoWrites = {}
    BY DEF NoWrites
  <1>2. {} \in SUBSET Work
    OBVIOUS
  <1> QED
    BY <1>1, <1>2, WritesIntro

(* The rows of no lease have the types of the columns. *)
LEMMA ReleasedType ==
    ASSUME NEW r \in Row, NEW s \in Status
    PROVE  /\ Released(r, s) \in Row
           /\ Released(r, s).status = s
           /\ Released(r, s).count = r.count
  BY DEF Released, Row

LEMMA UpdatedType ==
    ASSUME NEW r \in Row, NEW s \in Status, NEW n \in Int
    PROVE  /\ Updated(r, s, n) \in Row
           /\ Updated(r, s, n).status = s /\ Updated(r, s, n).worker = r.worker
           /\ Updated(r, s, n).gpu = r.gpu /\ Updated(r, s, n).lease = r.lease
           /\ Updated(r, s, n).count = r.count
  <1> DEFINE q == [r EXCEPT !.status = s]
  <1>1. q \in Row /\ q.status = s
        /\ q.worker = r.worker /\ q.gpu = r.gpu /\ q.lease = r.lease
        /\ q.count = r.count
    BY DEF Row
  <1>2. Updated(r, s, n) = [q EXCEPT !.ttl = n]
    BY DEF Updated, Row
  <1> HIDE DEF q
  <1> QED
    BY <1>1, <1>2 DEF Row

LEMMA OlderSame ==
    ASSUME NEW r \in Row
    PROVE  /\ Older(r) \in Row
           /\ Older(r).status = r.status /\ Older(r).worker = r.worker
           /\ Older(r).gpu = r.gpu /\ Older(r).lease = r.lease
           /\ Older(r).count = r.count
  BY ConstantsAssumption DEF Older, Row

(* The pass sees a row of the right type for every work. *)
LEMMA SeenType ==
    ASSUME Types
    PROVE  Seen \in [Work -> Row]
  BY WritesElim DEF Types, TablesOK, Seen, View, Passes

(* q holds nothing that r did not hold. *)
Keeps(r, q) ==
    Held(q) => /\ Held(r)
               /\ q.status \in JobHeld <=> r.status \in JobHeld
               /\ q.worker = r.worker
               /\ q.gpu = r.gpu
               /\ q.lease = r.lease

(* Rows stay sound when leases are only dropped and no holder goes offline. *)
LEMMA RowsOKKeeps ==
    ASSUME NEW v, NEW u, NEW f, NEW a, NEW b,
           RowsOK(v, f, a),
           \A x \in Work : Keeps(v[x], u[x]),
           \A w \in Workers : a[w].status = "online" => b[w].status = "online"
    PROVE  RowsOK(u, f, b)
  BY DEF RowsOK, Keeps

----------------------------------------------------------------------------
(* The steps that change one committed row *)

(* A request updates row x, which no pass has locked, to r. *)
RowStep(x, r) ==
    /\ x \in Work /\ x \notin DOMAIN pass.writes
    /\ r \in Row /\ Keeps(row[x], r)
    /\ r.count = row[x].count
    /\ ~Final(row[x])
    /\ ~Held(r) => Final(r) \/ ~Held(row[x])
    /\ row' = [row EXCEPT ![x] = r]
    /\ UNCHANGED <<workers, fence, pass, nextLease, issued>>
    /\ \/ done' = done
       \/ /\ Held(row[x]) /\ Final(r)
          /\ done' = [done EXCEPT ![x] = row[x].lease]

RowStepNext == \E x \in Work, r \in Row : RowStep(x, r)

(* Submitting, cancelling and closing update one unlocked row. *)
LEMMA ClientStepIsRowStep ==
    ASSUME IInv, ClientNext
    PROVE  RowStepNext
  <1> USE DEF SetRow, RowStep, Keeps, Held, Final, HeldStatus, JobHeld,
              SessionHeld, FinalStatus
  <1>0. row \in [Work -> Row] /\ Jobs \subseteq Work /\ Sessions \subseteq Work
    BY DEF IInv, Types, TablesOK, Work
  <1>1. ASSUME NEW j \in Jobs, SubmitJob(j) PROVE RowStepNext
    <2> DEFINE r == [row[j] EXCEPT !.status = "queued"]
    <2>1. r \in Row /\ r.status = "queued" /\ r.count = row[j].count
      BY <1>0 DEF Row, Status, PendingStatus
    <2>2. j \notin DOMAIN pass.writes
      BY <1>1 DEF SubmitJob, IInv, PassOK
    <2>3. RowStep(j, r)
      BY <1>0, <1>1, <2>1, <2>2 DEF SubmitJob
    <2> QED
      BY <1>0, <2>1, <2>3 DEF RowStepNext
  <1>2. ASSUME NEW j \in Jobs, CancelJob(j) PROVE RowStepNext
    <2> DEFINE r == Updated(row[j], "cancelled", 0)
    <2>1. r \in Row /\ r.status = "cancelled" /\ r.count = row[j].count
      BY <1>0, UpdatedType DEF Status
    <2>2. RowStep(j, r)
      BY <1>0, <1>2, <2>1 DEF CancelJob, Unlocked
    <2> QED
      BY <1>0, <2>1, <2>2 DEF RowStepNext
  <1>3. ASSUME NEW s \in Sessions, SubmitSession(s) PROVE RowStepNext
    <2> DEFINE r == [row[s] EXCEPT !.status = "requested"]
    <2>1. r \in Row /\ r.status = "requested" /\ r.count = row[s].count
      BY <1>0 DEF Row, Status, PendingStatus
    <2>2. s \notin DOMAIN pass.writes
      BY <1>3 DEF SubmitSession, IInv, PassOK
    <2>3. RowStep(s, r)
      BY <1>0, <1>3, <2>1, <2>2 DEF SubmitSession
    <2> QED
      BY <1>0, <2>1, <2>3 DEF RowStepNext
  <1>4. ASSUME NEW s \in Sessions, CloseSession(s) PROVE RowStepNext
    <2> DEFINE r == Released(row[s], "closed")
    <2>1. r \in Row /\ r.status = "closed" /\ r.count = row[s].count
      BY <1>0, ReleasedType DEF Status
    <2>2. RowStep(s, r)
      BY <1>0, <1>4, <2>1 DEF CloseSession, Unlocked
    <2> QED
      BY <1>0, <2>1, <2>2 DEF RowStepNext
  <1> QED
    BY <1>1, <1>2, <1>3, <1>4 DEF ClientNext

(* Starting, renewing and finishing update the unlocked row of a token. *)
LEMMA HolderStepIsRowStep ==
    ASSUME IInv, NEW t \in issued, NEW lag \in Lags,
           \/ StartJob(t, lag) \/ RenewJob(t, lag)
           \/ \E outcome \in {"succeeded", "failed"} : FinishJob(t, outcome, lag)
           \/ StartSession(t, lag) \/ ActivateSession(t, lag)
           \/ RenewSession(t, lag)
    PROVE  RowStepNext
  <1> DEFINE x == t.work
  <1>0. row \in [Work -> Row] /\ x \in Work /\ row[x] \in Row
    BY DEF IInv, Types, TablesOK, Token
  <1>1. LeaseTtl - lag \in Int
    BY ConstantsAssumption DEF Lags
  <1>2. ASSUME NEW s \in HeldStatus, NEW was \in SUBSET HeldStatus,
               OwnsLease(t, was, lag), s \in JobHeld <=> row[x].status \in JobHeld,
               SetRow(x, Renewed(row[x], s, lag)), UNCHANGED done
        PROVE  RowStepNext
    <2> DEFINE r == Renewed(row[x], s, lag)
    <2>1. /\ r \in Row /\ r.status = s
          /\ r.worker = row[x].worker /\ r.gpu = row[x].gpu
          /\ r.lease = row[x].lease /\ r.count = row[x].count
      <3> DEFINE n == LeaseTtl - lag
      <3>1. s \in Status /\ n \in Int /\ r = Updated(row[x], s, n)
        BY <1>1 DEF Renewed, Status
      <3> HIDE DEF n, r
      <3> QED
        BY <1>0, <3>1, UpdatedType
    <2>2. Held(row[x]) /\ x \notin DOMAIN pass.writes
      BY <1>2 DEF OwnsLease, Held, Unlocked
    <2>3. ~Final(row[x]) /\ Held(r)
      BY <1>2, <2>1, <2>2 DEF Held, Final, HeldStatus, JobHeld, SessionHeld, FinalStatus
    <2> HIDE DEF r
    <2>4. RowStep(x, r)
      BY <1>0, <1>2, <2>1, <2>2, <2>3 DEF RowStep, Keeps, SetRow, r
    <2> QED
      BY <1>0, <2>1, <2>4 DEF RowStepNext
  <1>3. ASSUME NEW outcome \in {"succeeded", "failed"}, FinishJob(t, outcome, lag)
        PROVE  RowStepNext
    <2> DEFINE r == Updated(row[x], outcome, 0)
    <2>1. r \in Row /\ r.status = outcome /\ r.count = row[x].count
      BY <1>0, UpdatedType DEF Status, FinalStatus
    <2>2. Held(row[x]) /\ x \notin DOMAIN pass.writes /\ row[x].lease = t.lease
      BY <1>3 DEF FinishJob, OwnsLease, Held, Unlocked, HeldStatus
    <2>3. ~Final(row[x]) /\ Final(r) /\ ~Held(r)
      BY <2>1, <2>2 DEF Held, Final, HeldStatus, JobHeld, SessionHeld, FinalStatus
    <2> HIDE DEF r
    <2>4. RowStep(x, r)
      BY <1>0, <1>3, <2>1, <2>2, <2>3 DEF RowStep, Keeps, SetRow, FinishJob, r
    <2> QED
      BY <1>0, <2>1, <2>4 DEF RowStepNext
  <1> USE DEF HeldStatus, JobHeld, SessionHeld
  <1>4. CASE StartJob(t, lag)
    BY <1>2, <1>4 DEF StartJob, OwnsLease
  <1>5. CASE RenewJob(t, lag)
    BY <1>2, <1>5 DEF RenewJob, OwnsLease
  <1>6. CASE StartSession(t, lag)
    BY <1>2, <1>6 DEF StartSession, OwnsLease
  <1>7. CASE ActivateSession(t, lag)
    BY <1>2, <1>7 DEF ActivateSession, OwnsLease
  <1>8. CASE RenewSession(t, lag)
    <2>1. row[x].status \in HeldStatus
      BY <1>8 DEF RenewSession, OwnsLease
    <2> QED
      BY <1>2, <1>8, <2>1 DEF RenewSession
  <1> QED
    BY <1>3, <1>4, <1>5, <1>6, <1>7, <1>8

----------------------------------------------------------------------------
(* Each kind of step preserves IInv *)

LEMMA RowStepInv ==
    ASSUME IInv, RowStepNext
    PROVE  IInv'
  <1>1. PICK x \in Work, r \in Row : RowStep(x, r)
    BY DEF RowStepNext
  <1>2. /\ row \in [Work -> Row]
        /\ row' = [row EXCEPT ![x] = r]
        /\ x \notin DOMAIN pass.writes /\ ~Final(row[x]) /\ Keeps(row[x], r)
        /\ UNCHANGED <<workers, fence, pass, nextLease, issued>>
    BY <1>1 DEF RowStep, IInv, Types, TablesOK
  <1>3. \A y \in Work : Keeps(row[y], row'[y])
    BY <1>2 DEF Keeps
  <1>4. \A y \in Work : Keeps(Seen[y], Seen'[y])
    BY <1>2 DEF Keeps, Seen, View
  <1>5. Types'
    <2>1. done' \in [Work -> Nat]
      <3>1. done \in [Work -> Nat] /\ row[x].lease \in Nat
        BY <1>2 DEF IInv, Types, TablesOK, Row
      <3> QED
        BY <1>1, <3>1 DEF RowStep
    <2> QED
      BY <1>2, <2>1 DEF IInv, Types, TablesOK
  <1>6. RowsOK(row, fence, workers)'
    BY <1>2, <1>3, RowsOKKeeps DEF IInv
  <1>7. RowsOK(Seen, fence, workers)'
    BY <1>2, <1>4, RowsOKKeeps DEF IInv
  <1>8. PassOK'
    <2>1. \A y \in Work : Held(Seen'[y]) =>
             Held(Seen[y]) /\ Seen'[y].worker = Seen[y].worker
                           /\ Seen'[y].gpu = Seen[y].gpu
      BY <1>4 DEF Keeps
    <2>2. Jobs \subseteq Work /\ DOMAIN pass.writes \subseteq Work
      BY WritesElim DEF Work, IInv, Types, TablesOK, Passes
    <2>3. \A y \in DOMAIN pass.writes : row'[y] = row[y]
      BY <1>2, <2>2
    <2> QED
      BY <1>2, <2>1, <2>2, <2>3 DEF IInv, PassOK
  <1>9. LeasesOK'
    <2>1. \A t \in issued : t.work \in Work /\ t.lease \in Nat
      BY DEF IInv, Types, TablesOK, Token
    <2>2. \A t \in issued : /\ t.lease < nextLease
                            /\ Held(row[t.work]) => t.lease <= row[t.work].lease
                            /\ done[t.work] # 0 => t.lease <= done[t.work]
      BY DEF IInv, LeasesOK
    <2>3. \A y \in Work : Held(row'[y]) => Held(row[y]) /\ row'[y].lease = row[y].lease
      BY <1>3 DEF Keeps
    <2>4. done \in [Work -> Nat] /\ \A y \in Work : done[y] # 0 => Final(row[y])
      BY DEF IInv, Types, TablesOK, LeasesOK
    <2>5. \A y \in Work : y # x => row'[y] = row[y]
      BY <1>2
    <2>6. \A y \in Work : \/ done'[y] = done[y]
                          \/ y = x /\ Held(row[x]) /\ Final(r) /\ done'[y] = row[x].lease
      BY <1>1, <2>4 DEF RowStep
    <2>7. row'[x] = r
      BY <1>2
    <2>8. \A y \in Work : done'[y] # 0 => Final(row'[y])
      BY <1>2, <2>4, <2>5, <2>6, <2>7
    <2>9. \A t \in issued : /\ Held(row'[t.work]) => t.lease <= row'[t.work].lease
                            /\ done'[t.work] # 0 => t.lease <= done'[t.work]
      BY <2>1, <2>2, <2>3, <2>6
    <2> QED
      BY <1>2, <2>2, <2>8, <2>9 DEF IInv, LeasesOK
  <1> QED
    BY <1>5, <1>6, <1>7, <1>8, <1>9 DEF IInv

(* Time changes no status, worker, GPU or lease id. *)
LEMMA TickInv ==
    ASSUME IInv, Tick
    PROVE  IInv'
  <1>1. /\ row \in [Work -> Row] /\ row' \in [Work -> Row]
        /\ \A x \in Work : row'[x] = Older(row[x])
    BY OlderSame DEF Tick, IInv, Types, TablesOK
  <1>2. /\ pass' \in Passes
        /\ pass'.pc = pass.pc /\ pass'.stale = pass.stale
        /\ pass'.free = pass.free /\ pass'.occupied = pass.occupied
        /\ pass'.pending = pass.pending /\ pass'.lease = pass.lease
        /\ DOMAIN pass'.writes = DOMAIN pass.writes
        /\ \A x \in DOMAIN pass.writes : pass'.writes[x] = Older(pass.writes[x])
    <2>0. pass \in Passes
      BY DEF IInv, Types, TablesOK
    <2>1. CASE pass.pc = "idle"
      BY <2>0, <2>1 DEF Tick, IInv, PassOK
    <2>2. CASE pass.pc # "idle"
      <3> DEFINE ws == [x \in DOMAIN pass.writes |-> Older(pass.writes[x])]
      <3>1. /\ DOMAIN pass.writes \in SUBSET Work
            /\ pass.writes \in [DOMAIN pass.writes -> Row]
        BY <2>0, WritesElim DEF Passes
      <3>2. ws \in [DOMAIN pass.writes -> Row]
        BY <3>1, OlderSame
      <3>3. ws \in Writes
        BY <3>1, <3>2, WritesIntro
      <3>4. pass.lag + 1 \in 0 .. MaxLag
        BY <2>0, <2>2, ConstantsAssumption DEF Passes, Tick
      <3>5. pass' = [pass EXCEPT !.lag = pass.lag + 1, !.writes = ws]
        BY <2>2 DEF Tick
      <3>6. \A x \in DOMAIN pass.writes : ws[x] = Older(pass.writes[x])
        OBVIOUS
      <3>7. DOMAIN ws = DOMAIN pass.writes
        OBVIOUS
      <3> DEFINE n == pass.lag + 1
      <3>8. n \in 0 .. MaxLag /\ pass' = [pass EXCEPT !.lag = n, !.writes = ws]
        BY <3>4, <3>5
      <3> HIDE DEF ws, n
      <3>9. /\ pass' \in Passes
            /\ pass'.pc = pass.pc /\ pass'.stale = pass.stale
            /\ pass'.free = pass.free /\ pass'.occupied = pass.occupied
            /\ pass'.pending = pass.pending /\ pass'.lease = pass.lease
            /\ pass'.writes = ws
        BY <2>0, <3>3, <3>8 DEF Passes
      <3> QED
        BY <3>6, <3>7, <3>9
    <2> QED
      BY <2>1, <2>2
  <1>3. /\ workers' \in [Workers -> Worker]
        /\ \A w \in Workers : workers'[w].status = workers[w].status
    <2>1. workers \in [Workers -> Worker]
      BY DEF IInv, Types, TablesOK
    <2>2. \A w \in Workers :
            [workers[w] EXCEPT !.age = workers[w].age + 1] \in Worker
      BY <2>1 DEF Worker
    <2> QED
      BY <2>1, <2>2 DEF Tick, Worker
  <1>4. UNCHANGED <<fence, nextLease, issued, done>>
    BY DEF Tick
  <1>5. Types'
    BY <1>1, <1>2, <1>3, <1>4 DEF IInv, Types, TablesOK
  <1>6. \A x \in Work : /\ row'[x].status = row[x].status
                        /\ row'[x].worker = row[x].worker
                        /\ row'[x].gpu = row[x].gpu
                        /\ row'[x].lease = row[x].lease
    BY <1>1, OlderSame
  <1>7. /\ DOMAIN pass.writes \subseteq Work
        /\ \A x \in DOMAIN pass.writes :
            /\ pass'.writes[x].status = pass.writes[x].status
            /\ pass'.writes[x].worker = pass.writes[x].worker
            /\ pass'.writes[x].gpu = pass.writes[x].gpu
            /\ pass'.writes[x].lease = pass.writes[x].lease
    BY <1>2, WritesElim, OlderSame DEF IInv, Types, TablesOK, Passes
  <1>8. \A x \in Work : /\ Seen'[x].status = Seen[x].status
                        /\ Seen'[x].worker = Seen[x].worker
                        /\ Seen'[x].gpu = Seen[x].gpu
                        /\ Seen'[x].lease = Seen[x].lease
    BY <1>2, <1>6, <1>7 DEF Seen, View
  <1>9. RowsOK(row, fence, workers)' /\ RowsOK(Seen, fence, workers)'
    <2>1. \A x \in Work : Keeps(row[x], row'[x]) /\ Keeps(Seen[x], Seen'[x])
      BY <1>6, <1>8 DEF Keeps, Held
    <2> QED
      BY <1>3, <1>4, <2>1, RowsOKKeeps DEF IInv
  <1>10. PassOK'
    <2>1. Jobs \subseteq Work
      BY DEF Work
    <2>2. pass.free \subseteq Workers \X Gpus
      BY DEF IInv, Types, TablesOK, Passes
    <2> QED
      BY <1>2, <1>3, <1>4, <1>6, <1>7, <1>8, <2>1, <2>2 DEF IInv, PassOK, Held
  <1>11. LeasesOK'
    <2>1. \A t \in issued : t.work \in Work
      BY DEF IInv, Types, TablesOK, Token
    <2> QED
      BY <1>2, <1>4, <1>6, <1>7, <2>1 DEF IInv, LeasesOK, Held, Final
  <1> QED
    BY <1>5, <1>9, <1>10, <1>11 DEF IInv

(* Registration, heartbeat and drain: no worker is marked offline. *)
LEMMA WorkerStepInv ==
    ASSUME IInv, WorkerNext
    PROVE  IInv'
  <1>1. PICK w \in Workers :
          \/ \E inventory \in Inventories, lag \in Lags :
                RegisterWorker(w, inventory, lag) \/ HeartbeatWorker(w, inventory, lag)
          \/ \E drain \in BOOLEAN : SetWorkerDrain(w, drain)
    BY DEF WorkerNext
  <1>2. UNCHANGED <<row, fence, pass, nextLease, issued, done>>
    BY <1>1 DEF RegisterWorker, HeartbeatWorker, SetWorkerDrain
  <1>3. /\ workers' \in [Workers -> Worker]
        /\ \A v \in Workers :
             workers[v].status = "online" => workers'[v].status = "online"
    <2>0. workers \in [Workers -> Worker]
      BY DEF IInv, Types, TablesOK
    <2>1. ASSUME NEW inventory \in Inventories, NEW lag \in Lags,
                 RegisterWorker(w, inventory, lag) \/ HeartbeatWorker(w, inventory, lag)
          PROVE  <1>3!1 /\ <1>3!2
      <3>1. [status |-> "online", drain |-> workers[w].drain,
             age |-> lag, gpus |-> inventory] \in Worker
        BY <2>0, ConstantsAssumption DEF Worker, Lags
      <3> QED
        BY <2>0, <2>1, <3>1 DEF RegisterWorker, HeartbeatWorker, Reported
    <2>2. ASSUME NEW drain \in BOOLEAN, SetWorkerDrain(w, drain)
          PROVE  <1>3!1 /\ <1>3!2
      <3>1. [workers[w] EXCEPT !.drain = drain] \in Worker
        BY <2>0 DEF Worker
      <3> QED
        BY <2>0, <2>2, <3>1 DEF SetWorkerDrain, Worker
    <2> QED
      BY <1>1, <2>1, <2>2
  <1>4. Seen' = Seen
    BY <1>2 DEF Seen, View
  <1>5. Types'
    BY <1>2, <1>3 DEF IInv, Types, TablesOK
  <1>6. RowsOK(row, fence, workers)' /\ RowsOK(Seen, fence, workers)'
    <2>1. \A x \in Work : Keeps(row[x], row'[x]) /\ Keeps(Seen[x], Seen'[x])
      BY <1>2, <1>4 DEF Keeps
    <2> QED
      BY <1>2, <1>3, <2>1, RowsOKKeeps DEF IInv
  <1>7. PassOK'
    <2>1. pass.free \subseteq Workers \X Gpus
      BY DEF IInv, Types, TablesOK, Passes
    <2> QED
      BY <1>2, <1>3, <1>4, <2>1 DEF IInv, PassOK
  <1>8. LeasesOK'
    BY <1>2 DEF IInv, LeasesOK
  <1> QED
    BY <1>5, <1>6, <1>7, <1>8 DEF IInv

(* A reservation fences the GPU of its own lease, and no other work is on it. *)
LEMMA ReserveInv ==
    ASSUME IInv, NEW t \in issued, NEW lag \in Lags, ReserveExecutionAttempt(t, lag)
    PROVE  IInv'
  <1> DEFINE x == t.work
             w == t.worker
             g == row[x].gpu
  <1>1. /\ x \in Work /\ w \in Workers /\ t.lease \in Nat
        /\ row \in [Work -> Row] /\ fence \in [Workers -> [Gpus -> Nat]]
    BY DEF IInv, Types, TablesOK, Token
  <1>2. /\ pass.pc = "idle"
        /\ Held(row[x]) /\ row[x].worker = w /\ row[x].lease = t.lease
        /\ \A y \in Work \ {x} :
                ~(Held(row[y]) /\ row[y].worker = w /\ row[y].gpu = g)
        /\ fence' = [fence EXCEPT ![w][g] = t.lease]
        /\ UNCHANGED <<row, workers, pass, nextLease, issued, done>>
    BY DEF ReserveExecutionAttempt, OwnsLease, Held
  <1>3. g \in Gpus
    BY <1>1, <1>2 DEF IInv, RowsOK
  <1>4. fence' \in [Workers -> [Gpus -> Nat]]
    BY <1>1, <1>2, <1>3
  <1>5. Types'
    BY <1>2, <1>4 DEF IInv, Types, TablesOK
  <1>6. RowsOK(row, fence, workers)'
    <2>1. ASSUME NEW y \in Work, Held(row[y])
          PROVE  fence'[row[y].worker][row[y].gpu] \in {0, row[y].lease}
      <3>1. row[y].worker \in Workers /\ row[y].gpu \in Gpus
            /\ fence[row[y].worker][row[y].gpu] \in {0, row[y].lease}
        BY <2>1 DEF IInv, RowsOK
      <3>2. CASE y = x
        BY <1>1, <1>2, <1>3, <3>2
      <3>3. CASE y # x
        BY <1>1, <1>2, <1>3, <2>1, <3>1, <3>3
      <3> QED
        BY <3>2, <3>3
    <2> QED
      BY <1>2, <2>1 DEF IInv, RowsOK
  <1>7. Seen = row /\ Seen' = row
    <2>1. DOMAIN pass.writes = {}
      BY <1>2 DEF IInv, PassOK
    <2> QED
      BY <1>1, <1>2, <2>1 DEF Seen, View
  <1>8. RowsOK(Seen, fence, workers)'
    BY <1>2, <1>6, <1>7
  <1>9. PassOK' /\ LeasesOK'
    BY <1>2, <1>7 DEF IInv, PassOK, LeasesOK, Recovered
  <1> QED
    BY <1>5, <1>6, <1>8, <1>9 DEF IInv

(* The statements that only read, or that begin or end a pass *)

LEMMA IdleInv ==
    ASSUME IInv, pass' = IdlePass, UNCHANGED <<row, workers, fence, nextLease, issued, done>>
    PROVE  IInv'
  <1>1. NoWrites \in Writes /\ DOMAIN NoWrites = {}
    BY NoWritesType
  <1>2. IdlePass \in Passes /\ IdlePass.pc = "idle" /\ DOMAIN IdlePass.writes = {}
    BY <1>1, ConstantsAssumption DEF IdlePass, Passes
  <1>3. Seen' = row
    BY <1>2 DEF Seen, View, IInv, Types, TablesOK
  <1>4. Types'
    BY <1>2 DEF IInv, Types, TablesOK
  <1>5. PassOK' /\ LeasesOK'
    BY <1>2, <1>3 DEF IInv, PassOK, LeasesOK, Recovered
  <1> QED
    BY <1>3, <1>4, <1>5 DEF IInv

LEMMA BeginPassInv ==
    ASSUME IInv, NEW lag \in Lags, BeginPass(lag)
    PROVE  IInv'
  <1> DEFINE S == {w \in Workers : /\ workers[w].status = "online"
                                   /\ workers[w].age - lag > HeartbeatTimeout}
  <1>1. NoWrites \in Writes /\ DOMAIN NoWrites = {}
    BY NoWritesType
  <1>2. nextLease \in Nat /\ S \subseteq Workers
    BY DEF IInv, Types, TablesOK
  <1>3. pass' = [IdlePass EXCEPT !.pc = "recoverJobs", !.lag = lag,
                                 !.lease = nextLease, !.stale = S]
    BY DEF BeginPass
  <1> HIDE DEF S
  <1>4. /\ pass' \in Passes /\ pass'.pc = "recoverJobs"
        /\ pass'.lease = nextLease /\ DOMAIN pass'.writes = {}
    BY <1>1, <1>2, <1>3 DEF IdlePass, Passes, Lags
  <1>5. UNCHANGED <<row, workers, fence, nextLease, issued, done>>
    BY DEF BeginPass
  <1>6. Seen' = row
    BY <1>4, <1>5 DEF Seen, View, IInv, Types, TablesOK
  <1>7. Types'
    BY <1>4, <1>5 DEF IInv, Types, TablesOK
  <1>8. PassOK' /\ LeasesOK'
    BY <1>2, <1>4, <1>5, <1>6 DEF IInv, PassOK, LeasesOK, Recovered
  <1> QED
    BY <1>5, <1>6, <1>7, <1>8 DEF IInv

(* A recovered row has lost its lease. *)
LEMMA RecoveredType ==
    ASSUME Types
    PROVE  /\ \A j \in Jobs : RecoveredJob(j) \in Row /\ ~Held(RecoveredJob(j))
           /\ \A z \in Sessions : RecoveredSession(z) \in Row /\ ~Held(RecoveredSession(z))
  <1> USE DEF Held, HeldStatus, JobHeld, SessionHeld
  <1>0. \A x \in Work : row[x] \in Row /\ row[x].count \in Nat
    BY DEF Types, TablesOK, Row
  <1>1. ASSUME NEW j \in Jobs PROVE RecoveredJob(j) \in Row /\ ~Held(RecoveredJob(j))
    <2>1. {"failed", "queued"} \subseteq Status
      BY DEF Status, FinalStatus, PendingStatus
    <2> QED
      BY <1>0, <2>1, ReleasedType DEF RecoveredJob, Work
  <1>2. ASSUME NEW z \in Sessions
        PROVE  RecoveredSession(z) \in Row /\ ~Held(RecoveredSession(z))
    <2> DEFINE n == row[z].count + 1
               st == IF n <= MaxInterruptions[z] THEN "requested" ELSE "interrupted"
               r == Released(row[z], st)
    <2>1. st \in {"requested", "interrupted"} /\ n \in Nat
      BY <1>0 DEF Work
    <2>2. st \in Status
      BY <2>1 DEF Status, FinalStatus, PendingStatus
    <2>3. RecoveredSession(z) = [r EXCEPT !.count = n]
      BY DEF RecoveredSession
    <2> HIDE DEF n, st
    <2>4. r \in Row /\ r.status = st
      BY <1>0, <2>2, ReleasedType DEF Work
    <2> HIDE DEF r
    <2>5. [r EXCEPT !.count = n] \in Row /\ [r EXCEPT !.count = n].status = st
      BY <2>1, <2>4 DEF Row
    <2> QED
      BY <2>1, <2>3, <2>5
  <1> QED
    BY <1>1, <1>2

(* A statement of the pass that gives up leases: the rows it writes were  *)
(* held, and what it writes is not.                                       *)
LEMMA RecoveryInv ==
    ASSUME IInv, pass.pc # "idle",
           NEW K \in SUBSET Work, NEW f,
           \A x \in K : row[x].status \in HeldStatus /\ f[x] \in Row /\ ~Held(f[x]),
           pass'.writes = [x \in DOMAIN pass.writes \cup K |->
                              IF x \in K THEN f[x] ELSE pass.writes[x]],
           pass' \in [pc : {"recoverSessions", "listWorkers"}, lag : 0 .. MaxLag,
                      stale : SUBSET Workers, writes : {pass'.writes},
                      free : SUBSET (Workers \X Gpus), occupied : SUBSET Gpus,
                      pending : SUBSET Work, lease : {pass.lease}],
           UNCHANGED <<row, workers, fence, nextLease, issued, done>>
    PROVE  /\ Types' /\ LeasesOK'
           /\ RowsOK(row, fence, workers)' /\ RowsOK(Seen, fence, workers)'
           /\ \A x \in Work : Keeps(Seen[x], Seen'[x]) /\ ~(x \in K /\ Held(Seen'[x]))
           /\ \A x \in DOMAIN pass'.writes :
                row'[x].status \notin FinalStatus \cup {"absent"}
           /\ \A x \in Work \ K : Seen'[x] = Seen[x]
  <1>1. /\ DOMAIN pass.writes \in SUBSET Work
        /\ pass.writes \in [DOMAIN pass.writes -> Row]
    BY WritesElim DEF IInv, Types, TablesOK, Passes
  <1>2. pass'.writes \in [DOMAIN pass.writes \cup K -> Row]
    BY <1>1
  <1>3. pass'.writes \in Writes
    BY <1>1, <1>2, WritesIntro
  <1>4. pass' \in Passes
    BY <1>3 DEF IInv, Types, TablesOK, Passes
  <1>5. Types'
    BY <1>4 DEF IInv, Types, TablesOK
  <1>6. \A x \in Work : Seen'[x] = IF x \in K THEN f[x] ELSE Seen[x]
    BY <1>1 DEF Seen, View
  <1>7. \A x \in Work : Keeps(Seen[x], Seen'[x]) /\ ~(x \in K /\ Held(Seen'[x]))
    BY <1>6 DEF Keeps
  <1>8. RowsOK(row, fence, workers)' /\ RowsOK(Seen, fence, workers)'
    <2>1. RowsOK(Seen', fence, workers)
      BY <1>7, RowsOKKeeps DEF IInv
    <2> QED
      BY <2>1 DEF IInv
  <1>9. \A x \in DOMAIN pass'.writes :
            row'[x].status \notin FinalStatus \cup {"absent"}
    BY <1>2 DEF IInv, PassOK, HeldStatus, JobHeld, SessionHeld, FinalStatus
  <1>10. LeasesOK'
    <2>1. pass'.lease = pass.lease
      OBVIOUS
    <2>2. \A x \in DOMAIN pass'.writes : Held(pass'.writes[x]) =>
             x \in DOMAIN pass.writes /\ pass'.writes[x] = pass.writes[x]
      BY <1>2
    <2> QED
      BY <2>1, <2>2 DEF IInv, LeasesOK
  <1> QED
    BY <1>5, <1>6, <1>7, <1>8, <1>9, <1>10

(* The shape of a pass after a change of some of its fields. *)
LEMMA PassFields ==
    ASSUME NEW q \in Passes, NEW pc, NEW ws
    PROVE  LET r == [q EXCEPT !.pc = pc, !.writes = ws]
           IN  /\ r \in [pc : {pc}, lag : 0 .. MaxLag,
                         stale : SUBSET Workers, writes : {ws},
                         free : SUBSET (Workers \X Gpus), occupied : SUBSET Gpus,
                         pending : SUBSET Work, lease : {q.lease}]
               /\ r.stale = q.stale
  BY DEF Passes

LEMMA RecoverExpiredJobsInv ==
    ASSUME IInv, RecoverExpiredJobs
    PROVE  IInv'
  <1> DEFINE K == {k \in Jobs : Interrupted(k, JobHeld)}
             f == [j \in Jobs |-> RecoveredJob(j)]
             ws == [j \in K |-> RecoveredJob(j)]
  <1>1. /\ pass.pc = "recoverJobs" /\ DOMAIN pass.writes = {} /\ pass \in Passes
        /\ UNCHANGED <<row, workers, fence, nextLease, issued, done>>
    BY DEF RecoverExpiredJobs, IInv, PassOK, Types, TablesOK
  <1>2. pass' = [pass EXCEPT !.pc = "recoverSessions", !.writes = ws]
    BY DEF RecoverExpiredJobs
  <1>3. \A x \in K : row[x].status \in JobHeld /\ f[x] \in Row /\ ~Held(f[x])
    BY RecoveredType DEF Interrupted, IInv
  <1>4. ws = [x \in DOMAIN pass.writes \cup K |->
                IF x \in K THEN f[x] ELSE pass.writes[x]]
    BY <1>1
  <1>5. K \in SUBSET Work /\ K \subseteq Jobs /\ DOMAIN ws = K
    BY DEF Work
  <1>6. \A x \in Jobs : row[x].status \in JobHeld /\ row[x].worker \in pass.stale => x \in K
    BY DEF Interrupted
  <1> HIDE DEF K, f, ws
  <1>7. /\ pass' \in [pc : {"recoverSessions"}, lag : 0 .. MaxLag,
                      stale : SUBSET Workers, writes : {ws},
                      free : SUBSET (Workers \X Gpus), occupied : SUBSET Gpus,
                      pending : SUBSET Work, lease : {pass.lease}]
        /\ pass'.stale = pass.stale
    BY <1>1, <1>2, PassFields
  <1>8. /\ pass'.writes = ws /\ pass'.pc = "recoverSessions"
        /\ pass' \in [pc : {"recoverSessions", "listWorkers"}, lag : 0 .. MaxLag,
                      stale : SUBSET Workers, writes : {pass'.writes},
                      free : SUBSET (Workers \X Gpus), occupied : SUBSET Gpus,
                      pending : SUBSET Work, lease : {pass.lease}]
    BY <1>7
  <1>9. /\ Types' /\ LeasesOK'
        /\ RowsOK(row, fence, workers)' /\ RowsOK(Seen, fence, workers)'
        /\ \A x \in Work : Keeps(Seen[x], Seen'[x]) /\ ~(x \in K /\ Held(Seen'[x]))
        /\ \A x \in DOMAIN pass'.writes :
             row'[x].status \notin FinalStatus \cup {"absent"}
        /\ \A x \in Work \ K : Seen'[x] = Seen[x]
    <2>1. \A x \in K : row[x].status \in HeldStatus /\ f[x] \in Row /\ ~Held(f[x])
      BY <1>3 DEF HeldStatus
    <2>2. pass'.writes = [x \in DOMAIN pass.writes \cup K |->
                              IF x \in K THEN f[x] ELSE pass.writes[x]]
      BY <1>4, <1>8
    <2>3. /\ pass.pc # "idle"
          /\ UNCHANGED <<row, workers, fence, nextLease, issued, done>>
      BY <1>1
    <2>4. /\ K \in SUBSET Work
          /\ pass' \in [pc : {"recoverSessions", "listWorkers"}, lag : 0 .. MaxLag,
                        stale : SUBSET Workers, writes : {pass'.writes},
                        free : SUBSET (Workers \X Gpus), occupied : SUBSET Gpus,
                        pending : SUBSET Work, lease : {pass.lease}]
      BY <1>5, <1>8
    <2> QED
      BY <2>1, <2>2, <2>3, <2>4, RecoveryInv
  <1>10. PassOK'
    <2>1. ASSUME NEW x \in Jobs, Held(Seen'[x])
          PROVE  Seen'[x].worker \notin pass.stale
      <3>1. x \in Work /\ x \notin K /\ Seen'[x] = Seen[x] /\ Seen[x] = row[x]
        BY <1>1, <1>9, <2>1 DEF Seen, View, Work
      <3>2. row[x].status \in JobHeld
        BY <2>1, <3>1 DEF IInv, RowsOK
      <3> QED
        BY <1>6, <3>1, <3>2
    <2> QED
      BY <1>5, <1>7, <1>8, <1>9, <2>1 DEF PassOK, Recovered
  <1> QED
    BY <1>9, <1>10 DEF IInv

LEMMA RecoverInterruptedSessionsInv ==
    ASSUME IInv, RecoverInterruptedSessions
    PROVE  IInv'
  <1> DEFINE K == {z \in Sessions : Interrupted(z, SessionHeld)}
             f == [z \in Sessions |-> RecoveredSession(z)]
             ws == [x \in DOMAIN pass.writes \cup K |->
                        IF x \in Jobs THEN View(x) ELSE RecoveredSession(x)]
  <1>1. /\ pass.pc = "recoverSessions" /\ DOMAIN pass.writes \subseteq Jobs
        /\ pass \in Passes
        /\ UNCHANGED <<row, workers, fence, nextLease, issued, done>>
    BY DEF RecoverInterruptedSessions, IInv, PassOK, Types, TablesOK
  <1>2. pass' = [pass EXCEPT !.pc = "listWorkers", !.writes = ws]
    BY DEF RecoverInterruptedSessions
  <1>3. \A x \in K : row[x].status \in SessionHeld /\ f[x] \in Row /\ ~Held(f[x])
    BY RecoveredType DEF Interrupted, IInv
  <1>4. ws = [x \in DOMAIN pass.writes \cup K |->
                IF x \in K THEN f[x] ELSE pass.writes[x]]
    BY <1>1, ConstantsAssumption DEF View
  <1>5. K \in SUBSET Work /\ K \subseteq Sessions
    BY DEF Work
  <1>6. \A x \in Sessions :
            row[x].status \in SessionHeld /\ row[x].worker \in pass.stale => x \in K
    BY DEF Interrupted
  <1> HIDE DEF K, f, ws
  <1>7. /\ pass' \in [pc : {"listWorkers"}, lag : 0 .. MaxLag,
                      stale : SUBSET Workers, writes : {ws},
                      free : SUBSET (Workers \X Gpus), occupied : SUBSET Gpus,
                      pending : SUBSET Work, lease : {pass.lease}]
        /\ pass'.stale = pass.stale
    BY <1>1, <1>2, PassFields
  <1>8. /\ pass'.writes = ws /\ pass'.pc = "listWorkers"
        /\ pass' \in [pc : {"recoverSessions", "listWorkers"}, lag : 0 .. MaxLag,
                      stale : SUBSET Workers, writes : {pass'.writes},
                      free : SUBSET (Workers \X Gpus), occupied : SUBSET Gpus,
                      pending : SUBSET Work, lease : {pass.lease}]
    BY <1>7
  <1>9. /\ Types' /\ LeasesOK'
        /\ RowsOK(row, fence, workers)' /\ RowsOK(Seen, fence, workers)'
        /\ \A x \in Work : Keeps(Seen[x], Seen'[x]) /\ ~(x \in K /\ Held(Seen'[x]))
        /\ \A x \in DOMAIN pass'.writes :
             row'[x].status \notin FinalStatus \cup {"absent"}
        /\ \A x \in Work \ K : Seen'[x] = Seen[x]
    <2>1. \A x \in K : row[x].status \in HeldStatus /\ f[x] \in Row /\ ~Held(f[x])
      BY <1>3 DEF HeldStatus
    <2>2. pass'.writes = [x \in DOMAIN pass.writes \cup K |->
                              IF x \in K THEN f[x] ELSE pass.writes[x]]
      BY <1>4, <1>8
    <2>3. /\ pass.pc # "idle"
          /\ UNCHANGED <<row, workers, fence, nextLease, issued, done>>
      BY <1>1
    <2>4. /\ K \in SUBSET Work
          /\ pass' \in [pc : {"recoverSessions", "listWorkers"}, lag : 0 .. MaxLag,
                        stale : SUBSET Workers, writes : {pass'.writes},
                        free : SUBSET (Workers \X Gpus), occupied : SUBSET Gpus,
                        pending : SUBSET Work, lease : {pass.lease}]
      BY <1>5, <1>8
    <2> QED
      BY <2>1, <2>2, <2>3, <2>4, RecoveryInv
  <1>10. PassOK'
    <2>1. ASSUME NEW x \in Work, Held(Seen'[x])
          PROVE  Seen'[x].worker \notin pass.stale
      <3>1. x \notin K /\ Seen'[x] = Seen[x] /\ Held(Seen[x])
        BY <1>9, <2>1
      <3>2. CASE x \in Jobs
        BY <1>1, <3>1, <3>2 DEF IInv, PassOK
      <3>3. CASE x \in Sessions
        <4>1. Seen[x] = row[x]
          BY <1>1, <3>3, ConstantsAssumption DEF Seen, View
        <4>2. row[x].status \in SessionHeld
          BY <3>1, <3>3, <4>1, ConstantsAssumption DEF IInv, RowsOK, Held, HeldStatus
        <4> QED
          BY <1>6, <3>1, <3>3, <4>1, <4>2
      <3> QED
        BY <3>2, <3>3 DEF Work
    <2> QED
      BY <1>7, <1>8, <1>9, <2>1 DEF PassOK
  <1> QED
    BY <1>9, <1>10 DEF IInv

(* A step of the pass that writes no row and takes no lease id. *)
LEMMA ReadStep ==
    ASSUME IInv, pass' \in Passes, pass.pc # "idle",
           pass'.writes = pass.writes, pass'.lease = pass.lease,
           pass'.stale = pass.stale,
           UNCHANGED <<row, workers, fence, nextLease, issued, done>>
    PROVE  /\ Types' /\ LeasesOK' /\ Seen' = Seen
           /\ RowsOK(row, fence, workers)' /\ RowsOK(Seen, fence, workers)'
  <1>1. Seen' = Seen
    BY DEF Seen, View
  <1> QED
    BY <1>1 DEF IInv, Types, TablesOK, LeasesOK

LEMMA ListWorkersInv ==
    ASSUME IInv, ListWorkers
    PROVE  IInv'
  <1> DEFINE F == {p \in Workers \X Gpus :
                    LET w == workers[p[1]]
                    IN  /\ w.status = "online" /\ p[1] \notin pass.stale
                        /\ ~w.drain
                        /\ w.age - pass.lag <= HeartbeatTimeout
                        /\ p[2] \in w.gpus
                        /\ fence[p[1]][p[2]] = 0}
  <1>1. /\ pass.pc = "listWorkers" /\ pass \in Passes
        /\ pass' = [pass EXCEPT !.pc = "listOccupied", !.free = F]
        /\ UNCHANGED <<row, workers, fence, nextLease, issued, done>>
    BY DEF ListWorkers, IInv, Types, TablesOK
  <1>2. /\ F \subseteq Workers \X Gpus
        /\ \A p \in F : /\ fence[p[1]][p[2]] = 0
                        /\ p[1] \notin pass.stale
                        /\ workers[p[1]].status = "online"
    OBVIOUS
  <1> HIDE DEF F
  <1>3. /\ pass' \in Passes /\ pass'.writes = pass.writes /\ pass'.lease = pass.lease
        /\ pass'.stale = pass.stale /\ pass'.pc = "listOccupied" /\ pass'.free = F
    BY <1>1, <1>2 DEF Passes
  <1>4. /\ Types' /\ LeasesOK' /\ Seen' = Seen
        /\ RowsOK(row, fence, workers)' /\ RowsOK(Seen, fence, workers)'
    BY <1>1, <1>3, ReadStep
  <1>5. PassOK'
    BY <1>1, <1>2, <1>3, <1>4 DEF IInv, PassOK, Recovered
  <1> QED
    BY <1>4, <1>5 DEF IInv

LEMMA ListOccupiedInv ==
    ASSUME IInv, ListOccupied
    PROVE  IInv'
  <1> DEFINE O == {View(x).gpu : x \in {y \in Work : Held(View(y))}}
  <1>1. /\ pass.pc = "listOccupied" /\ pass \in Passes
        /\ pass' = [pass EXCEPT !.pc = "listPending", !.occupied = O]
        /\ UNCHANGED <<row, workers, fence, nextLease, issued, done>>
    BY DEF ListOccupied, IInv, Types, TablesOK
  <1>2. \A x \in Work : Held(Seen[x]) => Seen[x].gpu \in O
    BY DEF Seen
  <1>3. O \subseteq Gpus
    BY DEF IInv, RowsOK, Seen
  <1> HIDE DEF O
  <1>4. /\ pass' \in Passes /\ pass'.writes = pass.writes /\ pass'.lease = pass.lease
        /\ pass'.stale = pass.stale /\ pass'.pc = "listPending"
        /\ pass'.free = pass.free /\ pass'.occupied = O
    BY <1>1, <1>3 DEF Passes
  <1>5. /\ Types' /\ LeasesOK' /\ Seen' = Seen
        /\ RowsOK(row, fence, workers)' /\ RowsOK(Seen, fence, workers)'
    BY <1>1, <1>4, ReadStep
  <1>6. PassOK'
    BY <1>1, <1>2, <1>4, <1>5 DEF IInv, PassOK, Recovered
  <1> QED
    BY <1>5, <1>6 DEF IInv

(* The steps that only change the list of pending work. *)
LEMMA PendingStepInv ==
    ASSUME IInv,
           \/ ListPending
           \/ \E x \in Work : SkipUnplaceable(x) \/ AssignMissed(x)
    PROVE  IInv'
  <1>1. PICK P \in SUBSET Work :
          /\ pass.pc \in {"listPending", "assign"} /\ pass \in Passes
          /\ \/ pass' = [pass EXCEPT !.pc = "assign", !.pending = P]
             \/ pass.pc = "assign" /\ pass' = [pass EXCEPT !.pending = P]
          /\ UNCHANGED <<row, workers, fence, nextLease, issued, done>>
    <2>0. pass \in Passes /\ pass.pending \subseteq Work
      BY DEF IInv, Types, TablesOK, Passes
    <2>1. CASE ListPending
      BY <2>0, <2>1 DEF ListPending
    <2>2. CASE \E x \in Work : SkipUnplaceable(x) \/ AssignMissed(x)
      BY <2>0, <2>2 DEF SkipUnplaceable, AssignMissed, IsNext
    <2> QED
      BY <2>1, <2>2
  <1>2. /\ pass' \in Passes /\ pass'.writes = pass.writes /\ pass'.lease = pass.lease
        /\ pass'.stale = pass.stale /\ pass'.pc = "assign"
        /\ pass'.free = pass.free /\ pass'.occupied = pass.occupied
    BY <1>1 DEF Passes
  <1>3. /\ Types' /\ LeasesOK' /\ Seen' = Seen
        /\ RowsOK(row, fence, workers)' /\ RowsOK(Seen, fence, workers)'
    BY <1>1, <1>2, ReadStep
  <1>4. PassOK'
    BY <1>1, <1>2, <1>3 DEF IInv, PassOK, Recovered
  <1> QED
    BY <1>3, <1>4 DEF IInv

(* An assignment takes a GPU that no row the pass sees holds and no fence *)
(* blocks, on a worker that stays online when the pass commits.           *)
LEMMA AssignInv ==
    ASSUME IInv, NEW x \in Work, NEW p \in Workers \X Gpus, Assign(x, p)
    PROVE  IInv'
  <1> DEFINE new == Leased(View(x), x, p)
             ws == [y \in DOMAIN pass.writes \cup {x} |->
                        IF y = x THEN new ELSE View(y)]
             P == pass.pending \ {x}
             O == pass.occupied \cup {p[2]}
             n == pass.lease + 1
  <1>1. /\ pass.pc = "assign" /\ pass \in Passes
        /\ p \in pass.free /\ p[2] \notin pass.occupied
        /\ Pending(View(x))
        /\ UNCHANGED <<row, workers, fence, nextLease, issued, done>>
    BY DEF Assign, IsNext, Candidates, IInv, Types, TablesOK
  <1>2. pass' = [pass EXCEPT !.pending = P, !.occupied = O, !.lease = n,
                             !.writes = ws]
    BY DEF Assign
  <1>3. p[1] \in Workers /\ p[2] \in Gpus
    OBVIOUS
  <1>4. /\ DOMAIN pass.writes \in SUBSET Work
        /\ pass.writes \in [DOMAIN pass.writes -> Row]
    BY <1>1, WritesElim DEF Passes
  <1>5. Seen \in [Work -> Row] /\ Seen[x] = View(x)
    BY SeenType DEF IInv, Seen
  <1>6. /\ new \in Row /\ Held(new)
        /\ new.status \in JobHeld <=> x \in Jobs
        /\ new.worker = p[1] /\ new.gpu = p[2] /\ new.lease = pass.lease
    <2>1. pass.lag \in Int /\ pass.lease \in Nat /\ View(x).count \in Nat
      BY <1>1, <1>5, ConstantsAssumption DEF Passes, Row
    <2>2. LeaseTtl - pass.lag \in Int /\ View(x).count + 1 \in Nat
      BY <2>1, ConstantsAssumption
    <2>3. {"leased", "allocated"} \subseteq Status
      BY DEF Status, HeldStatus, JobHeld, SessionHeld
    <2>4. new.status = IF x \in Jobs THEN "leased" ELSE "allocated"
      BY DEF Leased
    <2> QED
      BY <1>3, <2>1, <2>2, <2>3, <2>4
      DEF Leased, Row, Held, HeldStatus, JobHeld, SessionHeld
  <1> HIDE DEF new
  <1>7. ws \in [DOMAIN pass.writes \cup {x} -> Row]
    BY <1>4, <1>6 DEF View
  <1>8. ws \in Writes
    <2>1. DOMAIN pass.writes \cup {x} \in SUBSET Work
      BY <1>4
    <2> QED
      BY <1>7, <2>1, WritesIntro
  <1>9. ws[x] = new /\ \A y \in DOMAIN pass.writes : y # x => ws[y] = pass.writes[y]
    BY DEF View
  <1>10. n \in Nat /\ P \subseteq Work /\ O \subseteq Gpus
    BY <1>1, <1>3 DEF Passes
  <1> HIDE DEF ws, P, O, n
  <1>11. /\ pass' \in Passes /\ pass'.writes = ws /\ pass'.lease = n
         /\ pass'.stale = pass.stale /\ pass'.pc = "assign"
         /\ pass'.free = pass.free /\ pass'.occupied = O
    BY <1>1, <1>2, <1>8, <1>10 DEF Passes
  <1>12. \A y \in Work : Seen'[y] = IF y = x THEN new ELSE Seen[y]
    <2>1. DOMAIN ws = DOMAIN pass.writes \cup {x}
      BY <1>7
    <2> QED
      BY <1>1, <1>9, <1>11, <2>1 DEF Seen, View
  <1>13. /\ fence[p[1]][p[2]] = 0 /\ p[1] \notin pass.stale
         /\ workers[p[1]].status = "online"
         /\ \A y \in Work : Held(Seen[y]) => /\ Seen[y].gpu \in pass.occupied
                                             /\ Seen[y].worker \notin pass.stale
    BY <1>1 DEF IInv, PassOK, Recovered
  <1>14. Types'
    BY <1>1, <1>11 DEF IInv, Types, TablesOK
  <1>15. RowsOK(row, fence, workers)'
    BY <1>1 DEF IInv
  <1>16. RowsOK(Seen, fence, workers)'
    <2>1. RowsOK(Seen, fence, workers)
      BY DEF IInv
    <2>2. \A y \in Work : y # x /\ Held(Seen'[y]) => Seen'[y].gpu # p[2]
      BY <1>1, <1>12, <1>13
    <2> QED
      BY <1>1, <1>3, <1>6, <1>12, <1>13, <2>1, <2>2 DEF RowsOK
  <1>17. PassOK'
    <2>1. row[x].status \notin FinalStatus \cup {"absent"}
      <3>1. CASE x \in DOMAIN pass.writes
        BY <3>1 DEF IInv, PassOK
      <3>2. CASE x \notin DOMAIN pass.writes
        BY <1>1, <3>2 DEF View, Pending, PendingStatus, FinalStatus
      <3> QED
        BY <3>1, <3>2
    <2>2. \A y \in DOMAIN ws : row[y].status \notin FinalStatus \cup {"absent"}
      BY <1>7, <2>1 DEF IInv, PassOK
    <2>3. \A y \in Work : Held(Seen'[y]) => /\ Seen'[y].worker \notin pass.stale
                                            /\ Seen'[y].gpu \in O
      BY <1>6, <1>12, <1>13 DEF O
    <2>4. \A q \in pass.free : /\ fence[q[1]][q[2]] = 0
                               /\ q[1] \notin pass.stale
                               /\ workers[q[1]].status = "online"
      BY <1>1 DEF IInv, PassOK
    <2> QED
      BY <1>1, <1>11, <2>2, <2>3, <2>4 DEF PassOK
  <1>18. LeasesOK'
    <2>1. nextLease \in Nat /\ pass.lease \in Nat /\ nextLease <= pass.lease
      BY <1>1 DEF IInv, Types, TablesOK, Passes, LeasesOK
    <2>2. \A y \in DOMAIN pass.writes : Held(pass.writes[y]) =>
              /\ nextLease <= pass.writes[y].lease
              /\ pass.writes[y].lease < pass.lease
              /\ pass.writes[y].lease \in Nat
      BY <1>4 DEF IInv, LeasesOK, Row
    <2>3. \A y \in DOMAIN ws : Held(ws[y]) =>
              nextLease <= ws[y].lease /\ ws[y].lease < n
      BY <1>6, <1>7, <1>9, <2>1, <2>2 DEF n
    <2>4. nextLease <= n
      BY <2>1 DEF n
    <2> QED
      BY <1>1, <1>11, <2>3, <2>4 DEF IInv, LeasesOK
  <1> QED
    BY <1>14, <1>15, <1>16, <1>17, <1>18 DEF IInv

(* What a committed pass leaves: the rows it saw. *)
LEMMA CommitPassInv ==
    ASSUME IInv, CommitPass
    PROVE  IInv'
  <1>1. /\ pass.pc = "assign" /\ pass \in Passes
        /\ row' = Seen /\ pass' = IdlePass /\ nextLease' = pass.lease
        /\ UNCHANGED <<fence, done>>
    BY DEF CommitPass, IInv, Types, TablesOK, Seen
  <1>2. /\ DOMAIN pass.writes \in SUBSET Work
        /\ pass.writes \in [DOMAIN pass.writes -> Row]
    BY <1>1, WritesElim DEF Passes
  <1>3. Seen \in [Work -> Row]
    BY SeenType DEF IInv
  <1>4. NoWrites \in Writes /\ DOMAIN NoWrites = {}
    BY NoWritesType
  <1>5. IdlePass \in Passes /\ IdlePass.pc = "idle" /\ DOMAIN IdlePass.writes = {}
    BY <1>4, ConstantsAssumption DEF IdlePass, Passes
  <1>6. Seen' = Seen
    <2>1. Seen' = [x \in Work |-> row'[x]]
      BY <1>1, <1>5 DEF Seen, View
    <2> QED
      BY <1>1, <1>3, <2>1
  <1>7. /\ workers' \in [Workers -> Worker]
        /\ \A w \in Workers \ pass.stale : workers'[w] = workers[w]
    BY DEF CommitPass, IInv, Types, TablesOK, Worker
  <1>8. \A x \in Work : Held(Seen[x]) => Seen[x].worker \notin pass.stale
    BY <1>1 DEF IInv, PassOK, Recovered
  <1>9. RowsOK(Seen, fence, workers')
    BY <1>7, <1>8 DEF IInv, RowsOK
  <1>10. \A t \in issued' :
            \/ t \in issued
            \/ \E x \in DOMAIN pass.writes :
                 /\ Held(pass.writes[x])
                 /\ t = [work |-> x, worker |-> pass.writes[x].worker,
                         lease |-> pass.writes[x].lease]
    BY DEF CommitPass, View
  <1>11. /\ nextLease \in Nat /\ pass.lease \in Nat
         /\ nextLease <= pass.lease
         /\ \A x \in DOMAIN pass.writes : Held(pass.writes[x]) =>
              /\ nextLease <= pass.writes[x].lease
              /\ pass.writes[x].lease < pass.lease
              /\ pass.writes[x].lease \in Nat
              /\ pass.writes[x].worker \in Workers
    <2>1. \A x \in DOMAIN pass.writes : x \in Work /\ Seen[x] = pass.writes[x]
      BY <1>2 DEF Seen, View
    <2> QED
      BY <1>1, <1>2, <2>1 DEF IInv, Types, TablesOK, Passes, LeasesOK, Row, RowsOK
  <1>12. issued' \subseteq Token
    BY <1>2, <1>10, <1>11 DEF IInv, Types, TablesOK, Token
  <1>13. Types'
    <2>1. pass.lease \in Nat \ {0}
      BY <1>11 DEF IInv, Types, TablesOK
    <2> QED
      BY <1>1, <1>3, <1>5, <1>7, <1>12, <2>1 DEF IInv, Types, TablesOK
  <1>14. PassOK'
    BY <1>1, <1>5, <1>6 DEF PassOK, Recovered
  <1>15. LeasesOK'
    <2>1. \A x \in DOMAIN pass.writes : ~Final(row[x]) /\ x \in Work
      BY <1>2 DEF IInv, PassOK, Final
    <2>2. \A x \in Work : done[x] # 0 => Final(row[x])
      BY DEF IInv, LeasesOK
    <2>3. \A x \in Work : Seen[x] = IF x \in DOMAIN pass.writes
                                    THEN pass.writes[x] ELSE row[x]
      BY DEF Seen, View
    <2>4. \A x \in Work : done[x] # 0 => Final(Seen[x])
      BY <2>1, <2>2, <2>3
    <2>5. ASSUME NEW t \in issued'
          PROVE  /\ t.lease < pass.lease
                 /\ Held(Seen[t.work]) => t.lease <= Seen[t.work].lease
                 /\ done[t.work] # 0 => t.lease <= done[t.work]
      <3>1. CASE t \in issued
        <4>1. /\ t.work \in Work /\ t.lease \in Nat /\ t.lease < nextLease
              /\ Held(row[t.work]) => t.lease <= row[t.work].lease
              /\ done[t.work] # 0 => t.lease <= done[t.work]
          BY <3>1 DEF IInv, Types, TablesOK, Token, LeasesOK
        <4> QED
          BY <1>11, <2>3, <4>1
      <3>2. CASE t \notin issued
        <4>1. PICK x \in DOMAIN pass.writes :
                 /\ Held(pass.writes[x])
                 /\ t = [work |-> x, worker |-> pass.writes[x].worker,
                         lease |-> pass.writes[x].lease]
          BY <1>10, <3>2
        <4>2. t.work = x /\ t.lease = pass.writes[x].lease /\ done[x] = 0
          BY <2>1, <2>2, <4>1
        <4> QED
          BY <1>11, <2>1, <2>3, <4>1, <4>2
      <3> QED
        BY <3>1, <3>2
    <2> QED
      BY <1>1, <1>5, <2>4, <2>5 DEF LeasesOK
  <1> QED
    BY <1>1, <1>6, <1>9, <1>13, <1>14, <1>15 DEF IInv

----------------------------------------------------------------------------
(* The theorems *)

LEMMA InitInv ==
    ASSUME Init
    PROVE  IInv
  <1>1. /\ EmptyRow \in Row /\ EmptyRow.status = "absent"
        /\ \A x \in Work : row[x] = EmptyRow
    BY DEF Init, EmptyRow, Row, Status
  <1>2. NoWrites \in Writes /\ DOMAIN NoWrites = {}
    BY NoWritesType
  <1>3. pass \in Passes /\ pass.pc = "idle" /\ DOMAIN pass.writes = {}
    BY <1>2, ConstantsAssumption DEF Init, IdlePass, Passes
  <1>4. [status |-> "absent", drain |-> FALSE, age |-> 0, gpus |-> {}] \in Worker
    BY DEF Worker
  <1>5. Types
    BY <1>1, <1>3, <1>4 DEF Init, Types, TablesOK
  <1>6. \A x \in Work : ~Held(row[x]) /\ ~Held(Seen[x])
    BY <1>1, <1>3 DEF Seen, View, Held, HeldStatus, JobHeld, SessionHeld
  <1>7. RowsOK(row, fence, workers) /\ RowsOK(Seen, fence, workers)
    BY <1>6 DEF RowsOK
  <1>8. PassOK /\ LeasesOK
    BY <1>3 DEF PassOK, LeasesOK, Recovered, Init
  <1> QED
    BY <1>5, <1>7, <1>8 DEF IInv

LEMMA StepInv ==
    ASSUME IInv, [Next]_vars
    PROVE  IInv'
  <1>1. CASE WorkerNext
    BY <1>1, WorkerStepInv
  <1>2. CASE ClientNext
    BY <1>2, ClientStepIsRowStep, RowStepInv
  <1>3. CASE HolderNext
    BY <1>3, HolderStepIsRowStep, RowStepInv, ReserveInv DEF HolderNext
  <1>4. CASE PassNext
    <2>1. CASE \E lag \in Lags : BeginPass(lag)
      BY <2>1, BeginPassInv
    <2>2. CASE RecoverExpiredJobs
      BY <2>2, RecoverExpiredJobsInv
    <2>3. CASE RecoverInterruptedSessions
      BY <2>3, RecoverInterruptedSessionsInv
    <2>4. CASE ListWorkers
      BY <2>4, ListWorkersInv
    <2>5. CASE ListOccupied
      BY <2>5, ListOccupiedInv
    <2>6. CASE ListPending \/ \E x \in Work : SkipUnplaceable(x) \/ AssignMissed(x)
      BY <2>6, PendingStepInv
    <2>7. CASE \E x \in Work, p \in Workers \X Gpus : Assign(x, p)
      BY <2>7, AssignInv
    <2>8. CASE CommitPass
      BY <2>8, CommitPassInv
    <2> QED
      BY <1>4, <2>1, <2>2, <2>3, <2>4, <2>5, <2>6, <2>7, <2>8 DEF PassNext
  <1>5. CASE AbortPass
    BY <1>5, IdleInv DEF AbortPass
  <1>6. CASE Tick
    BY <1>6, TickInv
  <1>7. CASE UNCHANGED vars
    <2>1. UNCHANGED <<row, workers, fence, pass, nextLease, issued, done>>
      BY <1>7 DEF vars
    <2>2. Seen' = Seen
      BY <2>1 DEF Seen, View
    <2> QED
      BY <2>1, <2>2 DEF IInv, Types, TablesOK, PassOK, LeasesOK
  <1> QED
    BY <1>1, <1>2, <1>3, <1>4, <1>5, <1>6, <1>7 DEF Next, SteadyNext

(* Every reachable state satisfies the inductive invariant of the rows, of *)
(* the open pass and of the lease ids.                                     *)
THEOREM Inductive == Spec => []IInv
  <1>1. Init => IInv
    BY InitInv
  <1>2. IInv /\ [Next]_vars => IInv'
    BY StepInv
  <1> QED
    BY <1>1, <1>2, PTL DEF Spec

(* The tables, the open pass and the histories keep their types. *)
THEOREM TypeCorrect == Spec => []TypeOK
  <1>1. ASSUME IInv PROVE TypeOK
    <2>1. /\ pass \in Passes /\ TablesOK
          /\ DOMAIN pass.writes \in SUBSET Work
          /\ pass.writes \in [DOMAIN pass.writes -> Row]
      BY <1>1, WritesElim DEF IInv, Types, Passes
    <2>2. pass \in Pass(DOMAIN pass.writes)
      BY <2>1 DEF Pass, Passes
    <2> QED
      BY <2>1, <2>2 DEF TypeOK
  <1> QED
    BY <1>1, Inductive, PTL

(* No two committed rows hold the same GPU (scheduler.mjs #runOnce against *)
(* every operation of service.mjs), for any number of workers and GPUs.    *)
THEOREM GpuNeverShared == Spec => []GpuExclusive
  <1>1. IInv => GpuExclusive
    BY DEF IInv, RowsOK, GpuExclusive
  <1> QED
    BY <1>1, Inductive, PTL

(* A fenced (worker, gpu) is never leased again (listBlockedGpuResources   *)
(* and reserveExecutionAttempt exclude each other by the advisory lock).   *)
THEOREM FenceIsRespected == Spec => []FenceBlocksReuse
  <1>1. IInv => FenceBlocksReuse
    BY DEF IInv, RowsOK, FenceBlocksReuse
  <1> QED
    BY <1>1, Inductive, PTL

(* No offline worker holds a lease: markStaleWorkersOffline and the two    *)
(* recovery statements commit together.                                    *)
THEOREM HoldersAreOnline == Spec => []HolderOnline
  <1>1. IInv => HolderOnline
    BY DEF IInv, RowsOK, HolderOnline
  <1> QED
    BY <1>1, Inductive, PTL

(* A superseded lease holder never completes a job (finishJob's WHERE). *)
THEOREM ZombiesAreRefused == Spec => []NoZombieCompletion
  <1>1. IInv => NoZombieCompletion
    BY DEF IInv, Types, TablesOK, Token, LeasesOK, NoZombieCompletion
  <1> QED
    BY <1>1, Inductive, PTL

(* No step takes a row out of a final status. *)
LEMMA FinalStep ==
    ASSUME IInv, [Next]_vars
    PROVE  \A x \in Work : Final(row[x]) => row'[x].status = row[x].status
  <1>0. row \in [Work -> Row]
    BY DEF IInv, Types, TablesOK
  <1>1. ASSUME RowStepNext
        PROVE  \A x \in Work : Final(row[x]) => row'[x].status = row[x].status
    BY <1>0, <1>1 DEF RowStepNext, RowStep
  <1>2. CASE UNCHANGED row
    BY <1>2
  <1>3. CASE ClientNext
    BY <1>1, <1>3, ClientStepIsRowStep
  <1>4. CASE HolderNext
    <2>1. CASE RowStepNext
      BY <1>1, <2>1
    <2>2. CASE UNCHANGED row
      BY <2>2
    <2> QED
      BY <1>4, <2>1, <2>2, HolderStepIsRowStep
      DEF HolderNext, ReserveExecutionAttempt
  <1>5. CASE Tick
    BY <1>0, <1>5, OlderSame DEF Tick
  <1>6. CASE CommitPass
    <2>1. \A x \in DOMAIN pass.writes : ~Final(row[x])
      BY DEF IInv, PassOK, Final
    <2> QED
      BY <1>6, <2>1 DEF CommitPass, View
  <1>7. CASE WorkerNext
    BY <1>2, <1>7 DEF WorkerNext, RegisterWorker, HeartbeatWorker, SetWorkerDrain
  <1>8. CASE PassNext /\ ~CommitPass
    BY <1>2, <1>8 DEF PassNext, BeginPass, RecoverExpiredJobs,
       RecoverInterruptedSessions, ListWorkers, ListOccupied, ListPending,
       SkipUnplaceable, Assign, AssignMissed
  <1>9. CASE AbortPass
    BY <1>2, <1>9 DEF AbortPass
  <1> QED
    BY <1>2, <1>3, <1>4, <1>5, <1>6, <1>7, <1>8, <1>9 DEF Next, SteadyNext, vars

(* A final status is never left, not even by a pass that read the row     *)
(* before it became final.                                                *)
THEOREM FinalStatusIsStable == Spec => FinalIsFinal
  <1>1. ASSUME IInv, [Next]_vars
        PROVE  [\A x \in Work : Final(row[x]) => row'[x].status = row[x].status]_vars
    BY <1>1, FinalStep
  <1> QED
    BY <1>1, Inductive, PTL DEF Spec, FinalIsFinal

----------------------------------------------------------------------------
(* What a commit gives: the leases and attempts of the rows of the pass     *)

(* A lease the pass has written is on a resource it found free, no two of  *)
(* them have the same id, and committed leases have earlier ids.           *)
GrantsOK ==
    /\ \A x \in DOMAIN pass.writes :
        Held(pass.writes[x]) =>
            /\ pass.pc = "assign"
            /\ <<pass.writes[x].worker, pass.writes[x].gpu>> \in pass.free
    /\ \A x, y \in DOMAIN pass.writes :
        /\ Held(pass.writes[x]) /\ Held(pass.writes[y])
        /\ pass.writes[x].lease = pass.writes[y].lease
        => x = y
    /\ \A x \in Work :
        Held(row[x]) => 0 < row[x].lease /\ row[x].lease < nextLease

(* The workers of the free resources were fresh when they were listed, and *)
(* have aged no more than the pass since, or have sent a heartbeat.        *)
FreshOK ==
    pass.pc \in {"listOccupied", "listPending", "assign"} =>
        \A p \in pass.free :
            \/ workers[p[1]].age <= HeartbeatTimeout + pass.lag
            \/ workers[p[1]].age <= MaxLag + pass.lag

(* How often x may be leased, how often it has been, and how many leases a *)
(* row r of x accounts for.                                                *)
Limit(x)    == IF x \in Jobs THEN MaxAttempts[x] ELSE MaxInterruptions[x] + 1
Tokens(x)   == {t \in issued : t.work = x}
Leases(x)   == Cardinality(Tokens(x))
Spent(x, r) == IF x \notin Jobs /\ Held(r) THEN r.count + 1 ELSE r.count

(* Row r of x accounts for k leases, and one more fits while it waits. *)
Room(x, r, k) ==
    ~Final(r) => /\ k <= Spent(x, r)
                 /\ Spent(x, r) <= Limit(x)
                 /\ ~Held(r) => Spent(x, r) < Limit(x)

BudgetOK ==
    /\ \A x \in Work : /\ IsFiniteSet(Tokens(x))
                       /\ Leases(x) <= Limit(x)
                       /\ Room(x, row[x], Leases(x))
    /\ \A x \in DOMAIN pass.writes :
        Room(x, pass.writes[x],
             IF Held(pass.writes[x]) THEN Leases(x) + 1 ELSE Leases(x))

JInv == IInv /\ GrantsOK /\ FreshOK /\ BudgetOK

LEMMA LeasesType ==
    ASSUME BudgetOK, NEW x \in Work
    PROVE  Leases(x) \in Nat
  BY FS_CardinalityType DEF BudgetOK, Leases

LEMMA LimitType ==
    ASSUME NEW x \in Work
    PROVE  Limit(x) \in Nat \ {0}
  BY ConstantsAssumption DEF Limit, Work

(* An update that keeps the count, and gives up a lease only for good. *)
LEMMA RoomKeeps ==
    ASSUME NEW x, NEW r, NEW q, NEW k, Room(x, r, k), ~Final(r),
           q.count = r.count, Held(q) => Held(r),
           ~Held(q) => Final(q) \/ ~Held(r)
    PROVE  Room(x, q, k)
  BY DEF Room, Spent

LEMMA HeldNotFinal ==
    ASSUME NEW r, Held(r)
    PROVE  ~Final(r) /\ ~Pending(r)
  BY DEF Held, Final, Pending, HeldStatus, JobHeld, SessionHeld, FinalStatus,
         PendingStatus

LEMMA RowStepJ ==
    ASSUME JInv, RowStepNext
    PROVE  GrantsOK' /\ FreshOK' /\ BudgetOK'
  <1>1. PICK x \in Work, r \in Row : RowStep(x, r)
    BY DEF RowStepNext
  <1>2. /\ row \in [Work -> Row] /\ row' = [row EXCEPT ![x] = r]
        /\ UNCHANGED <<workers, fence, pass, nextLease, issued>>
    BY <1>1 DEF RowStep, JInv, IInv, Types, TablesOK
  <1>3. /\ \A y \in Work : y # x => row'[y] = row[y]
        /\ row'[x] = r
    BY <1>2
  <1>4. GrantsOK'
    <2>1. \A y \in Work : Held(row'[y]) => Held(row[y]) /\ row'[y].lease = row[y].lease
      BY <1>1, <1>3 DEF RowStep, Keeps
    <2> QED
      BY <1>2, <2>1 DEF JInv, GrantsOK
  <1>5. FreshOK'
    BY <1>2 DEF JInv, FreshOK
  <1>6. BudgetOK'
    <2>1. \A y \in Work : Tokens(y)' = Tokens(y) /\ Leases(y)' = Leases(y)
      BY <1>2 DEF Tokens, Leases
    <2>2. Room(x, row[x], Leases(x))
      BY DEF JInv, BudgetOK
    <2>3. Room(x, r, Leases(x))
      BY <1>1, <2>2, RoomKeeps DEF RowStep, Keeps
    <2>4. \A y \in Work : Room(y, row'[y], Leases(y))
      BY <1>3, <2>3 DEF JInv, BudgetOK
    <2>5. DOMAIN pass.writes \subseteq Work
      BY WritesElim DEF JInv, IInv, Types, Passes
    <2>6. BudgetOK
      BY DEF JInv
    <2> QED
      BY <1>2, <2>1, <2>4, <2>5, <2>6 DEF BudgetOK
  <1> QED
    BY <1>4, <1>5, <1>6

LEMMA TickJ ==
    ASSUME JInv, Tick
    PROVE  GrantsOK' /\ FreshOK' /\ BudgetOK'
  <1>1. /\ row \in [Work -> Row] /\ workers \in [Workers -> Worker]
        /\ pass \in Passes /\ UNCHANGED <<nextLease, issued>>
    BY DEF JInv, IInv, Types, TablesOK, Tick
  <1>2. \A x \in Work : row'[x] = Older(row[x])
    BY DEF Tick
  <1>3. \A x \in Work :
            /\ row'[x].status = row[x].status /\ row'[x].lease = row[x].lease
            /\ row'[x].count = row[x].count
    BY <1>1, <1>2, OlderSame
  <1>4. /\ DOMAIN pass.writes \in SUBSET Work
        /\ pass.writes \in [DOMAIN pass.writes -> Row]
    BY <1>1, WritesElim DEF Passes
  <1>5. /\ pass'.pc = pass.pc /\ pass'.free = pass.free
        /\ pass.pc # "idle" => pass'.lag = pass.lag + 1
        /\ DOMAIN pass'.writes = DOMAIN pass.writes
        /\ \A x \in DOMAIN pass.writes : pass'.writes[x] = Older(pass.writes[x])
    <2>1. CASE pass.pc = "idle"
      BY <2>1 DEF Tick, JInv, IInv, PassOK
    <2>2. CASE pass.pc # "idle"
      <3> DEFINE ws == [x \in DOMAIN pass.writes |-> Older(pass.writes[x])]
                 n == pass.lag + 1
      <3>1. pass' = [pass EXCEPT !.lag = n, !.writes = ws]
        BY <2>2 DEF Tick
      <3>2. /\ DOMAIN ws = DOMAIN pass.writes
            /\ \A x \in DOMAIN pass.writes : ws[x] = Older(pass.writes[x])
        OBVIOUS
      <3> HIDE DEF ws, n
      <3>3. /\ pass'.pc = pass.pc /\ pass'.free = pass.free
            /\ pass'.lag = n /\ pass'.writes = ws
        BY <1>1, <3>1 DEF Passes
      <3> QED
        BY <3>2, <3>3 DEF n
    <2> QED
      BY <2>1, <2>2
  <1>6. \A x \in DOMAIN pass.writes :
            /\ pass'.writes[x].status = pass.writes[x].status
            /\ pass'.writes[x].worker = pass.writes[x].worker
            /\ pass'.writes[x].gpu = pass.writes[x].gpu
            /\ pass'.writes[x].lease = pass.writes[x].lease
            /\ pass'.writes[x].count = pass.writes[x].count
    BY <1>4, <1>5, OlderSame
  <1>7. GrantsOK'
    BY <1>1, <1>3, <1>5, <1>6 DEF JInv, GrantsOK, Held
  <1>8. FreshOK'
    <2>1. \A w \in Workers : /\ workers[w].age \in Nat
                             /\ workers'[w].age \in {workers[w].age, workers[w].age + 1}
      BY <1>1 DEF Tick, Worker
    <2>2. \A p \in pass.free : p[1] \in Workers
      BY <1>1 DEF Passes
    <2>3. pass.lag \in Int
      BY <1>1, ConstantsAssumption DEF Passes
    <2> QED
      BY <1>5, <2>1, <2>2, <2>3, ConstantsAssumption DEF JInv, FreshOK
  <1>9. BudgetOK'
    <2>1. \A y \in Work : Tokens(y)' = Tokens(y) /\ Leases(y)' = Leases(y)
      BY <1>1 DEF Tokens, Leases
    <2> QED
      BY <1>3, <1>4, <1>5, <1>6, <2>1 DEF JInv, BudgetOK, Room, Spent, Held, Final
  <1> QED
    BY <1>7, <1>8, <1>9

(* Registration, heartbeat and drain change the age of one worker at most. *)
LEMMA WorkerStepJ ==
    ASSUME JInv, WorkerNext
    PROVE  GrantsOK' /\ FreshOK' /\ BudgetOK'
  <1>1. PICK w \in Workers :
          \/ \E inventory \in Inventories, lag \in Lags :
                RegisterWorker(w, inventory, lag) \/ HeartbeatWorker(w, inventory, lag)
          \/ \E drain \in BOOLEAN : SetWorkerDrain(w, drain)
    BY DEF WorkerNext
  <1>2. UNCHANGED <<row, fence, pass, nextLease, issued, done>>
    BY <1>1 DEF RegisterWorker, HeartbeatWorker, SetWorkerDrain
  <1>3. \A v \in Workers : workers'[v].age \in Lags \/ workers'[v].age = workers[v].age
    <2>0. workers \in [Workers -> Worker]
      BY DEF JInv, IInv, Types, TablesOK
    <2>1. ASSUME NEW inventory \in Inventories, NEW lag \in Lags,
                 RegisterWorker(w, inventory, lag) \/ HeartbeatWorker(w, inventory, lag)
          PROVE  <1>3
      BY <2>0, <2>1 DEF RegisterWorker, HeartbeatWorker, Reported
    <2>2. ASSUME NEW drain \in BOOLEAN, SetWorkerDrain(w, drain)
          PROVE  <1>3
      BY <2>0, <2>2 DEF SetWorkerDrain, Worker
    <2> QED
      BY <1>1, <2>1, <2>2
  <1>4. FreshOK'
    <2>1. pass.lag \in Nat /\ \A p \in pass.free : p[1] \in Workers
      BY ConstantsAssumption DEF JInv, IInv, Types, Passes
    <2> QED
      BY <1>2, <1>3, <2>1, ConstantsAssumption DEF JInv, FreshOK, Lags
  <1>5. GrantsOK'
    BY <1>2 DEF JInv, GrantsOK
  <1>6. BudgetOK'
    BY <1>2 DEF JInv, BudgetOK, Tokens, Leases, Room, Spent
  <1> QED
    BY <1>4, <1>5, <1>6

(* A step after which the pass has written nothing and read nothing. *)
LEMMA EmptyPassJ ==
    ASSUME JInv, DOMAIN pass'.writes = {}, pass'.pc \in {"idle", "recoverJobs"},
           UNCHANGED <<row, nextLease, issued>>
    PROVE  GrantsOK' /\ FreshOK' /\ BudgetOK'
  <1>1. \A y \in Work : Tokens(y)' = Tokens(y) /\ Leases(y)' = Leases(y)
    BY DEF Tokens, Leases
  <1> QED
    BY <1>1 DEF JInv, GrantsOK, FreshOK, BudgetOK
(* A recovered row still accounts for its leases: a job goes back to the    *)
(* queue below max_attempts, a session with one more interruption.         *)
LEMMA RecoveredRoom ==
    ASSUME JInv
    PROVE  /\ \A j \in Jobs : Held(row[j]) => Room(j, RecoveredJob(j), Leases(j))
           /\ \A z \in Sessions : Held(row[z]) => Room(z, RecoveredSession(z), Leases(z))
  <1>0. \A x \in Work : row[x] \in Row /\ row[x].count \in Nat
    BY DEF JInv, IInv, Types, TablesOK, Row
  <1>00. ASSUME NEW x \in Work, Held(row[x])
         PROVE  /\ Leases(x) \in Nat /\ Leases(x) <= Spent(x, row[x])
                /\ ~Final(row[x])
    BY <1>00, LeasesType, HeldNotFinal DEF JInv, BudgetOK, Room
  <1>1. ASSUME NEW j \in Jobs, Held(row[j]) PROVE Room(j, RecoveredJob(j), Leases(j))
    <2>1. /\ j \in Work /\ Leases(j) \in Nat /\ Leases(j) <= row[j].count
          /\ row[j] \in Row /\ row[j].count \in Nat /\ MaxAttempts[j] \in Nat
      BY <1>0, <1>00, <1>1, ConstantsAssumption DEF Work, Spent
    <2> DEFINE st == IF row[j].count >= MaxAttempts[j] THEN "failed" ELSE "queued"
               r == Released(row[j], st)
    <2>2. st \in Status
      BY DEF Status, FinalStatus, PendingStatus
    <2>3. /\ st = "failed" => row[j].count >= MaxAttempts[j]
          /\ st # "failed" => st = "queued" /\ row[j].count < MaxAttempts[j]
      BY <2>1
    <2>4. RecoveredJob(j) = r
      BY DEF RecoveredJob
    <2> HIDE DEF st
    <2>5. r.status = st /\ r.count = row[j].count
      BY <2>1, <2>2, ReleasedType
    <2> HIDE DEF r
    <2> QED
      BY <2>1, <2>3, <2>4, <2>5 DEF Room, Spent, Limit, Final, FinalStatus
  <1>2. ASSUME NEW z \in Sessions, Held(row[z])
        PROVE  Room(z, RecoveredSession(z), Leases(z))
    <2>0. z \notin Jobs
      BY ConstantsAssumption
    <2>1. /\ z \in Work /\ Leases(z) \in Nat /\ Leases(z) <= row[z].count + 1
          /\ row[z] \in Row /\ row[z].count \in Nat /\ MaxInterruptions[z] \in Nat
      BY <1>0, <1>00, <1>2, <2>0, ConstantsAssumption DEF Work, Spent
    <2> DEFINE n == row[z].count + 1
               st == IF n <= MaxInterruptions[z] THEN "requested" ELSE "interrupted"
               r == Released(row[z], st)
    <2>2. st \in Status
      BY DEF Status, FinalStatus, PendingStatus
    <2>3. /\ st # "requested" => st = "interrupted"
          /\ st = "requested" => n <= MaxInterruptions[z]
      BY <2>1
    <2>4. RecoveredSession(z) = [r EXCEPT !.count = n]
      BY DEF RecoveredSession
    <2>5. n \in Nat /\ Leases(z) <= n
      BY <2>1
    <2> HIDE DEF st, n
    <2>6. r \in Row /\ r.status = st
      BY <2>1, <2>2, ReleasedType
    <2> HIDE DEF r
    <2>7. [r EXCEPT !.count = n].status = st /\ [r EXCEPT !.count = n].count = n
      BY <2>6 DEF Row
    <2>8. ~Held([r EXCEPT !.count = n])
      BY <2>3, <2>7 DEF Held, HeldStatus, JobHeld, SessionHeld
    <2> QED
      BY <2>0, <2>1, <2>3, <2>4, <2>5, <2>7, <2>8 DEF Room, Spent, Limit, Final, FinalStatus
  <1> QED
    BY <1>1, <1>2

(* A statement that writes recovered rows over K. *)
LEMMA RecoveryJ ==
    ASSUME JInv, NEW K \in SUBSET Work,
           DOMAIN pass'.writes = DOMAIN pass.writes \cup K,
           \A x \in DOMAIN pass.writes \ K : pass'.writes[x] = pass.writes[x],
           \A x \in K : /\ ~Held(pass'.writes[x])
                        /\ Room(x, pass'.writes[x], Leases(x)),
           pass.pc # "assign", pass'.pc \in {"recoverSessions", "listWorkers"},
           UNCHANGED <<row, nextLease, issued>>
    PROVE  GrantsOK' /\ FreshOK' /\ BudgetOK'
  <1>1. \A y \in Work : Tokens(y)' = Tokens(y) /\ Leases(y)' = Leases(y)
    BY DEF Tokens, Leases
  <1>2. \A x \in DOMAIN pass'.writes : ~Held(pass'.writes[x])
    BY DEF JInv, GrantsOK
  <1>3. GrantsOK'
    BY <1>2 DEF JInv, GrantsOK
  <1>4. BudgetOK'
    <2>1. DOMAIN pass.writes \subseteq Work
      BY WritesElim DEF JInv, IInv, Types, Passes
    <2>2. \A x \in DOMAIN pass.writes : Room(x, pass.writes[x], Leases(x))
      BY DEF JInv, BudgetOK, GrantsOK
    <2>3. \A x \in DOMAIN pass'.writes : x \in Work /\ Room(x, pass'.writes[x], Leases(x))
      BY <2>1, <2>2
    <2> QED
      BY <1>1, <1>2, <2>3 DEF JInv, BudgetOK
  <1> QED
    BY <1>3, <1>4 DEF FreshOK

LEMMA RecoverExpiredJobsJ ==
    ASSUME JInv, RecoverExpiredJobs
    PROVE  GrantsOK' /\ FreshOK' /\ BudgetOK'
  <1> DEFINE K == {k \in Jobs : Interrupted(k, JobHeld)}
             ws == [j \in K |-> RecoveredJob(j)]
  <1>1. /\ pass.pc = "recoverJobs" /\ DOMAIN pass.writes = {} /\ pass \in Passes
        /\ pass' = [pass EXCEPT !.pc = "recoverSessions", !.writes = ws]
        /\ UNCHANGED <<row, workers, fence, nextLease, issued, done>>
    BY DEF RecoverExpiredJobs, JInv, IInv, PassOK, Types
  <1>2. K \subseteq Jobs /\ K \in SUBSET Work /\ \A x \in K : Held(row[x])
    BY DEF Interrupted, Held, HeldStatus, Work
  <1>3. DOMAIN ws = K /\ \A x \in K : ws[x] = RecoveredJob(x)
    OBVIOUS
  <1> HIDE DEF K, ws
  <1>4. pass'.writes = ws /\ pass'.pc = "recoverSessions"
    BY <1>1 DEF Passes
  <1>5. \A x \in K : /\ ~Held(pass'.writes[x])
                     /\ Room(x, pass'.writes[x], Leases(x))
    BY <1>2, <1>3, <1>4, RecoveredType, RecoveredRoom DEF JInv, IInv
  <1> QED
    BY <1>1, <1>2, <1>3, <1>4, <1>5, RecoveryJ

LEMMA RecoverInterruptedSessionsJ ==
    ASSUME JInv, RecoverInterruptedSessions
    PROVE  GrantsOK' /\ FreshOK' /\ BudgetOK'
  <1> DEFINE K == {z \in Sessions : Interrupted(z, SessionHeld)}
             ws == [x \in DOMAIN pass.writes \cup K |->
                        IF x \in Jobs THEN View(x) ELSE RecoveredSession(x)]
  <1>1. /\ pass.pc = "recoverSessions" /\ DOMAIN pass.writes \subseteq Jobs
        /\ pass \in Passes
        /\ pass' = [pass EXCEPT !.pc = "listWorkers", !.writes = ws]
        /\ UNCHANGED <<row, workers, fence, nextLease, issued, done>>
    BY DEF RecoverInterruptedSessions, JInv, IInv, PassOK, Types
  <1>2. K \subseteq Sessions /\ K \in SUBSET Work /\ \A x \in K : Held(row[x])
    BY DEF Interrupted, Held, HeldStatus, Work
  <1>3. /\ DOMAIN ws = DOMAIN pass.writes \cup K
        /\ \A x \in K : ws[x] = RecoveredSession(x)
        /\ \A x \in DOMAIN pass.writes \ K : ws[x] = pass.writes[x]
    BY <1>1, <1>2, ConstantsAssumption DEF View
  <1> HIDE DEF K, ws
  <1>4. pass'.writes = ws /\ pass'.pc = "listWorkers"
    BY <1>1 DEF Passes
  <1>5. \A x \in K : /\ ~Held(pass'.writes[x])
                     /\ Room(x, pass'.writes[x], Leases(x))
    BY <1>2, <1>3, <1>4, RecoveredType, RecoveredRoom DEF JInv, IInv
  <1> QED
    BY <1>1, <1>2, <1>3, <1>4, <1>5, RecoveryJ

(* The statements that read, and the items of the list that are passed over. *)
LEMMA ReadStepJ ==
    ASSUME JInv,
           \/ ListWorkers \/ ListOccupied \/ ListPending
           \/ \E x \in Work : SkipUnplaceable(x) \/ AssignMissed(x)
    PROVE  GrantsOK' /\ FreshOK' /\ BudgetOK'
  <1>0. /\ UNCHANGED <<row, workers, nextLease, issued>> /\ pass \in Passes
    BY DEF ListWorkers, ListOccupied, ListPending, SkipUnplaceable, AssignMissed,
           JInv, IInv, Types
  <1>1. ASSUME pass'.writes = pass.writes,
               pass.pc # "assign" \/ (pass'.pc = "assign" /\ pass'.free = pass.free)
        PROVE  GrantsOK' /\ BudgetOK'
    <2>1. \A y \in Work : Tokens(y)' = Tokens(y) /\ Leases(y)' = Leases(y)
      BY <1>0 DEF Tokens, Leases
    <2>2. DOMAIN pass.writes \subseteq Work
      BY WritesElim DEF JInv, IInv, Types, Passes
    <2> QED
      BY <1>0, <1>1, <2>1, <2>2 DEF JInv, GrantsOK, BudgetOK
  <1>2. CASE ListWorkers
    <2> DEFINE F == {p \in Workers \X Gpus :
                        LET w == workers[p[1]]
                        IN  /\ w.status = "online" /\ p[1] \notin pass.stale
                            /\ ~w.drain
                            /\ w.age - pass.lag <= HeartbeatTimeout
                            /\ p[2] \in w.gpus
                            /\ fence[p[1]][p[2]] = 0}
    <2>1. pass.pc = "listWorkers" /\ pass' = [pass EXCEPT !.pc = "listOccupied", !.free = F]
      BY <1>2 DEF ListWorkers
    <2>2. \A p \in F : p[1] \in Workers /\ workers[p[1]].age - pass.lag <= HeartbeatTimeout
      OBVIOUS
    <2> HIDE DEF F
    <2>3. /\ pass'.pc = "listOccupied" /\ pass'.free = F
          /\ pass'.writes = pass.writes /\ pass'.lag = pass.lag
      BY <1>0, <2>1 DEF Passes
    <2>4. pass.lag \in Int /\ \A w \in Workers : workers[w].age \in Nat
      BY ConstantsAssumption DEF JInv, IInv, Types, TablesOK, Passes, Worker
    <2>5. FreshOK'
      BY <1>0, <2>2, <2>3, <2>4, ConstantsAssumption DEF FreshOK
    <2> QED
      BY <1>1, <2>1, <2>3, <2>5
  <1>3. ASSUME pass'.writes = pass.writes, pass'.free = pass.free,
               pass'.lag = pass.lag, pass'.pc \in {"listPending", "assign"},
               pass.pc \in {"listOccupied", "listPending", "assign"},
               pass.pc = "assign" => pass'.pc = "assign"
        PROVE  GrantsOK' /\ FreshOK' /\ BudgetOK'
    BY <1>0, <1>1, <1>3 DEF JInv, FreshOK
  <1>4. CASE ListOccupied
    <2> DEFINE O == {View(x).gpu : x \in {y \in Work : Held(View(y))}}
    <2>1. /\ pass.pc = "listOccupied"
          /\ pass' = [pass EXCEPT !.pc = "listPending", !.occupied = O]
      BY <1>4 DEF ListOccupied
    <2> HIDE DEF O
    <2> QED
      BY <1>0, <1>3, <2>1 DEF Passes
  <1>5. CASE ListPending
    <2> DEFINE P == {x \in Work : Pending(View(x))}
    <2>1. /\ pass.pc = "listPending"
          /\ pass' = [pass EXCEPT !.pc = "assign", !.pending = P]
      BY <1>5 DEF ListPending
    <2> HIDE DEF P
    <2> QED
      BY <1>0, <1>3, <2>1 DEF Passes
  <1>6. ASSUME NEW x \in Work, SkipUnplaceable(x) \/ AssignMissed(x)
        PROVE  GrantsOK' /\ FreshOK' /\ BudgetOK'
    <2> DEFINE P == pass.pending \ {x}
    <2>1. pass.pc = "assign" /\ pass' = [pass EXCEPT !.pending = P]
      BY <1>6 DEF SkipUnplaceable, AssignMissed, IsNext
    <2> HIDE DEF P
    <2> QED
      BY <1>0, <1>3, <2>1 DEF Passes
  <1> QED
    BY <1>2, <1>4, <1>5, <1>6
(* An assignment takes the next lease id, a resource of the free list and *)
(* one attempt that is left.                                              *)
LEMMA AssignJ ==
    ASSUME JInv, NEW x \in Work, NEW p \in Workers \X Gpus, Assign(x, p)
    PROVE  GrantsOK' /\ FreshOK' /\ BudgetOK'
  <1> DEFINE new == Leased(View(x), x, p)
             ws == [y \in DOMAIN pass.writes \cup {x} |->
                        IF y = x THEN new ELSE View(y)]
             P == pass.pending \ {x}
             O == pass.occupied \cup {p[2]}
             n == pass.lease + 1
  <1>1. /\ pass.pc = "assign" /\ pass \in Passes /\ p \in pass.free
        /\ Pending(View(x))
        /\ UNCHANGED <<row, workers, nextLease, issued>>
        /\ pass' = [pass EXCEPT !.pending = P, !.occupied = O, !.lease = n,
                                !.writes = ws]
    BY DEF Assign, IsNext, Candidates, JInv, IInv, Types
  <1>2. /\ DOMAIN pass.writes \in SUBSET Work
        /\ pass.writes \in [DOMAIN pass.writes -> Row]
    BY <1>1, WritesElim DEF Passes
  <1>3. View(x) \in Row /\ View(x).count \in Nat /\ pass.lease \in Nat
    BY <1>1, SeenType DEF JInv, IInv, Seen, Row, Passes
  <1>4. /\ new.worker = p[1] /\ new.gpu = p[2] /\ new.lease = pass.lease
        /\ new.count = IF x \in Jobs THEN View(x).count + 1 ELSE View(x).count
        /\ Held(new)
    BY DEF Leased, Held, HeldStatus, JobHeld, SessionHeld
  <1>5. p = <<p[1], p[2]>>
    OBVIOUS
  <1> HIDE DEF new
  <1>6. /\ DOMAIN ws = DOMAIN pass.writes \cup {x} /\ ws[x] = new
        /\ \A y \in DOMAIN pass.writes : y # x => ws[y] = pass.writes[y]
    BY DEF View
  <1> HIDE DEF ws, P, O, n
  <1>7. /\ pass'.writes = ws /\ pass'.pc = "assign" /\ pass'.free = pass.free
        /\ pass'.lag = pass.lag
    BY <1>1 DEF Passes
  <1>8. GrantsOK'
    <2>1. \A y \in DOMAIN pass.writes : Held(pass.writes[y]) =>
              /\ pass.writes[y].lease \in Nat
              /\ pass.writes[y].lease < pass.lease
              /\ <<pass.writes[y].worker, pass.writes[y].gpu>> \in pass.free
      BY <1>2 DEF JInv, IInv, LeasesOK, GrantsOK, Row
    <2>2. \A y \in DOMAIN ws : Held(ws[y]) =>
              <<ws[y].worker, ws[y].gpu>> \in pass.free
      BY <1>1, <1>4, <1>5, <1>6, <2>1
    <2>3. \A y, z \in DOMAIN ws :
              Held(ws[y]) /\ Held(ws[z]) /\ ws[y].lease = ws[z].lease => y = z
      <3>1. ASSUME NEW y \in DOMAIN ws, NEW z \in DOMAIN ws,
                   Held(ws[y]), Held(ws[z]), ws[y].lease = ws[z].lease, y # z
            PROVE  FALSE
        <4>0. \A v \in DOMAIN ws : v # x /\ Held(ws[v]) => ws[v].lease # pass.lease
          <5>1. ASSUME NEW v \in DOMAIN ws, v # x, Held(ws[v])
                PROVE  ws[v].lease # pass.lease
            <6>1. v \in DOMAIN pass.writes /\ ws[v] = pass.writes[v]
              BY <1>6, <5>1
            <6>2. pass.writes[v].lease \in Nat /\ pass.writes[v].lease < pass.lease
              BY <2>1, <5>1, <6>1
            <6> QED
              BY <1>3, <6>1, <6>2
          <5> QED
            BY <5>1
        <4>1. CASE y = x
          BY <1>4, <1>6, <3>1, <4>0, <4>1
        <4>2. CASE z = x
          BY <1>4, <1>6, <3>1, <4>0, <4>2
        <4>3. CASE y # x /\ z # x
          BY <1>6, <3>1, <4>3 DEF JInv, GrantsOK
        <4> QED
          BY <4>1, <4>2, <4>3
      <3> QED
        BY <3>1
    <2>4. \A y \in Work : Held(row[y]) => 0 < row[y].lease /\ row[y].lease < nextLease
      BY DEF JInv, GrantsOK
    <2> QED
      BY <1>1, <1>7, <2>2, <2>3, <2>4 DEF GrantsOK
  <1>9. FreshOK'
    BY <1>1, <1>7 DEF JInv, FreshOK
  <1>10. BudgetOK'
    <2>1. \A y \in Work : Tokens(y)' = Tokens(y) /\ Leases(y)' = Leases(y)
      BY <1>1 DEF Tokens, Leases
    <2>2. ~Held(View(x)) /\ ~Final(View(x))
      BY <1>1 DEF Pending, PendingStatus, Held, Final, HeldStatus, JobHeld,
                  SessionHeld, FinalStatus
    <2>3. Room(x, View(x), Leases(x))
      BY <2>2 DEF JInv, BudgetOK, View
    <2>4. Leases(x) \in Nat /\ Limit(x) \in Nat
      BY LeasesType, LimitType DEF JInv
    <2>5. Leases(x) <= View(x).count /\ View(x).count < Limit(x)
      BY <2>2, <2>3 DEF Room, Spent
    <2>6. Spent(x, new) = View(x).count + 1
      BY <1>4 DEF Spent
    <2>7. Room(x, new, Leases(x) + 1)
      <3>1. /\ Leases(x) + 1 <= View(x).count + 1
            /\ View(x).count + 1 <= Limit(x)
        BY <1>3, <2>4, <2>5
      <3> QED
        BY <1>4, <2>6, <3>1 DEF Room
    <2>8. \A y \in DOMAIN ws :
             /\ y \in Work
             /\ Room(y, ws[y], IF Held(ws[y]) THEN Leases(y) + 1 ELSE Leases(y))
      <3>1. ASSUME NEW y \in DOMAIN pass.writes, y # x
            PROVE  Room(y, ws[y], IF Held(ws[y]) THEN Leases(y) + 1 ELSE Leases(y))
        BY <1>6, <3>1 DEF JInv, BudgetOK
      <3> QED
        BY <1>2, <1>4, <1>6, <2>7, <3>1
    <2> QED
      BY <1>1, <1>7, <2>1, <2>8 DEF JInv, BudgetOK
  <1> QED
    BY <1>8, <1>9, <1>10

(* A commit issues one token for each lease the pass has written. *)
LEMMA CommitTokens ==
    ASSUME JInv, CommitPass, NEW x \in Work
    PROVE  Tokens(x)' =
              IF x \in DOMAIN pass.writes /\ Held(pass.writes[x])
              THEN Tokens(x) \cup {[work |-> x, worker |-> pass.writes[x].worker,
                                    lease |-> pass.writes[x].lease]}
              ELSE Tokens(x)
  <1> DEFINE H == {y \in DOMAIN pass.writes : Held(pass.writes[y])}
             tok(y) == [work |-> y, worker |-> View(y).worker, lease |-> View(y).lease]
  <1>1. issued' = issued \cup {tok(y) : y \in H}
    BY DEF CommitPass
  <1>2. \A y \in H : /\ tok(y).work = y
                     /\ tok(y) = [work |-> y, worker |-> pass.writes[y].worker,
                                  lease |-> pass.writes[y].lease]
    BY DEF View
  <1>3. \A t : t \in Tokens(x)' <=>
                 \/ t \in Tokens(x)
                 \/ x \in H /\ t = tok(x)
    <2> HIDE DEF tok, H
    <2>1. \A t \in {tok(y) : y \in H} : t.work = x <=> x \in H /\ t = tok(x)
      BY <1>2
    <2>2. x \in H => tok(x) \in {tok(y) : y \in H}
      OBVIOUS
    <2> QED
      BY <1>1, <2>1, <2>2 DEF Tokens
  <1>4. x \in H <=> x \in DOMAIN pass.writes /\ Held(pass.writes[x])
    OBVIOUS
  <1>5. CASE x \in H
    <2> HIDE DEF tok, H
    <2>1. Tokens(x)' = Tokens(x) \cup {tok(x)}
      BY <1>3, <1>5
    <2> QED
      BY <1>2, <1>4, <1>5, <2>1
  <1>6. CASE x \notin H
    <2> HIDE DEF tok, H
    <2>1. Tokens(x)' = Tokens(x)
      BY <1>3, <1>6
    <2> QED
      BY <1>4, <1>6, <2>1
  <1> QED
    BY <1>5, <1>6

LEMMA CommitPassJ ==
    ASSUME JInv, CommitPass
    PROVE  GrantsOK' /\ FreshOK' /\ BudgetOK'
  <1>1. /\ pass \in Passes /\ pass' = IdlePass /\ nextLease' = pass.lease
        /\ \A x \in Work : row'[x] = View(x)
    BY DEF CommitPass, JInv, IInv, Types
  <1>2. /\ DOMAIN pass.writes \in SUBSET Work
        /\ pass.writes \in [DOMAIN pass.writes -> Row]
    BY <1>1, WritesElim DEF Passes
  <1>3. pass'.pc = "idle" /\ DOMAIN pass'.writes = {}
    BY <1>1, NoWritesType DEF IdlePass
  <1>4. GrantsOK'
    <2>1. /\ nextLease \in Nat \ {0} /\ pass.lease \in Nat /\ nextLease <= pass.lease
      BY <1>1 DEF CommitPass, JInv, IInv, LeasesOK, Types, TablesOK, Passes
    <2>2. ASSUME NEW x \in Work, Held(View(x))
          PROVE  0 < View(x).lease /\ View(x).lease < pass.lease
      <3>1. CASE x \in DOMAIN pass.writes
        <4>1. /\ nextLease <= pass.writes[x].lease
              /\ pass.writes[x].lease < pass.lease
              /\ pass.writes[x].lease \in Nat /\ View(x) = pass.writes[x]
          BY <1>2, <2>2, <3>1 DEF JInv, IInv, LeasesOK, View, Row
        <4> QED
          BY <2>1, <4>1
      <3>2. CASE x \notin DOMAIN pass.writes
        <4>1. /\ row[x].lease \in Nat /\ View(x) = row[x]
              /\ 0 < row[x].lease /\ row[x].lease < nextLease
          BY <2>2, <3>2 DEF JInv, GrantsOK, View, IInv, Types, TablesOK, Row
        <4> QED
          BY <2>1, <4>1
      <3> QED
        BY <3>1, <3>2
    <2> QED
      BY <1>1, <1>3, <2>2 DEF GrantsOK
  <1>5. FreshOK'
    BY <1>3 DEF FreshOK
  <1>6. BudgetOK'
    <2>1. ASSUME NEW x \in Work
          PROVE  /\ IsFiniteSet(Tokens(x)') /\ Leases(x)' <= Limit(x)
                 /\ Room(x, row'[x], Leases(x)')
      <3>1. /\ IsFiniteSet(Tokens(x)) /\ Leases(x) \in Nat /\ Leases(x) <= Limit(x)
            /\ Limit(x) \in Nat
        BY LeasesType, LimitType DEF JInv, BudgetOK
      <3>2. CASE x \in DOMAIN pass.writes /\ Held(pass.writes[x])
        <4> DEFINE tok == [work |-> x, worker |-> pass.writes[x].worker,
                           lease |-> pass.writes[x].lease]
        <4>1. Tokens(x)' = Tokens(x) \cup {tok}
          BY <3>2, CommitTokens
        <4> HIDE DEF tok
        <4>2. /\ IsFiniteSet(Tokens(x)')
              /\ Leases(x)' = Leases(x) \/ Leases(x)' = Leases(x) + 1
          BY <3>1, <4>1, FS_AddElement DEF Leases
        <4>3. row'[x] = pass.writes[x] /\ row'[x] \in Row
          BY <1>1, <1>2, <3>2 DEF View
        <4>4. Room(x, row'[x], Leases(x) + 1) /\ ~Final(row'[x])
          BY <3>2, <4>3, HeldNotFinal DEF JInv, BudgetOK
        <4>5. /\ Leases(x) + 1 <= Spent(x, row'[x]) /\ Spent(x, row'[x]) <= Limit(x)
              /\ Spent(x, row'[x]) \in Nat /\ Held(row'[x])
          BY <3>2, <4>3, <4>4 DEF Room, Spent, Row
        <4> HIDE DEF Leases
        <4>6. Leases(x)' <= Spent(x, row'[x]) /\ Leases(x)' <= Limit(x)
          BY <3>1, <4>2, <4>5
        <4> QED
          BY <4>2, <4>5, <4>6 DEF Room
      <3>3. CASE ~(x \in DOMAIN pass.writes /\ Held(pass.writes[x]))
        <4>1. Tokens(x)' = Tokens(x) /\ Leases(x)' = Leases(x)
          <5>1. Tokens(x)' = Tokens(x)
            BY <3>3, CommitTokens
          <5> QED
            BY <5>1 DEF Leases
        <4>2. Room(x, View(x), Leases(x))
          BY <3>3 DEF JInv, BudgetOK, View
        <4> QED
          BY <1>1, <3>1, <4>1, <4>2
      <3> QED
        BY <3>2, <3>3
    <2> QED
      BY <1>3, <2>1 DEF BudgetOK
  <1> QED
    BY <1>4, <1>5, <1>6
LEMMA InitJ ==
    ASSUME Init
    PROVE  JInv
  <1>1. IInv
    BY InitInv
  <1>2. /\ pass.pc = "idle" /\ DOMAIN pass.writes = {}
        /\ \A x \in Work : row[x].status = "absent" /\ row[x].count = 0
    BY NoWritesType DEF Init, IdlePass, EmptyRow
  <1>3. \A x \in Work : ~Held(row[x])
    BY <1>2 DEF Held, HeldStatus, JobHeld, SessionHeld
  <1>4. GrantsOK /\ FreshOK
    BY <1>2, <1>3 DEF GrantsOK, FreshOK
  <1>5. BudgetOK
    <2>1. \A x \in Work : Tokens(x) = {}
      BY DEF Init, Tokens
    <2>2. \A x \in Work : IsFiniteSet(Tokens(x)) /\ Leases(x) = 0
      BY <2>1, FS_EmptySet DEF Leases
    <2> QED
      BY <1>2, <1>3, <2>2, LimitType DEF BudgetOK, Room, Spent
  <1> QED
    BY <1>1, <1>4, <1>5 DEF JInv

LEMMA StepJ ==
    ASSUME JInv, [Next]_vars
    PROVE  JInv'
  <1> SUFFICES GrantsOK' /\ FreshOK' /\ BudgetOK'
    BY StepInv DEF JInv
  <1>1. ASSUME UNCHANGED <<row, workers, pass, nextLease, issued>>
        PROVE  GrantsOK' /\ FreshOK' /\ BudgetOK'
    BY <1>1 DEF JInv, GrantsOK, FreshOK, BudgetOK, Tokens, Leases, Room, Spent
  <1>2. CASE WorkerNext
    BY <1>2, WorkerStepJ
  <1>3. CASE ClientNext
    BY <1>3, ClientStepIsRowStep, RowStepJ DEF JInv
  <1>4. CASE HolderNext
    <2>1. CASE RowStepNext
      BY <2>1, RowStepJ
    <2>2. CASE \E t \in issued, lag \in Lags : ReserveExecutionAttempt(t, lag)
      BY <1>1, <2>2 DEF ReserveExecutionAttempt
    <2> QED
      BY <1>4, <2>1, <2>2, HolderStepIsRowStep DEF HolderNext, JInv
  <1>5. CASE PassNext
    <2>1. CASE \E lag \in Lags : BeginPass(lag)
      <3>1. PICK lag \in Lags : BeginPass(lag)
        BY <2>1
      <3> DEFINE S == {w \in Workers : /\ workers[w].status = "online"
                                       /\ workers[w].age - lag > HeartbeatTimeout}
      <3>2. /\ pass' = [IdlePass EXCEPT !.pc = "recoverJobs", !.lag = lag,
                                        !.lease = nextLease, !.stale = S]
            /\ UNCHANGED <<row, nextLease, issued>>
        BY <3>1 DEF BeginPass
      <3> HIDE DEF S
      <3>3. pass'.pc = "recoverJobs" /\ DOMAIN pass'.writes = {}
        BY <3>2, NoWritesType DEF IdlePass
      <3> QED
        BY <3>2, <3>3, EmptyPassJ
    <2>2. CASE RecoverExpiredJobs
      BY <2>2, RecoverExpiredJobsJ
    <2>3. CASE RecoverInterruptedSessions
      BY <2>3, RecoverInterruptedSessionsJ
    <2>4. CASE \/ ListWorkers \/ ListOccupied \/ ListPending
               \/ \E x \in Work : SkipUnplaceable(x) \/ AssignMissed(x)
      BY <2>4, ReadStepJ
    <2>5. CASE \E x \in Work, p \in Workers \X Gpus : Assign(x, p)
      BY <2>5, AssignJ
    <2>6. CASE CommitPass
      BY <2>6, CommitPassJ
    <2> QED
      BY <1>5, <2>1, <2>2, <2>3, <2>4, <2>5, <2>6 DEF PassNext
  <1>6. CASE AbortPass
    <2>1. pass'.pc = "idle" /\ DOMAIN pass'.writes = {}
          /\ UNCHANGED <<row, nextLease, issued>>
      BY <1>6, NoWritesType DEF AbortPass, IdlePass
    <2> QED
      BY <2>1, EmptyPassJ
  <1>7. CASE Tick
    BY <1>7, TickJ
  <1>8. CASE UNCHANGED vars
    BY <1>1, <1>8 DEF vars
  <1> QED
    BY <1>2, <1>3, <1>4, <1>5, <1>6, <1>7, <1>8 DEF Next, SteadyNext

(* The invariant with what the open pass is about to give: free resources  *)
(* of fresh workers, new lease ids, attempts within the limits.            *)
THEOREM GrantsInductive == Spec => []JInv
  <1>1. Init => JInv
    BY InitJ
  <1>2. JInv /\ [Next]_vars => JInv'
    BY StepJ
  <1> QED
    BY <1>1, <1>2, PTL DEF Spec

(* A job gets at most max_attempts leases and a session max_interruptions  *)
(* and one, however passes, rollbacks, expiries and cancellations follow   *)
(* each other (recoverExpiredJobs, recoverInterruptedSessions, assignJob). *)
THEOREM AttemptsAreBounded == Spec => []AttemptBudget
  <1>1. ASSUME JInv PROVE AttemptBudget
    <2>1. \A x \in Work : Cardinality({t \in issued : t.work = x}) <= Limit(x)
      BY <1>1 DEF JInv, BudgetOK, Leases, Tokens
    <2>2. \A j \in Jobs : row[j].status = "queued" => row[j].count < MaxAttempts[j]
      <3>1. ASSUME NEW j \in Jobs, row[j].status = "queued"
            PROVE  row[j].count < MaxAttempts[j]
        <4>1. ~Held(row[j]) /\ ~Final(row[j]) /\ j \in Work
          BY <3>1 DEF Held, Final, HeldStatus, JobHeld, SessionHeld, FinalStatus, Work
        <4> QED
          BY <1>1, <4>1 DEF JInv, BudgetOK, Room, Spent, Limit
      <3> QED
        BY <3>1
    <2>3. \A s \in Sessions : s \in Work /\ Limit(s) = MaxInterruptions[s] + 1
      BY ConstantsAssumption DEF Limit, Work
    <2>4. \A j \in Jobs : j \in Work /\ Limit(j) = MaxAttempts[j]
      BY DEF Limit, Work
    <2> QED
      BY <2>1, <2>2, <2>3, <2>4 DEF AttemptBudget
  <1> QED
    BY <1>1, GrantsInductive, PTL

(* How a step changes the leases of the committed rows: none is given but   *)
(* by a commit.                                                             *)
LEMMA OnlyCommitsGive ==
    ASSUME IInv, [Next]_vars, ~CommitPass
    PROVE  \A x \in Work : Keeps(row[x], row'[x])
  <1>0. row \in [Work -> Row]
    BY DEF IInv, Types, TablesOK
  <1>1. ASSUME RowStepNext PROVE \A x \in Work : Keeps(row[x], row'[x])
    <2>1. PICK x \in Work, r \in Row : RowStep(x, r)
      BY <1>1 DEF RowStepNext
    <2> QED
      BY <1>0, <2>1 DEF RowStep, Keeps
  <1>2. CASE UNCHANGED row
    BY <1>2 DEF Keeps
  <1>3. CASE ClientNext
    BY <1>1, <1>3, ClientStepIsRowStep
  <1>4. CASE HolderNext
    BY <1>1, <1>2, <1>4, HolderStepIsRowStep DEF HolderNext, ReserveExecutionAttempt
  <1>5. CASE Tick
    BY <1>0, <1>5, OlderSame DEF Tick, Keeps, Held
  <1>6. CASE WorkerNext
    BY <1>2, <1>6 DEF WorkerNext, RegisterWorker, HeartbeatWorker, SetWorkerDrain
  <1>7. CASE PassNext
    BY <1>2, <1>7 DEF PassNext, BeginPass, RecoverExpiredJobs,
       RecoverInterruptedSessions, ListWorkers, ListOccupied, ListPending,
       SkipUnplaceable, Assign, AssignMissed
  <1>8. CASE AbortPass
    BY <1>2, <1>8 DEF AbortPass
  <1> QED
    BY <1>2, <1>3, <1>4, <1>5, <1>6, <1>7, <1>8 DEF Next, SteadyNext, vars

(* A lease a commit gives is one the pass has written. *)
LEMMA CommitGives ==
    ASSUME JInv, CommitPass, NEW x \in Work, x \in DOMAIN pass.writes,
           Held(pass.writes[x])
    PROVE  /\ row'[x] = pass.writes[x]
           /\ row'[x].lease \in Nat /\ nextLease <= row'[x].lease
           /\ row'[x].worker \in Workers /\ row'[x].gpu \in Gpus
           /\ fence[row'[x].worker][row'[x].gpu] = 0
           /\ \/ workers'[row'[x].worker].age <= HeartbeatTimeout + MaxLag
              \/ workers'[row'[x].worker].age <= 2 * MaxLag
  <1>1. row'[x] = pass.writes[x] /\ pass.pc = "assign"
    BY DEF CommitPass, View
  <1>2. pass.writes[x] \in Row /\ pass \in Passes
    BY WritesElim DEF JInv, IInv, Types, Passes
  <1> DEFINE w == pass.writes[x].worker
             g == pass.writes[x].gpu
  <1>3. <<w, g>> \in pass.free
    BY DEF JInv, GrantsOK
  <1>4. w \in Workers /\ g \in Gpus /\ fence[w][g] = 0
    <2>1. <<w, g>> \in Workers \X Gpus
      BY <1>2, <1>3 DEF Passes
    <2>2. fence[<<w, g>>[1]][<<w, g>>[2]] = 0
      BY <1>1, <1>3 DEF JInv, IInv, PassOK
    <2> QED
      BY <2>1, <2>2
  <1>5. workers[w].age \in Nat /\ workers'[w].age = workers[w].age
    BY <1>4 DEF CommitPass, JInv, IInv, Types, TablesOK, Worker
  <1>6. \/ workers[w].age <= HeartbeatTimeout + pass.lag
        \/ workers[w].age <= MaxLag + pass.lag
    <2>1. \/ workers[<<w, g>>[1]].age <= HeartbeatTimeout + pass.lag
          \/ workers[<<w, g>>[1]].age <= MaxLag + pass.lag
      BY <1>1, <1>3 DEF JInv, FreshOK
    <2> QED
      BY <2>1
  <1>7. pass.lag \in 0 .. MaxLag
    BY <1>2 DEF Passes
  <1>8. \/ workers'[w].age <= HeartbeatTimeout + MaxLag
        \/ workers'[w].age <= 2 * MaxLag
    BY <1>5, <1>6, <1>7, ConstantsAssumption
  <1>9. pass.writes[x].lease \in Nat /\ nextLease <= pass.writes[x].lease
    BY <1>2 DEF JInv, IInv, LeasesOK, Row
  <1> QED
    BY <1>1, <1>4, <1>8, <1>9

(* A new lease is on an unfenced GPU of a worker that reported in time, or *)
(* reports late since the pass read it (choosePlacement against            *)
(* heartbeatWorker and reserveExecutionAttempt).                           *)
THEOREM NewLeasesAreUsable == Spec => NewLeaseIsUsable
  <1> DEFINE Usably ==
        \A x \in Work :
            Held(row'[x]) /\ row'[x].lease # row[x].lease =>
                /\ \/ workers'[row'[x].worker].age <= HeartbeatTimeout + MaxLag
                   \/ workers'[row'[x].worker].age <= 2 * MaxLag
                /\ fence[row'[x].worker][row'[x].gpu] = 0
  <1>1. ASSUME JInv, [Next]_vars PROVE Usably
    <2>1. CASE CommitPass
      <3>1. \A x \in Work : x \notin DOMAIN pass.writes => row'[x] = row[x]
        BY <2>1 DEF CommitPass, View
      <3>2. \A x \in Work : x \in DOMAIN pass.writes => row'[x] = pass.writes[x]
        BY <2>1 DEF CommitPass, View
      <3> QED
        BY <1>1, <2>1, <3>1, <3>2, CommitGives
    <2>2. CASE ~CommitPass
      <3>1. \A x \in Work : Keeps(row[x], row'[x])
        BY <1>1, <2>2, OnlyCommitsGive DEF JInv
      <3> QED
        BY <3>1 DEF Keeps
    <2> QED
      BY <2>1, <2>2
  <1>2. JInv /\ [Next]_vars => [Usably]_vars
    BY <1>1
  <1> QED
    BY <1>2, GrantsInductive, PTL DEF Spec, NewLeaseIsUsable
----------------------------------------------------------------------------
(* The rows implement GpuLeasing *)

(* The variables of GpuLeasing, as Leasing reads them off the tables. *)
Unleased == [worker |-> "none", gpu |-> "none", lease |-> 0]

GrantsOf(v) ==
    [x \in Work |->
        IF Held(v[x])
        THEN [worker |-> v[x].worker, gpu |-> v[x].gpu, lease |-> v[x].lease]
        ELSE Unleased]

Grants   == GrantsOf(row)
Over     == {x \in Work : Final(row[x])}
Used     == {t.lease : t \in issued}
Reserved == {p \in Workers \X Gpus : fence[p[1]][p[2]] # 0}

(* A row has a grant exactly when it holds a lease: lease ids start at 1. *)
LEMMA GrantsMean ==
    ASSUME NEW v, NEW x \in Work, Held(v[x]) => v[x].lease # 0
    PROVE  /\ GrantsOf(v)[x] # Unleased <=> Held(v[x])
           /\ Held(v[x]) => /\ GrantsOf(v)[x].worker = v[x].worker
                            /\ GrantsOf(v)[x].gpu = v[x].gpu
                            /\ GrantsOf(v)[x].lease = v[x].lease
  <1>1. CASE Held(v[x])
    <2>1. GrantsOf(v)[x] = [worker |-> v[x].worker, gpu |-> v[x].gpu,
                            lease |-> v[x].lease]
      BY <1>1 DEF GrantsOf
    <2>2. /\ GrantsOf(v)[x].worker = v[x].worker /\ GrantsOf(v)[x].gpu = v[x].gpu
          /\ GrantsOf(v)[x].lease = v[x].lease
      BY <2>1
    <2>3. Unleased.lease = 0
      BY DEF Unleased
    <2> QED
      BY <1>1, <2>2, <2>3
  <1>2. CASE ~Held(v[x])
    BY <1>2 DEF GrantsOf
  <1> QED
    BY <1>1, <1>2

(* A step that keeps a lease as it is keeps its grant. *)
LEMMA GrantKept ==
    ASSUME NEW v, NEW u, NEW x \in Work, Held(u[x]), Keeps(v[x], u[x])
    PROVE  GrantsOf(u)[x] = GrantsOf(v)[x]
  BY DEF GrantsOf, Keeps

(* The round of GpuLeasing, in these names. *)
NewlyGiven == {z \in Work : Grants'[z] # Unleased /\ Grants'[z] # Grants[z]}

RoundOf ==
    /\ \A x, y \in Work :
        Grants'[x] # Unleased /\ Grants'[y] # Unleased
            /\ Grants'[x].gpu = Grants'[y].gpu => x = y
    /\ \A x, y \in NewlyGiven : Grants'[x].lease = Grants'[y].lease => x = y
    /\ \A x \in NewlyGiven :
        /\ Grants'[x].lease \notin Used
        /\ <<Grants'[x].worker, Grants'[x].gpu>> \notin Reserved
    /\ Over \subseteq Over'
    /\ \A x \in Over' : ~(Grants'[x] # Unleased)
    /\ Used' = Used \cup {Grants'[x].lease : x \in NewlyGiven}
    /\ Reserved' = Reserved

LEMMA RoundIsRound == RoundOf => Leasing!Round
  BY DEF RoundOf, NewlyGiven, Leasing!Round, Leasing!Exclusive, Leasing!Given,
         Leasing!Has, Leasing!NoGrant, GrantsOf, Grants, Unleased, Over, Used,
         Reserved

(* What every step of the rows keeps of a round. *)
LEMMA RoundFrame ==
    ASSUME JInv, JInv', [Next]_vars
    PROVE  /\ \A x, y \in Work :
                Grants'[x] # Unleased /\ Grants'[y] # Unleased
                    /\ Grants'[x].gpu = Grants'[y].gpu => x = y
           /\ Over \subseteq Over'
           /\ \A x \in Over' : ~(Grants'[x] # Unleased)
           /\ \A x \in Work : /\ Grants'[x] # Unleased <=> Held(row'[x])
                              /\ Held(row'[x]) =>
                                    /\ Grants'[x].worker = row'[x].worker
                                    /\ Grants'[x].gpu = row'[x].gpu
                                    /\ Grants'[x].lease = row'[x].lease
  <1>1. \A x \in Work : Held(row'[x]) => row'[x].lease # 0
    BY DEF JInv, GrantsOK
  <1>2. \A x \in Work : /\ Grants'[x] # Unleased <=> Held(row'[x])
                        /\ Held(row'[x]) =>
                              /\ Grants'[x].worker = row'[x].worker
                              /\ Grants'[x].gpu = row'[x].gpu
                              /\ Grants'[x].lease = row'[x].lease
    BY <1>1, GrantsMean DEF Grants
  <1>3. \A x, y \in Work :
            Held(row'[x]) /\ Held(row'[y]) /\ row'[x].gpu = row'[y].gpu => x = y
    BY DEF JInv, IInv, RowsOK
  <1>4. \A x \in Work : Final(row'[x]) => ~Held(row'[x])
    BY HeldNotFinal
  <1>5. \A x \in Work : Final(row[x]) => Final(row'[x])
    BY FinalStep DEF JInv, Final
  <1> QED
    BY <1>2, <1>3, <1>4, <1>5 DEF Over

(* A request, or time passing, is a round that gives nothing. *)
LEMMA KeepIsRound ==
    ASSUME JInv, JInv', [Next]_vars, ~CommitPass, UNCHANGED <<fence, issued>>
    PROVE  RoundOf
  <1>1. \A x \in Work : Keeps(row[x], row'[x])
    BY OnlyCommitsGive DEF JInv
  <1>2. \A x \in Work : Held(row'[x]) => Grants'[x] = Grants[x]
    BY <1>1, GrantKept DEF Grants
  <1>3. NewlyGiven = {}
    BY <1>2, RoundFrame DEF NewlyGiven
  <1>4. Used' = Used /\ Reserved' = Reserved
    BY DEF Used, Reserved
  <1> QED
    BY <1>3, <1>4, RoundFrame DEF RoundOf

(* A commit is a round that gives the leases the pass has written. *)
LEMMA CommitIsRound ==
    ASSUME JInv, JInv', CommitPass
    PROVE  RoundOf
  <1> DEFINE H == {x \in DOMAIN pass.writes : Held(pass.writes[x])}
  <1>0. [Next]_vars /\ H \subseteq Work
    BY WritesElim DEF Next, SteadyNext, PassNext, JInv, IInv, Types, Passes
  <1>1. \A x \in H : /\ row'[x] = pass.writes[x] /\ Held(row'[x])
                     /\ row'[x].lease \in Nat /\ nextLease <= row'[x].lease
                     /\ row'[x].worker \in Workers /\ row'[x].gpu \in Gpus
                     /\ fence[row'[x].worker][row'[x].gpu] = 0
    BY <1>0, CommitGives
  <1>2. \A x \in Work \ DOMAIN pass.writes : row'[x] = row[x]
    BY DEF CommitPass, View
  <1>3. \A x \in DOMAIN pass.writes \ H : ~Held(row'[x])
    BY <1>0, WritesElim DEF CommitPass, View, JInv, IInv, Types, Passes
  <1>4. nextLease \in Nat /\ \A t \in issued : t.lease \in Nat /\ t.lease < nextLease
    BY DEF JInv, IInv, Types, TablesOK, Token, LeasesOK
  <1>5. NewlyGiven = H
    <2>1. ASSUME NEW x \in H PROVE Grants'[x] # Unleased /\ Grants'[x] # Grants[x]
      <3>1. x \in Work /\ Grants'[x] # Unleased /\ Grants'[x].lease = row'[x].lease
        BY <1>0, <1>1, <2>1, RoundFrame
      <3>2. CASE Held(row[x])
        <4>1. row[x].lease \in Nat /\ row[x].lease # 0 /\ row[x].lease < nextLease
          BY <3>1, <3>2 DEF JInv, GrantsOK, IInv, Types, TablesOK, Row
        <4>2. Grants[x].lease = row[x].lease
          BY <3>1, <3>2, <4>1, GrantsMean DEF Grants
        <4> QED
          BY <1>1, <1>4, <2>1, <3>1, <4>1, <4>2
      <3>3. CASE ~Held(row[x])
        BY <3>1, <3>3, GrantsMean DEF Grants
      <3> QED
        BY <3>1, <3>2, <3>3
    <2>2. ASSUME NEW x \in Work, Grants'[x] # Unleased, Grants'[x] # Grants[x], x \notin H
          PROVE  FALSE
      <3>1. Held(row'[x])
        BY <1>0, <2>2, RoundFrame
      <3>2. row'[x] = row[x]
        BY <1>2, <1>3, <2>2, <3>1
      <3>3. Keeps(row[x], row'[x])
        BY <3>2 DEF Keeps
      <3> QED
        BY <2>2, <3>1, <3>3, GrantKept DEF Grants
    <2> QED
      BY <1>0, <2>1, <2>2 DEF NewlyGiven
  <1>6. \A x \in H : /\ Grants'[x].lease = pass.writes[x].lease
                     /\ Grants'[x].worker = row'[x].worker
                     /\ Grants'[x].gpu = row'[x].gpu
    BY <1>0, <1>1, RoundFrame
  <1>7. \A x, y \in H : Grants'[x].lease = Grants'[y].lease => x = y
    BY <1>6 DEF JInv, GrantsOK
  <1>8. \A x \in H : Grants'[x].lease \notin Used
    BY <1>1, <1>4, <1>6 DEF Used
  <1>9. \A x \in H : <<Grants'[x].worker, Grants'[x].gpu>> \notin Reserved
    BY <1>1, <1>6 DEF Reserved
  <1>10. Used' = Used \cup {Grants'[x].lease : x \in H}
    <2> DEFINE tok(x) == [work |-> x, worker |-> View(x).worker, lease |-> View(x).lease]
    <2>1. issued' = issued \cup {tok(x) : x \in H}
      BY DEF CommitPass
    <2>2. \A x \in H : tok(x).lease = Grants'[x].lease
      BY <1>6 DEF View
    <2> HIDE DEF tok, H
    <2> QED
      BY <2>1, <2>2 DEF Used
  <1>11. Reserved' = Reserved
    BY DEF CommitPass, Reserved
  <1> HIDE DEF H
  <1> QED
    BY <1>0, <1>5, <1>7, <1>8, <1>9, <1>10, <1>11, RoundFrame DEF RoundOf
(* A reservation of an execution is one of GpuLeasing. *)
ReserveOf(x) ==
    /\ Grants[x] # Unleased
    /\ <<Grants[x].worker, Grants[x].gpu>> \notin Reserved
    /\ Reserved' = Reserved \cup {<<Grants[x].worker, Grants[x].gpu>>}
    /\ Grants' = Grants /\ Over' = Over /\ Used' = Used

LEMMA ReserveIsReserve ==
    ASSUME NEW x \in Work, ReserveOf(x)
    PROVE  Leasing!Reserve(x)
  BY DEF ReserveOf, Leasing!Reserve, Leasing!Has, Leasing!NoGrant, GrantsOf, Grants,
         Unleased, Over, Used, Reserved

LEMMA ReserveStep ==
    ASSUME JInv, NEW t \in issued, NEW lag \in Lags, ReserveExecutionAttempt(t, lag)
    PROVE  t.work \in Work /\ ReserveOf(t.work)
  <1> DEFINE x == t.work
             w == t.worker
             g == row[x].gpu
  <1>1. /\ x \in Work /\ w \in Workers /\ t.lease \in Nat
        /\ fence \in [Workers -> [Gpus -> Nat]]
    BY DEF JInv, IInv, Types, TablesOK, Token
  <1>2. /\ Held(row[x]) /\ row[x].worker = w /\ row[x].lease = t.lease
        /\ fence[w][g] = 0 /\ fence' = [fence EXCEPT ![w][g] = t.lease]
        /\ UNCHANGED <<row, issued>>
    BY DEF ReserveExecutionAttempt, OwnsLease, Held
  <1>3. g \in Gpus /\ t.lease # 0
    BY <1>1, <1>2 DEF JInv, IInv, RowsOK, GrantsOK
  <1>4. Grants[x] # Unleased /\ Grants[x].worker = w /\ Grants[x].gpu = g
    BY <1>1, <1>2, <1>3, GrantsMean DEF Grants
  <1>5. Grants' = Grants /\ Over' = Over /\ Used' = Used
    BY <1>2 DEF Grants, GrantsOf, Over, Used
  <1>6. \A v \in Workers, h \in Gpus :
            fence'[v][h] = IF v = w /\ h = g THEN t.lease ELSE fence[v][h]
    BY <1>1, <1>2, <1>3
  <1>7. <<w, g>> \notin Reserved /\ Reserved' = Reserved \cup {<<w, g>>}
    BY <1>1, <1>2, <1>3, <1>6 DEF Reserved
  <1> QED
    BY <1>1, <1>4, <1>5, <1>7 DEF ReserveOf

(* The control plane on PostgreSQL keeps the promise of GpuLeasing: every   *)
(* commit of scheduler.mjs and service.mjs is one of its rounds, or a       *)
(* reservation, and every other step changes nothing it speaks of.          *)
THEOREM ImplementsLeasing == Spec => LeasingSpec
  <1>1. ASSUME Init PROVE Leasing!Init
    <2>1. \A x \in Work : ~Held(row[x]) /\ ~Final(row[x])
      BY <1>1 DEF Init, EmptyRow, Held, HeldStatus, JobHeld, SessionHeld, Final,
                  FinalStatus
    <2>2. Reserved = {}
      BY <1>1 DEF Init, Reserved
    <2>3. issued = {}
      BY <1>1 DEF Init
    <2> QED
      BY <2>1, <2>2, <2>3 DEF Leasing!Init, Leasing!NoGrant, Reserved
  <1>2. ASSUME JInv, JInv', [Next]_vars PROVE [Leasing!Next]_(Leasing!vars)
    <2>1. ASSUME NEW t \in issued, NEW lag \in Lags, ReserveExecutionAttempt(t, lag)
          PROVE  Leasing!Next
      BY <1>2, <2>1, ReserveStep, ReserveIsReserve DEF Leasing!Next
    <2>2. CASE CommitPass
      BY <1>2, <2>2, CommitIsRound, RoundIsRound DEF Leasing!Next
    <2>3. CASE /\ ~CommitPass
               /\ ~\E t \in issued, lag \in Lags : ReserveExecutionAttempt(t, lag)
      <3>1. UNCHANGED <<fence, issued>>
        <4>1. CASE ClientNext \/ HolderNext
          BY <1>2, <2>3, <4>1, ClientStepIsRowStep, HolderStepIsRowStep
          DEF HolderNext, RowStepNext, RowStep, JInv
        <4>2. CASE WorkerNext
          BY <4>2 DEF WorkerNext, RegisterWorker, HeartbeatWorker, SetWorkerDrain
        <4>3. CASE PassNext
          BY <2>3, <4>3 DEF PassNext, BeginPass, RecoverExpiredJobs,
             RecoverInterruptedSessions, ListWorkers, ListOccupied, ListPending,
             SkipUnplaceable, Assign, AssignMissed
        <4>4. CASE Tick \/ AbortPass \/ UNCHANGED vars
          BY <4>4 DEF Tick, AbortPass, vars
        <4> QED
          BY <1>2, <4>1, <4>2, <4>3, <4>4 DEF Next, SteadyNext
      <3> QED
        BY <1>2, <2>3, <3>1, KeepIsRound, RoundIsRound DEF Leasing!Next
    <2> QED
      BY <2>1, <2>2, <2>3
  <1> QED
    BY <1>1, <1>2, GrantsInductive, PTL DEF Spec, LeasingSpec, Leasing!Spec
=============================================================================

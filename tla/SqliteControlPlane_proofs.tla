--------------------- MODULE SqliteControlPlane_proofs ----------------------
(***************************************************************************)
(* Proofs about the control plane on SQLite, for any set of workers, GPUs, *)
(* jobs, sessions and clients, any lease time, and operations that wait as *)
(* long as they like.                                                      *)
(*                                                                         *)
(* The argument is about two databases: the connection's, with the         *)
(* statements of the transaction under way, and the one on disk.  Both are *)
(* well formed (Good); the first follows from the second by the statements *)
(* of one transaction (RoundTo or ReserveTo), and equals it when there is  *)
(* none (ChainOK), since only the head of the chain has begun.             *)
(***************************************************************************)
EXTENDS SqliteControlPlane, TLAPS

----------------------------------------------------------------------------
(* One database *)

SameTable(x, y) == x \in Jobs <=> y \in Jobs

Good(d) ==
    /\ d \in Database /\ d.next # 0
    /\ \A x \in Work : Held(d.row[x]) =>
            /\ d.row[x].worker \in Workers /\ d.row[x].gpu \in Gpus
            /\ d.row[x].lease # 0 /\ d.row[x].lease < d.next
    /\ \A x, y \in Work :
            Held(d.row[x]) /\ Held(d.row[y]) /\ x # y =>
                d.row[x].gpu # d.row[y].gpu /\ d.row[x].lease # d.row[y].lease
    /\ \A x, y \in Work :
            /\ SameTable(x, y) /\ SameKey(x, y)
            /\ d.row[x].status # "absent" /\ d.row[y].status # "absent"
            => x = y

(* The submission of x has a row, its own or an earlier one of its key. *)
Placed(d, x) ==
    \E z \in Work : /\ SameTable(x, z) /\ (z = x \/ SameKey(z, x))
                    /\ d.row[z].status # "absent"

----------------------------------------------------------------------------
(* Two databases: what a transaction may do *)

(* Work keeps its lease as it is, ... *)
Kept(d, e, x) ==
    /\ Held(d.row[x])
    /\ e.row[x].worker = d.row[x].worker
    /\ e.row[x].gpu = d.row[x].gpu
    /\ e.row[x].lease = d.row[x].lease

(* ... or is given a new one on a GPU that is free and not drained. *)
NewIn(d, e, x) ==
    /\ d.next <= e.row[x].lease
    /\ d.fence[<<e.row[x].worker, e.row[x].gpu>>] = 0
    /\ ~d.workers[e.row[x].worker].drain

(* Leases end and are given; nothing that is over or submitted goes back. *)
RoundTo(d, e) ==
    /\ e.fence = d.fence /\ d.next <= e.next
    /\ \A x \in Work :
        /\ Held(e.row[x]) => Kept(d, e, x) \/ NewIn(d, e, x)
        /\ Final(d.row[x]) => Final(e.row[x])
        /\ e.row[x].status = "absent" => d.row[x].status = "absent"

(* One execution is reserved, by the holder of a lease. *)
ReserveTo(d, e) ==
    /\ e.row = d.row /\ e.next = d.next
    /\ \E x \in Work :
        LET p == <<d.row[x].worker, d.row[x].gpu>>
        IN  /\ Held(d.row[x]) /\ d.fence[p] = 0
            /\ e.fence = [d.fence EXCEPT ![p] = d.row[x].lease]

SameDrains(d, e) == \A w \in Workers : e.workers[w].drain = d.workers[w].drain

----------------------------------------------------------------------------
(* The invariant *)

WorkerKinds == {"register", "heartbeat", "drain", "resume"}
HolderKinds == {"start", "activate", "renew", "succeeded", "failed", "reserve"}
ClientKinds == {"submit", "end"}
RequestKinds == WorkerKinds \cup HolderKinds \cup ClientKinds
OverKinds == {"end", "succeeded", "failed"}

Ops == [kind : RequestKinds \cup {"none", "pass", "close"},
        work : Work \cup {None}, worker : Workers \cup {None},
        lease : Nat, lag : Nat, pc : {"queued", "assign", "commit"}]

CallsOK ==
    /\ call \in [Callers -> Ops]
    /\ \A c \in Callers :
        /\ call[c].kind \in WorkerKinds \cup HolderKinds => call[c].worker \in Workers
        /\ call[c].kind \in HolderKinds \cup ClientKinds => call[c].work \in Work
        /\ c = Scheduler => call[c].kind \in {"none", "pass"}
        /\ c # Scheduler => call[c].kind # "pass" /\ call[c].pc # "assign"

(* The chain: whoever waits in it has called, once; only its head has begun. *)
ChainOK ==
    /\ tail \in Seq(Callers)
    /\ \A i \in 1 .. Len(tail) : call[tail[i]].kind # "none"
    /\ \A i, j \in 1 .. Len(tail) : tail[i] = tail[j] => i = j
    /\ open \in BOOLEAN
    /\ \A c \in Callers : call[c].pc # "queued" =>
            /\ Turn(c) /\ open /\ call[c].kind \notin {"none", "close"}
    /\ (\A c \in Callers : call[c].pc = "queued") => db = disk

DataOK ==
    /\ Good(db) /\ Good(disk)
    /\ RoundTo(disk, db) \/ ReserveTo(disk, db)
    /\ call[Scheduler].pc # "queued" => RoundTo(disk, db) /\ SameDrains(disk, db)

(* A submission has a row once it has run, and none before. *)
SubmitsOK ==
    /\ \A c \in Callers : call[c].kind = "submit" =>
            /\ call[c].pc = "queued" => db.row[call[c].work].status = "absent"
            /\ call[c].pc = "commit" => Placed(db, call[c].work)
    /\ \A b, c \in Callers :
            call[b].kind = "submit" /\ call[c].kind = "submit"
                /\ call[b].work = call[c].work => b = c

(* What has changed at the end of a request that ends work is over. *)
OversOK ==
    \A c \in Callers : call[c].kind \in OverKinds /\ call[c].pc = "commit" =>
        db = disk \/ Final(db.row[call[c].work])

TokenOf(d, x) == [work |-> x, worker |-> d.row[x].worker, lease |-> d.row[x].lease]

IssuedOK ==
    /\ issued \subseteq [work : Work, worker : Workers, lease : Nat]
    /\ \A t \in issued : t.work \in Work /\ t.worker \in Workers /\ t.lease \in Nat
                            /\ t.lease < disk.next
    /\ \A x \in Work : Held(disk.row[x]) => TokenOf(disk, x) \in issued

ToldOK ==
    \A m \in told :
        /\ m[2] \in Work
        /\ IF m[1] = "over" THEN Final(disk.row[m[2]]) ELSE Placed(disk, m[2])

IInv == CallsOK /\ ChainOK /\ DataOK /\ SubmitsOK /\ OversOK /\ IssuedOK /\ ToldOK
----------------------------------------------------------------------------
(* Updates of a database, field by field *)

LEMMA SetRowIs ==
    ASSUME NEW d \in Database, NEW x \in Work, NEW r \in Row
    PROVE  /\ SetRow(d, x, r) \in Database
           /\ SetRow(d, x, r).row = [d.row EXCEPT ![x] = r]
           /\ SetRow(d, x, r).workers = d.workers
           /\ SetRow(d, x, r).fence = d.fence
           /\ SetRow(d, x, r).next = d.next
  <1> DEFINE v == [d.row EXCEPT ![x] = r]
  <1>1. SetRow(d, x, r) = [d EXCEPT !.row = v]
    BY DEF SetRow, Database
  <1>2. v \in [Work -> Row]
    BY DEF Database
  <1> HIDE DEF v
  <1>3. /\ [d EXCEPT !.row = v] \in Database
        /\ [d EXCEPT !.row = v].row = v
        /\ [d EXCEPT !.row = v].workers = d.workers
        /\ [d EXCEPT !.row = v].fence = d.fence
        /\ [d EXCEPT !.row = v].next = d.next
    BY <1>2 DEF Database
  <1> QED
    BY <1>1, <1>3 DEF v

LEMMA SetRowsIs ==
    ASSUME NEW d \in Database, NEW v \in [Work -> Row]
    PROVE  /\ [d EXCEPT !.row = v] \in Database
           /\ [d EXCEPT !.row = v].row = v
           /\ [d EXCEPT !.row = v].workers = d.workers
           /\ [d EXCEPT !.row = v].fence = d.fence
           /\ [d EXCEPT !.row = v].next = d.next
  BY DEF Database

WorkerRow == [status : {"absent", "online", "offline"}, drain : BOOLEAN, age : Nat]

LEMMA SetWorkersIs ==
    ASSUME NEW d \in Database, NEW v \in [Workers -> WorkerRow]
    PROVE  /\ [d EXCEPT !.workers = v] \in Database
           /\ [d EXCEPT !.workers = v].row = d.row
           /\ [d EXCEPT !.workers = v].workers = v
           /\ [d EXCEPT !.workers = v].fence = d.fence
           /\ [d EXCEPT !.workers = v].next = d.next
  BY DEF Database, WorkerRow

LEMMA SetNextIs ==
    ASSUME NEW d \in Database, NEW n \in Nat
    PROVE  /\ [d EXCEPT !.next = n] \in Database
           /\ [d EXCEPT !.next = n].row = d.row
           /\ [d EXCEPT !.next = n].workers = d.workers
           /\ [d EXCEPT !.next = n].fence = d.fence
           /\ [d EXCEPT !.next = n].next = n
  BY DEF Database

LEMMA ReleasedIs ==
    ASSUME NEW r, r.count \in Nat, NEW s \in Status
    PROVE  /\ Released(r, s) \in Row /\ Released(r, s).status = s
  BY DEF Released, Row

----------------------------------------------------------------------------
(* A row moves on without being given a lease. *)
Moves(q, r) ==
    /\ Held(r) => /\ Held(q) /\ r.worker = q.worker /\ r.gpu = q.gpu
                  /\ r.lease = q.lease
    /\ r.status = "absent" <=> q.status = "absent"
    /\ Final(q) => Final(r)

LEMMA StatusParts ==
    ASSUME NEW r
    PROVE  /\ Held(r) => ~Final(r) /\ ~Pending(r) /\ r.status # "absent"
           /\ Final(r) => ~Held(r) /\ ~Pending(r) /\ r.status # "absent"
           /\ Pending(r) => ~Held(r) /\ ~Final(r) /\ r.status # "absent"
           /\ r.status = "absent" => ~Held(r) /\ ~Final(r) /\ ~Pending(r)
  BY DEF Held, Final, Pending, JobHeld, SessionHeld, FinalStatus

(* If every row moves on like that, the database stays well formed. *)
LEMMA MovesGood ==
    ASSUME NEW d, Good(d), NEW e \in Database, e.next = d.next, e.fence = d.fence,
           \A x \in Work : Moves(d.row[x], e.row[x])
    PROVE  Good(e) /\ RoundTo(d, e)
  <1>1. d \in Database /\ d.next \in Nat
    BY DEF Good, Database
  <1>2. \A x \in Work : Held(e.row[x]) => Kept(d, e, x)
    BY DEF Moves, Kept
  <1>3. Good(e)
    BY <1>2 DEF Good, Kept, Moves
  <1>4. RoundTo(d, e)
    BY <1>1, <1>2 DEF RoundTo, Moves
  <1> QED
    BY <1>3, <1>4

LEMMA MovesSame ==
    ASSUME NEW q  PROVE Moves(q, q)
  BY DEF Moves

LEMMA RoundSame ==
    ASSUME NEW d, Good(d)  PROVE RoundTo(d, d)
  BY MovesSame, MovesGood DEF Good

(* The same for one row. *)
LEMMA MoveRow ==
    ASSUME NEW d, Good(d), NEW x \in Work, NEW r \in Row, Moves(d.row[x], r)
    PROVE  Good(SetRow(d, x, r)) /\ RoundTo(d, SetRow(d, x, r))
  <1> DEFINE e == SetRow(d, x, r)
  <1>1. /\ d \in Database /\ e \in Database /\ e.row = [d.row EXCEPT ![x] = r]
        /\ e.next = d.next /\ e.fence = d.fence
    BY SetRowIs DEF Good
  <1> HIDE DEF e
  <1>2. d.row \in [Work -> Row]
    BY <1>1 DEF Database
  <1>3. \A y \in Work : Moves(d.row[y], e.row[y])
    BY <1>1, <1>2, MovesSame
  <1>4. Good(e) /\ RoundTo(d, e)
    BY <1>1, <1>3, MovesGood
  <1> QED
    BY <1>4 DEF e

----------------------------------------------------------------------------
(* Time *)

LEMMA AgedIs ==
    ASSUME NEW d \in Database
    PROVE  /\ Aged(d) \in Database
           /\ Aged(d).fence = d.fence /\ Aged(d).next = d.next
           /\ \A x \in Work :
                /\ Aged(d).row[x].status = d.row[x].status
                /\ Aged(d).row[x].worker = d.row[x].worker
                /\ Aged(d).row[x].gpu = d.row[x].gpu
                /\ Aged(d).row[x].lease = d.row[x].lease
           /\ \A w \in Workers : Aged(d).workers[w].drain = d.workers[w].drain
  <1> DEFINE R(x) == IF Held(d.row[x]) /\ d.row[x].ttl > 0 - MaxLag
                     THEN [d.row[x] EXCEPT !.ttl = d.row[x].ttl - 1] ELSE d.row[x]
             W(w) == IF d.workers[w].status # "absent"
                        /\ d.workers[w].age <= HeartbeatTimeout + MaxLag
                     THEN [d.workers[w] EXCEPT !.age = d.workers[w].age + 1]
                     ELSE d.workers[w]
             v == [x \in Work |-> R(x)]
             u == [w \in Workers |-> W(w)]
             e == [d EXCEPT !.row = v]
  <1>1. ASSUME NEW x \in Work
        PROVE  /\ R(x) \in Row /\ R(x).status = d.row[x].status
               /\ R(x).worker = d.row[x].worker /\ R(x).gpu = d.row[x].gpu
               /\ R(x).lease = d.row[x].lease
    <2>1. d.row[x] \in Row
      BY DEF Database
    <2> QED
      BY <2>1 DEF Row
  <1>2. ASSUME NEW w \in Workers
        PROVE  W(w) \in WorkerRow /\ W(w).drain = d.workers[w].drain
    <2>1. d.workers[w] \in WorkerRow
      BY DEF Database, WorkerRow
    <2> QED
      BY <2>1 DEF WorkerRow
  <1>3. Aged(d) = [e EXCEPT !.workers = u]
    BY DEF Aged, Database
  <1> HIDE DEF R, W
  <1>4. v \in [Work -> Row] /\ u \in [Workers -> WorkerRow]
    BY <1>1, <1>2
  <1>5. /\ e \in Database /\ e.row = v /\ e.fence = d.fence /\ e.next = d.next
    BY <1>4, SetRowsIs
  <1>6. /\ \A x \in Work : v[x] = R(x)
        /\ \A w \in Workers : u[w] = W(w)
    OBVIOUS
  <1> HIDE DEF e, v, u
  <1>7. /\ [e EXCEPT !.workers = u] \in Database
        /\ [e EXCEPT !.workers = u].row = e.row
        /\ [e EXCEPT !.workers = u].workers = u
        /\ [e EXCEPT !.workers = u].fence = e.fence
        /\ [e EXCEPT !.workers = u].next = e.next
    BY <1>4, <1>5, SetWorkersIs
  <1>8. /\ Aged(d) \in Database /\ Aged(d).row = v /\ Aged(d).workers = u
        /\ Aged(d).fence = d.fence /\ Aged(d).next = d.next
    BY <1>3, <1>5, <1>7
  <1> QED
    BY <1>1, <1>2, <1>6, <1>8

LEMMA AgedMoves ==
    ASSUME NEW d, Good(d)
    PROVE  /\ Good(Aged(d))
           /\ \A x \in Work : /\ Held(Aged(d).row[x]) <=> Held(d.row[x])
                              /\ Final(Aged(d).row[x]) <=> Final(d.row[x])
  <1>1. d \in Database
    BY DEF Good
  <1>2. \A x \in Work : /\ Held(Aged(d).row[x]) <=> Held(d.row[x])
                        /\ Final(Aged(d).row[x]) <=> Final(d.row[x])
                        /\ Moves(d.row[x], Aged(d).row[x])
    BY <1>1, AgedIs DEF Held, Final, Moves
  <1> QED
    BY <1>1, <1>2, AgedIs, MovesGood

LEMMA AgedRound ==
    ASSUME NEW d, NEW e, Good(d), Good(e), RoundTo(d, e)
    PROVE  RoundTo(Aged(d), Aged(e))
  <1>1. d \in Database /\ e \in Database
    BY DEF Good
  <1> DEFINE a == Aged(d)
             b == Aged(e)
  <1>2. /\ b.fence = a.fence /\ a.next <= b.next
    BY <1>1, AgedIs DEF RoundTo
  <1>3. ASSUME NEW x \in Work
        PROVE  /\ Held(b.row[x]) => Kept(a, b, x) \/ NewIn(a, b, x)
               /\ Final(a.row[x]) => Final(b.row[x])
               /\ b.row[x].status = "absent" => a.row[x].status = "absent"
    <2>1. /\ a.row[x].status = d.row[x].status /\ b.row[x].status = e.row[x].status
          /\ a.row[x].worker = d.row[x].worker /\ b.row[x].worker = e.row[x].worker
          /\ a.row[x].gpu = d.row[x].gpu /\ b.row[x].gpu = e.row[x].gpu
          /\ a.row[x].lease = d.row[x].lease /\ b.row[x].lease = e.row[x].lease
          /\ a.next = d.next /\ a.fence = d.fence
          /\ \A w \in Workers : a.workers[w].drain = d.workers[w].drain
      BY <1>1, AgedIs
    <2>2. /\ Held(a.row[x]) <=> Held(d.row[x])
          /\ Held(b.row[x]) <=> Held(e.row[x])
          /\ Final(a.row[x]) <=> Final(d.row[x])
          /\ Final(b.row[x]) <=> Final(e.row[x])
      BY AgedMoves
    <2> HIDE DEF a, b
    <2>3. Held(e.row[x]) => e.row[x].worker \in Workers
      BY DEF Good
    <2> QED
      BY <2>1, <2>2, <2>3 DEF RoundTo, Kept, NewIn
  <1> HIDE DEF a, b
  <1>4. RoundTo(a, b)
    BY <1>2, <1>3 DEF RoundTo
  <1> QED
    BY <1>4 DEF a, b

LEMMA AgedReserve ==
    ASSUME NEW d, NEW e, Good(d), Good(e), ReserveTo(d, e)
    PROVE  ReserveTo(Aged(d), Aged(e))
  <1>1. d \in Database /\ e \in Database
    BY DEF Good
  <1> DEFINE a == Aged(d)
             b == Aged(e)
  <1>2. a.row = b.row
    BY <1>1 DEF Aged, ReserveTo, Database
  <1>3. /\ b.next = a.next /\ a.fence = d.fence /\ b.fence = e.fence
        /\ \A x \in Work : /\ a.row[x].worker = d.row[x].worker
                           /\ a.row[x].gpu = d.row[x].gpu
                           /\ a.row[x].lease = d.row[x].lease
                           /\ Held(a.row[x]) <=> Held(d.row[x])
    BY <1>1, AgedIs, AgedMoves DEF ReserveTo
  <1> HIDE DEF a, b
  <1>4. ReserveTo(a, b)
    BY <1>2, <1>3 DEF ReserveTo
  <1> QED
    BY <1>4 DEF a, b
----------------------------------------------------------------------------
(* The statements *)

(* What every request but a submission does. *)
Tame(d, e) ==
    /\ Good(e)
    /\ RoundTo(d, e) \/ ReserveTo(d, e)
    /\ \A y \in Work : d.row[y].status = "absent" => e.row[y].status = "absent"

LEMMA TameSame ==
    ASSUME NEW d, Good(d)  PROVE Tame(d, d)
  BY RoundSame DEF Tame

LEMMA TameRow ==
    ASSUME NEW d, Good(d), NEW x \in Work, NEW r \in Row, Moves(d.row[x], r)
    PROVE  Tame(d, SetRow(d, x, r)) /\ SetRow(d, x, r).row[x] = r
  <1>1. d \in Database /\ d.row \in [Work -> Row]
    BY DEF Good, Database
  <1>2. SetRow(d, x, r).row = [d.row EXCEPT ![x] = r]
    BY <1>1, SetRowIs
  <1>3. \A y \in Work : d.row[y].status = "absent" => SetRow(d, x, r).row[y].status = "absent"
    BY <1>1, <1>2 DEF Moves
  <1> QED
    BY <1>1, <1>2, <1>3, MoveRow DEF Tame

LEMMA TameWorkers ==
    ASSUME NEW d, Good(d), NEW v \in [Workers -> WorkerRow]
    PROVE  Tame(d, [d EXCEPT !.workers = v])
  <1> DEFINE e == [d EXCEPT !.workers = v]
  <1>1. /\ d \in Database /\ e \in Database /\ e.row = d.row /\ e.fence = d.fence
        /\ e.next = d.next
    BY SetWorkersIs DEF Good
  <1> HIDE DEF e
  <1>2. Good(e) /\ RoundTo(d, e)
    BY <1>1, MovesSame, MovesGood
  <1>3. Tame(d, e)
    BY <1>1, <1>2 DEF Tame
  <1> QED
    BY <1>3 DEF e

LEMMA WorkerStatements ==
    ASSUME NEW d, Good(d), NEW o \in Ops, o.worker \in Workers
    PROVE  /\ Tame(d, UpsertWorker(d, o)) /\ Tame(d, UpdateWorkerHeartbeat(d, o))
           /\ \A drain \in BOOLEAN : Tame(d, SetWorkerDrain(d, o, drain))
  <1>1. d \in Database /\ d.workers \in [Workers -> WorkerRow] /\ o.lag \in Nat
    BY DEF Good, Database, WorkerRow, Ops
  <1> DEFINE w == o.worker
             a == [d.workers[w] EXCEPT !.status = "online"]
             b == [a EXCEPT !.age = o.lag]
             v == [d.workers EXCEPT ![w] = b]
  <1>2. a \in WorkerRow
    BY <1>1 DEF WorkerRow
  <1>3. Online(d, o) = [d EXCEPT !.workers = v]
    BY <1>1 DEF Online, Database, WorkerRow
  <1> HIDE DEF a
  <1>4. b \in WorkerRow
    BY <1>1, <1>2 DEF WorkerRow
  <1> HIDE DEF b
  <1>5. v \in [Workers -> WorkerRow]
    BY <1>1, <1>4
  <1> HIDE DEF v
  <1>6. Tame(d, Online(d, o))
    BY <1>3, <1>5, TameWorkers
  <1>7. ASSUME NEW drain \in BOOLEAN
        PROVE  Tame(d, SetWorkerDrain(d, o, drain))
    <2> DEFINE s == [d.workers[w] EXCEPT !.drain = drain]
               u == [d.workers EXCEPT ![w] = s]
    <2>1. s \in WorkerRow
      BY <1>1 DEF WorkerRow
    <2>2. [d EXCEPT !.workers[w].drain = drain] = [d EXCEPT !.workers = u]
      BY <1>1 DEF Database, WorkerRow
    <2> HIDE DEF s
    <2>3. u \in [Workers -> WorkerRow]
      BY <1>1, <2>1
    <2> HIDE DEF u
    <2>4. Tame(d, [d EXCEPT !.workers[w].drain = drain])
      BY <2>2, <2>3, TameWorkers
    <2> QED
      BY <2>4, TameSame DEF SetWorkerDrain
  <1> QED
    BY <1>6, <1>7, TameSame DEF UpsertWorker, UpdateWorkerHeartbeat

(* The lease holder's statements. *)
LEMMA AdvanceTame ==
    ASSUME NEW d, Good(d), NEW o \in Ops, o.work \in Work,
           NEW from \in SUBSET (JobHeld \cup SessionHeld), NEW to,
           OwnsLease(d, o, from) => to \in JobHeld \cup SessionHeld
    PROVE  Tame(d, Advance(d, o, from, to))
  <1>1. CASE ~OwnsLease(d, o, from)
    BY <1>1, TameSame DEF Advance
  <1>2. CASE OwnsLease(d, o, from)
    <2> DEFINE q == d.row[o.work]
               a == [q EXCEPT !.status = to]
               r == [a EXCEPT !.ttl = LeaseTtl - o.lag]
    <2>1. q \in Row /\ o.lag \in Nat /\ Held(q)
      BY <1>2 DEF Good, Database, Ops, OwnsLease, Held
    <2>2. Advance(d, o, from, to) = SetRow(d, o.work, r)
      BY <1>2, <2>1 DEF Advance, Row
    <2> HIDE DEF q
    <2>3. /\ a \in Row /\ a.status = to /\ a.worker = q.worker /\ a.gpu = q.gpu
          /\ a.lease = q.lease
      BY <1>2, <2>1 DEF Row, Status
    <2> HIDE DEF a
    <2>4. LeaseTtl - o.lag \in Int
      BY <2>1, SqliteAssumption
    <2>5. /\ r \in Row /\ r.status = to /\ r.worker = q.worker /\ r.gpu = q.gpu
          /\ r.lease = q.lease
      BY <2>3, <2>4 DEF Row
    <2> HIDE DEF r
    <2>6. Held(r)
      BY <1>2, <2>5 DEF Held
    <2>7. Moves(q, r)
      BY <2>1, <2>5, <2>6, StatusParts DEF Moves
    <2> QED
      BY <2>2, <2>5, <2>7, TameRow DEF q
  <1> QED
    BY <1>1, <1>2

LEMMA HolderStatements ==
    ASSUME NEW d, Good(d), NEW o \in Ops, o.work \in Work
    PROVE  /\ Tame(d, StartJob(d, o)) /\ Tame(d, RenewJob(d, o))
           /\ Tame(d, StartSession(d, o)) /\ Tame(d, ActivateSession(d, o))
           /\ Tame(d, RenewSession(d, o))
  <1>1. OwnsLease(d, o, SessionHeld) => d.row[o.work].status \in SessionHeld
    BY DEF OwnsLease
  <1>2. {"leased"} \in SUBSET (JobHeld \cup SessionHeld)
        /\ "running" \in JobHeld \cup SessionHeld
    BY DEF JobHeld
  <1>3. {"running"} \in SUBSET (JobHeld \cup SessionHeld)
    BY DEF JobHeld
  <1>4. /\ {"allocated"} \in SUBSET (JobHeld \cup SessionHeld)
        /\ {"connecting"} \in SUBSET (JobHeld \cup SessionHeld)
        /\ "connecting" \in JobHeld \cup SessionHeld
        /\ "active" \in JobHeld \cup SessionHeld
    BY DEF SessionHeld
  <1>5. Tame(d, StartJob(d, o)) /\ Tame(d, RenewJob(d, o))
    BY <1>2, <1>3, AdvanceTame DEF StartJob, RenewJob
  <1>6. Tame(d, StartSession(d, o)) /\ Tame(d, ActivateSession(d, o))
    BY <1>4, AdvanceTame DEF StartSession, ActivateSession
  <1>7. Tame(d, RenewSession(d, o))
    BY <1>1, AdvanceTame DEF RenewSession
  <1> QED
    BY <1>5, <1>6, <1>7

(* Work ends: the row becomes final, or the statement has no effect. *)
Ends(d, e, x) == Tame(d, e) /\ (e = d \/ Final(e.row[x]))

LEMMA NoTtl ==
    ASSUME NEW a \in Row
    PROVE  [a EXCEPT !.ttl = 0] \in Row /\ [a EXCEPT !.ttl = 0].status = a.status
  BY DEF Row

LEMMA EndRow ==
    ASSUME NEW d, Good(d), NEW x \in Work, NEW s \in FinalStatus,
           d.row[x].status # "absent", NEW a, NEW r,
           a = [d.row[x] EXCEPT !.status = s], r = [a EXCEPT !.ttl = 0]
    PROVE  Ends(d, SetRow(d, x, r), x)
  <1>1. d.row[x] \in Row
    BY DEF Good, Database
  <1>2. a \in Row /\ a.status = s
    BY <1>1 DEF Row, Status
  <1>3. r \in Row /\ r.status = s
    BY <1>2, NoTtl
  <1>4. Final(r)
    BY <1>3 DEF Final
  <1>5. Moves(d.row[x], r)
    BY <1>4, StatusParts DEF Moves
  <1> QED
    BY <1>3, <1>4, <1>5, TameRow DEF Ends

LEMMA EndStatements ==
    ASSUME NEW d, Good(d), NEW o \in Ops, o.work \in Work
    PROVE  /\ o.kind \in {"succeeded", "failed"} => Ends(d, FinishJob(d, o), o.work)
           /\ Ends(d, CancelJob(d, o), o.work)
           /\ Ends(d, CloseSession(d, o), o.work)
  <1>0. d.row[o.work] \in Row
    BY DEF Good, Database
  <1>1. Ends(d, d, o.work)
    BY TameSame DEF Ends
  <1>2. ASSUME o.kind \in {"succeeded", "failed"}, OwnsLease(d, o, JobHeld)
        PROVE  Ends(d, FinishJob(d, o), o.work)
    <2> DEFINE a == [d.row[o.work] EXCEPT !.status = o.kind]
               r == [a EXCEPT !.ttl = 0]
    <2>1. o.kind \in FinalStatus /\ d.row[o.work].status # "absent"
      BY <1>2 DEF FinalStatus, OwnsLease, JobHeld
    <2>2. FinishJob(d, o) = SetRow(d, o.work, r)
      BY <1>0, <1>2 DEF FinishJob, Row
    <2> QED
      BY <2>1, <2>2, EndRow
  <1>3. ASSUME d.row[o.work].status \in {"queued"} \cup JobHeld
        PROVE  Ends(d, CancelJob(d, o), o.work)
    <2> DEFINE a == [d.row[o.work] EXCEPT !.status = "cancelled"]
               r == [a EXCEPT !.ttl = 0]
    <2>1. "cancelled" \in FinalStatus /\ d.row[o.work].status # "absent"
      BY <1>3 DEF FinalStatus, JobHeld
    <2>2. CancelJob(d, o) = SetRow(d, o.work, r)
      BY <1>0, <1>3 DEF CancelJob, Row
    <2> QED
      BY <2>1, <2>2, EndRow
  <1>4. ASSUME d.row[o.work].status \in {"requested"} \cup SessionHeld
        PROVE  Ends(d, CloseSession(d, o), o.work)
    <2> DEFINE r == Released(d.row[o.work], "closed")
    <2>1. CloseSession(d, o) = SetRow(d, o.work, r)
      BY <1>4 DEF CloseSession
    <2>2. r \in Row /\ r.status = "closed"
      BY <1>0, ReleasedIs DEF Row, Status, FinalStatus
    <2> HIDE DEF r
    <2>3. Final(r) /\ d.row[o.work].status # "absent"
      BY <1>4, <2>2 DEF Final, FinalStatus, SessionHeld
    <2>4. Moves(d.row[o.work], r)
      BY <2>3, StatusParts DEF Moves
    <2> QED
      BY <2>1, <2>2, <2>3, <2>4, TameRow DEF Ends
  <1> QED
    BY <1>1, <1>2, <1>3, <1>4 DEF FinishJob, CancelJob, CloseSession

(* A submission gets a row, or its key has one. *)
Submits(d, e, x) ==
    /\ Good(e) /\ RoundTo(d, e) /\ Placed(e, x)
    /\ \A y \in Work : y # x => e.row[y] = d.row[y]

LEMMA SubmitRow ==
    ASSUME NEW d, Good(d), NEW x \in Work, d.row[x].status = "absent",
           NEW s \in {"queued", "requested"}, NEW e,
           e = SetRow(d, x, Released([count |-> 0], s)),
           \A y \in Work : SameTable(x, y) /\ SameKey(x, y) => d.row[y].status = "absent"
    PROVE  Submits(d, e, x)
  <1> DEFINE r == Released([count |-> 0], s)
  <1>1. r \in Row /\ r.status = s
    BY ReleasedIs DEF Status
  <1>2. d \in Database /\ d.row \in [Work -> Row] /\ d.next \in Nat
    BY DEF Good, Database
  <1>3. /\ e \in Database /\ e.row = [d.row EXCEPT ![x] = r]
        /\ e.fence = d.fence /\ e.next = d.next
    BY <1>1, <1>2, SetRowIs
  <1> HIDE DEF r
  <1>4. e.row[x] = r /\ \A y \in Work : y # x => e.row[y] = d.row[y]
    BY <1>2, <1>3
  <1>5. Pending(r) /\ ~Held(r) /\ ~Final(r) /\ r.status # "absent"
    <2>1. Pending(r)
      BY <1>1 DEF Pending
    <2> QED
      BY <2>1, StatusParts
  <1>6. ~Final(d.row[x]) /\ ~Held(d.row[x])
    BY StatusParts
  <1>7. \A y, z \in Work :
            /\ SameTable(y, z) /\ SameKey(y, z)
            /\ e.row[y].status # "absent" /\ e.row[z].status # "absent"
            => y = z
    BY <1>4 DEF Good, SameTable, SameKey
  <1>8. Good(e)
    <2>1. \A y \in Work : Held(e.row[y]) => y # x /\ e.row[y] = d.row[y]
      BY <1>4, <1>5
    <2> QED
      BY <1>3, <1>7, <2>1 DEF Good
  <1>9. RoundTo(d, e)
    BY <1>2, <1>3, <1>4, <1>5, <1>6 DEF RoundTo, Kept
  <1>10. Placed(e, x)
    BY <1>4, <1>5 DEF Placed, SameTable
  <1> QED
    BY <1>4, <1>8, <1>9, <1>10 DEF Submits

LEMMA SubmitStatements ==
    ASSUME NEW d, Good(d), NEW o \in Ops, o.work \in Work,
           d.row[o.work].status = "absent"
    PROVE  /\ o.work \in Jobs => Submits(d, InsertJob(d, o), o.work)
           /\ o.work \notin Jobs => Submits(d, InsertSession(d, o), o.work)
  <1>1. ASSUME NEW y \in Work, SameTable(o.work, y), d.row[y].status # "absent",
               SameKey(o.work, y)
        PROVE  Submits(d, d, o.work)
    <2>1. Placed(d, o.work)
      BY <1>1 DEF Placed, SameKey
    <2> QED
      BY <2>1, RoundSame DEF Submits
  <1>2. CASE o.work \in Jobs
    <2>1. \A y \in Work : SameTable(o.work, y) <=> y \in Jobs
      BY <1>2 DEF SameTable
    <2>2. CASE \E y \in Jobs : d.row[y].status # "absent" /\ SameKey(o.work, y)
      BY <1>1, <1>2, <2>1, <2>2 DEF InsertJob, Work
    <2>3. CASE ~\E y \in Jobs : d.row[y].status # "absent" /\ SameKey(o.work, y)
      <3>1. InsertJob(d, o) = SetRow(d, o.work, Released([count |-> 0], "queued"))
        BY <2>3 DEF InsertJob
      <3> QED
        BY <1>2, <2>1, <2>3, <3>1, SubmitRow
    <2> QED
      BY <2>2, <2>3
  <1>3. CASE o.work \notin Jobs
    <2>1. \A y \in Work : SameTable(o.work, y) <=> y \in Sessions
      BY <1>3, SqliteAssumption DEF SameTable, Work
    <2>2. CASE \E y \in Sessions : d.row[y].status # "absent" /\ SameKey(o.work, y)
      BY <1>1, <1>3, <2>1, <2>2 DEF InsertSession, Work
    <2>3. CASE ~\E y \in Sessions : d.row[y].status # "absent" /\ SameKey(o.work, y)
      <3>1. InsertSession(d, o) = SetRow(d, o.work, Released([count |-> 0], "requested"))
        BY <2>3 DEF InsertSession
      <3> QED
        BY <1>3, <2>1, <2>3, <3>1, SubmitRow
    <2> QED
      BY <2>2, <2>3
  <1> QED
    BY <1>2, <1>3
LEMMA ReserveStatement ==
    ASSUME NEW d, Good(d), NEW o \in Ops, o.work \in Work, o.worker \in Workers
    PROVE  Tame(d, ReserveExecutionAttempt(d, o))
  <1> DEFINE x == o.work
             p == <<o.worker, d.row[x].gpu>>
             e == [d EXCEPT !.fence[p] = o.lease]
             q == <<d.row[x].worker, d.row[x].gpu>>
             f == [d.fence EXCEPT ![q] = d.row[x].lease]
  <1>1. \/ ReserveExecutionAttempt(d, o) = d
        \/ /\ ReserveExecutionAttempt(d, o) = e /\ d.fence[p] = 0
           /\ OwnsLease(d, o, JobHeld \cup SessionHeld)
    BY DEF ReserveExecutionAttempt
  <1>2. ASSUME d.fence[p] = 0, OwnsLease(d, o, JobHeld \cup SessionHeld)
        PROVE  Tame(d, e)
    <2>1. d \in Database /\ d.fence \in [Workers \X Gpus -> Nat] /\ d.row[x] \in Row
      BY DEF Good, Database
    <2>2. Held(d.row[x]) /\ d.row[x].worker = o.worker /\ d.row[x].lease = o.lease
      BY <1>2 DEF OwnsLease, Held
    <2>3. q \in Workers \X Gpus /\ d.row[x].lease \in Nat
      BY <2>1, <2>2 DEF Good, Row
    <2>4. e = [d EXCEPT !.fence = f]
      BY <2>1, <2>2 DEF Database
    <2>5. f \in [Workers \X Gpus -> Nat]
      BY <2>1, <2>3
    <2> HIDE DEF f, e
    <2>6. /\ e \in Database /\ e.row = d.row /\ e.next = d.next /\ e.fence = f
      BY <2>1, <2>4, <2>5 DEF Database
    <2>7. Good(e)
      BY <2>6 DEF Good
    <2>8. ReserveTo(d, e)
      BY <1>2, <2>2, <2>6 DEF ReserveTo, f
    <2> QED
      BY <2>6, <2>7, <2>8 DEF Tame
  <1> QED
    BY <1>1, <1>2, TameSame

(* All requests. *)
LEMMA StatementStep ==
    ASSUME NEW d, Good(d), NEW o \in Ops, o.kind \in RequestKinds,
           o.kind \in WorkerKinds \cup HolderKinds => o.worker \in Workers,
           o.kind \in HolderKinds \cup ClientKinds => o.work \in Work,
           o.kind = "submit" => d.row[o.work].status = "absent"
    PROVE  /\ o.kind # "submit" => Tame(d, Statement(d, o))
           /\ o.kind = "submit" => Submits(d, Statement(d, o), o.work)
           /\ o.kind \in OverKinds =>
                Statement(d, o) = d \/ Final(Statement(d, o).row[o.work])
  <1> DEFINE S == Statement(d, o)
  <1>1. CASE o.kind \in WorkerKinds
    <2>1. \/ o.kind = "register" /\ S = UpsertWorker(d, o)
          \/ o.kind = "heartbeat" /\ S = UpdateWorkerHeartbeat(d, o)
          \/ o.kind = "drain" /\ S = SetWorkerDrain(d, o, TRUE)
          \/ o.kind = "resume" /\ S = SetWorkerDrain(d, o, FALSE)
      BY <1>1 DEF WorkerKinds, Statement
    <2>2. o.kind # "submit" /\ o.kind \notin OverKinds
      BY <1>1 DEF WorkerKinds, OverKinds
    <2> HIDE DEF S
    <2>3. Tame(d, S)
      BY <1>1, <2>1, WorkerStatements
    <2> QED
      BY <2>2, <2>3 DEF S
  <1>2. CASE o.kind \in {"start", "activate", "renew", "reserve"}
    <2>1. \/ S = StartJob(d, o) \/ S = StartSession(d, o) \/ S = ActivateSession(d, o)
          \/ S = RenewJob(d, o) \/ S = RenewSession(d, o)
          \/ S = ReserveExecutionAttempt(d, o)
      BY <1>2 DEF Statement
    <2>2. /\ o.kind \in HolderKinds
          /\ o.kind # "submit" /\ o.kind \notin OverKinds
      BY <1>2 DEF HolderKinds, OverKinds
    <2> HIDE DEF S
    <2>3. Tame(d, S)
      BY <2>1, <2>2, HolderStatements, ReserveStatement
    <2> QED
      BY <2>2, <2>3 DEF S
  <1>3. CASE o.kind \in OverKinds
    <2>1. \/ S = FinishJob(d, o) /\ o.kind \in {"succeeded", "failed"}
          \/ S = CancelJob(d, o) \/ S = CloseSession(d, o)
      BY <1>3 DEF OverKinds, Statement
    <2>2. o.work \in Work /\ o.kind # "submit"
      BY <1>3 DEF OverKinds, HolderKinds, ClientKinds
    <2> HIDE DEF S
    <2>3. Ends(d, S, o.work)
      BY <2>1, <2>2, EndStatements
    <2> QED
      BY <2>2, <2>3 DEF S, Ends
  <1>4. CASE o.kind = "submit"
    <2>1. /\ o.work \in Jobs => S = InsertJob(d, o)
          /\ o.work \notin Jobs => S = InsertSession(d, o)
      BY <1>4 DEF Statement
    <2>2. o.work \in Work /\ o.kind \notin OverKinds
      BY <1>4 DEF OverKinds, ClientKinds
    <2> HIDE DEF S
    <2>3. Submits(d, S, o.work)
      BY <1>4, <2>1, <2>2, SubmitStatements
    <2> QED
      BY <1>4, <2>2, <2>3 DEF S
  <1> QED
    BY <1>1, <1>2, <1>3, <1>4 DEF RequestKinds, WorkerKinds, HolderKinds, ClientKinds,
       OverKinds

----------------------------------------------------------------------------
(* The pass *)

(* Its recovery statements only let rows move on. *)
Recovered(d, lag) ==
    LET stale == StaleWorkers(d, lag)
    IN  RecoverInterruptedSessions(
            RecoverExpiredJobs(MarkStaleWorkersOffline(d, lag), lag, stale), lag, stale)

LEMMA MarkIs ==
    ASSUME NEW d \in Database, NEW lag \in Nat
    PROVE  LET e == MarkStaleWorkersOffline(d, lag)
           IN  /\ e \in Database /\ e.row = d.row /\ e.fence = d.fence /\ e.next = d.next
               /\ SameDrains(d, e)
  <1> DEFINE W(w) == IF w \in StaleWorkers(d, lag)
                     THEN [d.workers[w] EXCEPT !.status = "offline"] ELSE d.workers[w]
             v == [w \in Workers |-> W(w)]
  <1>1. MarkStaleWorkersOffline(d, lag) = [d EXCEPT !.workers = v]
    BY DEF MarkStaleWorkersOffline
  <1>2. ASSUME NEW w \in Workers
        PROVE  W(w) \in WorkerRow /\ W(w).drain = d.workers[w].drain
    <2>1. d.workers[w] \in WorkerRow
      BY DEF Database, WorkerRow
    <2> QED
      BY <2>1 DEF WorkerRow
  <1> HIDE DEF W
  <1>3. v \in [Workers -> WorkerRow] /\ \A w \in Workers : v[w] = W(w)
    BY <1>2
  <1> HIDE DEF v
  <1> DEFINE e == [d EXCEPT !.workers = v]
  <1>4. /\ e \in Database /\ e.row = d.row /\ e.fence = d.fence /\ e.next = d.next
        /\ e.workers = v
    BY <1>3, SetWorkersIs
  <1> HIDE DEF e
  <1>5. SameDrains(d, e)
    BY <1>2, <1>3, <1>4 DEF SameDrains
  <1>6. MarkStaleWorkersOffline(d, lag) = e
    BY <1>1 DEF e
  <1> QED
    BY <1>4, <1>5, <1>6

LEMMA RecoverIs ==
    ASSUME NEW d \in Database, NEW lag \in Nat, NEW stale, NEW e,
           \/ e = RecoverExpiredJobs(d, lag, stale)
           \/ e = RecoverInterruptedSessions(d, lag, stale)
    PROVE  /\ e \in Database /\ e.workers = d.workers /\ e.fence = d.fence
           /\ e.next = d.next /\ \A x \in Work : Moves(d.row[x], e.row[x])
  <1> DEFINE J(x) == IF x \in Jobs /\ Lost(d, x, lag, stale, JobHeld)
                     THEN Released(d.row[x], IF d.row[x].count >= MaxAttempts
                                             THEN "failed" ELSE "queued")
                     ELSE d.row[x]
             n(x) == d.row[x].count + 1
             I(x) == IF x \in Sessions /\ Lost(d, x, lag, stale, SessionHeld)
                     THEN Released([count |-> n(x)],
                                   IF n(x) <= MaxInterruptions THEN "requested"
                                                               ELSE "interrupted")
                     ELSE d.row[x]
  <1>1. ASSUME NEW x \in Work, NEW r, r.count \in Nat,
               NEW s \in {"failed", "queued", "requested", "interrupted"}, Held(d.row[x])
        PROVE  Released(r, s) \in Row /\ Moves(d.row[x], Released(r, s))
    <2>1. Released(r, s) \in Row /\ Released(r, s).status = s
      BY <1>1, ReleasedIs DEF Status, FinalStatus
    <2>2. ~Held(Released(r, s)) /\ Released(r, s).status # "absent"
      BY <2>1 DEF Held, JobHeld, SessionHeld
    <2> QED
      BY <1>1, <2>1, <2>2, StatusParts DEF Moves
  <1>2. ASSUME NEW x \in Work
        PROVE  J(x) \in Row /\ Moves(d.row[x], J(x))
    <2>1. d.row[x] \in Row /\ d.row[x].count \in Nat
      BY DEF Database, Row
    <2>2. CASE x \in Jobs /\ Lost(d, x, lag, stale, JobHeld)
      <3>1. Held(d.row[x])
        BY <2>2 DEF Lost, Held
      <3> QED
        BY <1>1, <2>1, <2>2, <3>1
    <2> QED
      BY <2>1, <2>2, MovesSame
  <1>3. ASSUME NEW x \in Work
        PROVE  I(x) \in Row /\ Moves(d.row[x], I(x))
    <2>1. d.row[x] \in Row /\ d.row[x].count \in Nat
      BY DEF Database, Row
    <2>2. CASE x \in Sessions /\ Lost(d, x, lag, stale, SessionHeld)
      <3>1. Held(d.row[x])
        BY <2>2 DEF Lost, Held
      <3>2. [count |-> n(x)].count \in Nat
        BY <2>1
      <3> QED
        BY <1>1, <2>2, <3>1, <3>2
    <2> QED
      BY <2>1, <2>2, MovesSame
  <1>4. ASSUME NEW v \in [Work -> Row], \A x \in Work : Moves(d.row[x], v[x]),
               e = [d EXCEPT !.row = v]
        PROVE  /\ e \in Database /\ e.workers = d.workers /\ e.fence = d.fence
               /\ e.next = d.next /\ \A x \in Work : Moves(d.row[x], e.row[x])
    BY <1>4, SetRowsIs
  <1>5. CASE e = RecoverExpiredJobs(d, lag, stale)
    <2> DEFINE v == [x \in Work |-> J(x)]
    <2>1. e = [d EXCEPT !.row = v]
      BY <1>5 DEF RecoverExpiredJobs
    <2> HIDE DEF J
    <2>2. v \in [Work -> Row] /\ \A x \in Work : Moves(d.row[x], v[x])
      BY <1>2
    <2> HIDE DEF v
    <2> QED
      BY <1>4, <2>1, <2>2
  <1>6. CASE e = RecoverInterruptedSessions(d, lag, stale)
    <2> DEFINE v == [x \in Work |-> I(x)]
    <2>1. e = [d EXCEPT !.row = v]
      BY <1>6 DEF RecoverInterruptedSessions
    <2> HIDE DEF I
    <2>2. v \in [Work -> Row] /\ \A x \in Work : Moves(d.row[x], v[x])
      BY <1>3
    <2> HIDE DEF v
    <2> QED
      BY <1>4, <2>1, <2>2
  <1> QED
    BY <1>5, <1>6

LEMMA MovesTwice ==
    ASSUME NEW q, NEW r, NEW s, Moves(q, r), Moves(r, s)
    PROVE  Moves(q, s)
  BY DEF Moves

LEMMA RecoveredTame ==
    ASSUME NEW d, Good(d), NEW lag \in Nat
    PROVE  LET e == Recovered(d, lag)
           IN  Tame(d, e) /\ RoundTo(d, e) /\ SameDrains(d, e)
  <1> DEFINE stale == StaleWorkers(d, lag)
             a == MarkStaleWorkersOffline(d, lag)
             b == RecoverExpiredJobs(a, lag, stale)
             e == RecoverInterruptedSessions(b, lag, stale)
  <1>1. d \in Database
    BY DEF Good
  <1>2. /\ a \in Database /\ a.row = d.row /\ a.fence = d.fence /\ a.next = d.next
        /\ SameDrains(d, a)
    BY <1>1, MarkIs
  <1> HIDE DEF a, stale
  <1>3. /\ b \in Database /\ b.workers = a.workers /\ b.fence = a.fence
        /\ b.next = a.next /\ \A x \in Work : Moves(a.row[x], b.row[x])
    BY <1>2, RecoverIs
  <1> HIDE DEF b
  <1>4. /\ e \in Database /\ e.workers = b.workers /\ e.fence = b.fence
        /\ e.next = b.next /\ \A x \in Work : Moves(b.row[x], e.row[x])
    BY <1>3, RecoverIs
  <1> HIDE DEF e
  <1>5. \A x \in Work : Moves(d.row[x], e.row[x])
    BY <1>2, <1>3, <1>4, MovesTwice
  <1>6. e.fence = d.fence /\ e.next = d.next /\ SameDrains(d, e)
    BY <1>2, <1>3, <1>4 DEF SameDrains
  <1>7. Good(e) /\ RoundTo(d, e)
    BY <1>4, <1>5, <1>6, MovesGood
  <1>8. Tame(d, e)
    BY <1>5, <1>7 DEF Tame, Moves
  <1>9. Recovered(d, lag) = e
    BY DEF Recovered, e, b, a, stale
  <1> QED
    BY <1>6, <1>7, <1>8, <1>9
(* It gives pending work the next lease id, on a GPU nobody holds. *)
GivenIn(k, d, e) ==
    /\ Good(e) /\ RoundTo(k, e) /\ SameDrains(k, e)
    /\ \A y \in Work : d.row[y].status = "absent" => e.row[y].status = "absent"

LEMMA AssignRowIs ==
    ASSUME NEW k, Good(k), NEW d, Good(d), RoundTo(k, d), SameDrains(k, d),
           NEW x \in Work, Pending(d.row[x]), NEW p \in Workers \X Gpus,
           ~d.workers[p[1]].drain, p \notin Blocked(d), p[2] \notin Occupied(d),
           NEW s \in {"leased", "allocated"}, NEW n \in Nat, NEW lag \in Nat,
           NEW e, e = AssignRow(d, x, p, s, n, lag)
    PROVE  GivenIn(k, d, e)
  <1> DEFINE r == [status |-> s, worker |-> p[1], gpu |-> p[2], lease |-> d.next,
                   ttl |-> LeaseTtl - lag, count |-> n]
             a == [d EXCEPT !.next = d.next + 1]
  <1>1. d \in Database /\ d.next \in Nat /\ k \in Database /\ k.next \in Nat
    BY DEF Good, Database
  <1>2. /\ a \in Database /\ a.row = d.row /\ a.workers = d.workers /\ a.fence = d.fence
        /\ a.next = d.next + 1
    BY <1>1, SetNextIs
  <1>3. e = SetRow(a, x, r)
    BY <1>1 DEF AssignRow, SetRow, Database
  <1>4. p[1] \in Workers /\ p[2] \in Gpus /\ p = <<p[1], p[2]>>
    OBVIOUS
  <1>5. /\ r \in Row /\ r.status = s /\ r.worker = p[1] /\ r.gpu = p[2]
        /\ r.lease = d.next
    BY <1>1, <1>4, SqliteAssumption DEF Row, Status, JobHeld, SessionHeld
  <1> HIDE DEF a, r
  <1>6. /\ e \in Database /\ e.row = [d.row EXCEPT ![x] = r] /\ e.workers = d.workers
        /\ e.fence = d.fence /\ e.next = d.next + 1
    BY <1>2, <1>3, <1>5, SetRowIs
  <1>7. d.row \in [Work -> Row]
    BY <1>1 DEF Database
  <1>8. e.row[x] = r /\ \A y \in Work : y # x => e.row[y] = d.row[y]
    BY <1>6, <1>7
  <1>9. Held(r)
    BY <1>5 DEF Held, JobHeld, SessionHeld
  <1>10. \A y \in Work : Held(d.row[y]) => /\ d.row[y].gpu # p[2]
                                           /\ d.row[y].lease \in Nat
                                           /\ d.row[y].lease < d.next
    BY <1>7 DEF Occupied, Good, Row
  <1>11. Good(e)
    <2>1. \A y \in Work : Held(e.row[y]) =>
            /\ e.row[y].worker \in Workers /\ e.row[y].gpu \in Gpus
            /\ e.row[y].lease # 0 /\ e.row[y].lease < e.next
      <3> SUFFICES ASSUME NEW y \in Work, Held(e.row[y])
                   PROVE  /\ e.row[y].worker \in Workers /\ e.row[y].gpu \in Gpus
                          /\ e.row[y].lease # 0 /\ e.row[y].lease < e.next
        OBVIOUS
      <3>1. CASE y = x
        BY <1>1, <1>4, <1>5, <1>6, <1>8, <3>1 DEF Good
      <3>2. CASE y # x
        BY <1>1, <1>6, <1>8, <1>10, <3>2 DEF Good
      <3> QED
        BY <3>1, <3>2
    <2>2. \A y, z \in Work :
            Held(e.row[y]) /\ Held(e.row[z]) /\ y # z =>
                e.row[y].gpu # e.row[z].gpu /\ e.row[y].lease # e.row[z].lease
      <3> SUFFICES ASSUME NEW y \in Work, NEW z \in Work,
                          Held(e.row[y]), Held(e.row[z]), y # z
                   PROVE  e.row[y].gpu # e.row[z].gpu /\ e.row[y].lease # e.row[z].lease
        OBVIOUS
      <3>1. CASE y = x
        BY <1>1, <1>5, <1>8, <1>10, <3>1
      <3>2. CASE z = x
        BY <1>1, <1>5, <1>8, <1>10, <3>2
      <3>3. CASE y # x /\ z # x
        BY <1>8, <3>3 DEF Good
      <3> QED
        BY <3>1, <3>2, <3>3
    <2>3. \A y \in Work : e.row[y].status = "absent" <=> d.row[y].status = "absent"
      BY <1>8, <1>9, StatusParts
    <2>4. \A y, z \in Work :
            /\ SameTable(y, z) /\ SameKey(y, z)
            /\ e.row[y].status # "absent" /\ e.row[z].status # "absent"
            => y = z
      BY <2>3 DEF Good
    <2>5. e.next # 0
      BY <1>1, <1>6
    <2> QED
      BY <1>6, <2>1, <2>2, <2>4, <2>5 DEF Good
  <1>12. k.next <= d.next /\ d.fence = k.fence
    BY DEF RoundTo
  <1>13. RoundTo(k, e)
    <2>1. NewIn(k, e, x)
      <3>1. d.fence[p] = 0
        BY DEF Blocked
      <3>2. ~k.workers[p[1]].drain
        BY <1>4 DEF SameDrains
      <3> QED
        BY <1>4, <1>5, <1>8, <1>12, <3>1, <3>2 DEF NewIn
    <2>2. ASSUME NEW y \in Work
          PROVE  /\ Held(e.row[y]) => Kept(k, e, y) \/ NewIn(k, e, y)
                 /\ Final(k.row[y]) => Final(e.row[y])
                 /\ e.row[y].status = "absent" => k.row[y].status = "absent"
      <3>1. CASE y = x
        <4>1. ~Final(k.row[x])
          BY StatusParts DEF RoundTo
        <4> QED
          BY <1>8, <1>9, <2>1, <3>1, <4>1, StatusParts
      <3>2. CASE y # x
        BY <1>8, <3>2 DEF RoundTo, Kept, NewIn
      <3> QED
        BY <3>1, <3>2
    <2>3. k.next <= e.next
      BY <1>1, <1>6, <1>12
    <2> QED
      BY <1>6, <1>12, <2>2, <2>3 DEF RoundTo
  <1>14. SameDrains(k, e)
    BY <1>6 DEF SameDrains
  <1>15. \A y \in Work : d.row[y].status = "absent" => e.row[y].status = "absent"
    BY <1>8, StatusParts
  <1> QED
    BY <1>11, <1>13, <1>14, <1>15 DEF GivenIn

----------------------------------------------------------------------------
(* The chain *)

LEMMA OneTurn ==
    ASSUME NEW b, NEW c, Turn(b), Turn(c)  PROVE b = c
  BY DEF Turn

LEMMA OpIs ==
    ASSUME NEW kind \in RequestKinds \cup {"none", "pass", "close"},
           NEW x \in Work \cup {None}, NEW w \in Workers \cup {None}, NEW l \in Nat
    PROVE  /\ Op(kind, x, w, l) \in Ops
           /\ Op(kind, x, w, l).kind = kind /\ Op(kind, x, w, l).pc = "queued"
           /\ Op(kind, x, w, l).work = x /\ Op(kind, x, w, l).worker = w
  <1> DEFINE o == Op(kind, x, w, l)
  <1>1. o = [kind |-> kind, work |-> x, worker |-> w, lease |-> l, lag |-> 0,
             pc |-> "queued"]
    BY DEF Op
  <1> HIDE DEF o
  <1>2. o \in Ops /\ o.kind = kind /\ o.pc = "queued" /\ o.work = x /\ o.worker = w
    BY <1>1 DEF Ops
  <1> QED
    BY <1>2 DEF o

LEMMA NoCallIs ==
    NoCall \in Ops /\ NoCall.kind = "none" /\ NoCall.pc = "queued"
  BY OpIs DEF NoCall

(* While an operation has begun no other one has. *)
LEMMA OthersQueued ==
    ASSUME IInv, NEW c \in Callers, Turn(c), NEW b \in Callers, b # c
    PROVE  call[b].pc = "queued"
  BY OneTurn DEF IInv, ChainOK

(* An operation that has its turn and has not begun finds db = disk. *)
LEMMA FreshTurn ==
    ASSUME IInv, NEW c \in Callers, Turn(c), call[c].pc = "queued"
    PROVE  db = disk
  <1>1. \A b \in Callers : call[b].pc = "queued"
    BY OthersQueued
  <1> QED
    BY <1>1 DEF IInv, ChainOK

(* Who has the turn has called. *)
LEMMA TurnCalled ==
    ASSUME IInv, NEW c \in Callers, Turn(c)
    PROVE  call[c].kind # "none"
  <1>1. tail \in Seq(Callers) /\ tail # <<>> /\ tail[1] = c
    BY DEF Turn, IInv, ChainOK
  <1>2. 1 \in 1 .. Len(tail)
    BY <1>1
  <1> QED
    BY <1>1, <1>2 DEF IInv, ChainOK

(* The head of the chain goes on to another place, and nothing else moves. *)
LEMMA GotoIs ==
    ASSUME IInv, NEW c \in Callers, NEW pc \in {"queued", "assign", "commit"}, Goto(c, pc)
    PROVE  /\ call' \in [Callers -> Ops]
           /\ call'[c].pc = pc /\ call'[c].kind = call[c].kind
           /\ call'[c].work = call[c].work /\ call'[c].worker = call[c].worker
           /\ call'[c].lag = call[c].lag
           /\ \A b \in Callers : b # c => call'[b] = call[b]
  <1>1. call \in [Callers -> Ops]
    BY DEF IInv, CallsOK
  <1> DEFINE o == [call[c] EXCEPT !.pc = pc]
  <1>2. call' = [call EXCEPT ![c] = o]
    BY <1>1 DEF Goto
  <1>3. /\ o \in Ops /\ o.pc = pc /\ o.kind = call[c].kind /\ o.work = call[c].work
        /\ o.worker = call[c].worker /\ o.lag = call[c].lag
    BY <1>1 DEF Ops
  <1> HIDE DEF o
  <1> QED
    BY <1>1, <1>2, <1>3

(* The chain after the head has settled. *)
LEMMA SettleIs ==
    ASSUME IInv, NEW c \in Callers, Turn(c), Settle(c)
    PROVE  /\ call' \in [Callers -> Ops]
           /\ call'[c] = NoCall
           /\ \A b \in Callers : b # c => call'[b] = call[b]
           /\ \A b \in Callers : call'[b].pc = "queued"
           /\ tail' \in Seq(Callers)
           /\ \A i \in 1 .. Len(tail') : call'[tail'[i]].kind # "none"
           /\ \A i, j \in 1 .. Len(tail') : tail'[i] = tail'[j] => i = j
  <1>1. call \in [Callers -> Ops] /\ tail \in Seq(Callers)
    BY DEF IInv, CallsOK, ChainOK
  <1>2. call' = [call EXCEPT ![c] = NoCall] /\ tail' = Tail(tail)
    BY DEF Settle
  <1>3. /\ call' \in [Callers -> Ops] /\ call'[c] = NoCall
        /\ \A b \in Callers : b # c => call'[b] = call[b]
    BY <1>1, <1>2, NoCallIs
  <1>4. \A b \in Callers : call'[b].pc = "queued"
    BY <1>3, NoCallIs, OthersQueued
  <1>5. /\ tail' \in Seq(Callers) /\ Len(tail') = Len(tail) - 1 /\ Len(tail) \in Nat
        /\ \A i \in 1 .. Len(tail') : tail'[i] = tail[i + 1]
    BY <1>1, <1>2 DEF Turn
  <1>6. ASSUME NEW i \in 1 .. Len(tail')
        PROVE  call'[tail'[i]].kind # "none"
    <2>1. i + 1 \in 1 .. Len(tail) /\ 1 \in 1 .. Len(tail) /\ i + 1 # 1
      BY <1>5
    <2>2. tail[i + 1] # c /\ tail[i + 1] \in Callers
      BY <1>1, <2>1 DEF IInv, ChainOK, Turn
    <2> QED
      BY <1>3, <1>5, <2>1, <2>2 DEF IInv, ChainOK
  <1>7. ASSUME NEW i \in 1 .. Len(tail'), NEW j \in 1 .. Len(tail'), tail'[i] = tail'[j]
        PROVE  i = j
    <2>1. i + 1 \in 1 .. Len(tail) /\ j + 1 \in 1 .. Len(tail)
      BY <1>5
    <2>2. i + 1 = j + 1
      BY <1>5, <1>7, <2>1 DEF IInv, ChainOK
    <2> QED
      BY <2>2
  <1> QED
    BY <1>3, <1>4, <1>5, <1>6, <1>7
----------------------------------------------------------------------------
(* Calls *)

(* Nothing but the chain and the call of c changes; the call is one that is *)
(* allowed to wait in it.                                                    *)
LEMMA EnqueueStep ==
    ASSUME IInv, NEW c \in Callers, NEW o \in Ops, Enqueue(c, o),
           o.pc = "queued", o.kind # "none",
           o.kind \in WorkerKinds \cup HolderKinds => o.worker \in Workers,
           o.kind \in HolderKinds \cup ClientKinds => o.work \in Work,
           IF c = Scheduler THEN o.kind = "pass" ELSE o.kind # "pass",
           o.kind = "submit" => Fresh(o.work)
    PROVE  IInv'
  <1>1. /\ call \in [Callers -> Ops] /\ tail \in Seq(Callers)
        /\ call' = [call EXCEPT ![c] = o] /\ tail' = Append(tail, c)
        /\ UNCHANGED <<db, disk, open, issued, told>> /\ call[c] = NoCall
    BY DEF IInv, CallsOK, ChainOK, Enqueue, Idle
  <1>2. call' \in [Callers -> Ops] /\ call'[c] = o
        /\ \A b \in Callers : b # c => call'[b] = call[b]
    BY <1>1
  <1>3. CallsOK'
    <2> SUFFICES ASSUME NEW b \in Callers
                 PROVE  /\ call'[b].kind \in WorkerKinds \cup HolderKinds =>
                                call'[b].worker \in Workers
                        /\ call'[b].kind \in HolderKinds \cup ClientKinds =>
                                call'[b].work \in Work
                        /\ b = Scheduler => call'[b].kind \in {"none", "pass"}
                        /\ b # Scheduler => /\ call'[b].kind # "pass"
                                            /\ call'[b].pc # "assign"
      BY <1>2 DEF CallsOK
    <2>1. CASE b = c
      BY <1>2, <2>1
    <2>2. CASE b # c
      BY <1>2, <2>2 DEF IInv, CallsOK
    <2> QED
      BY <2>1, <2>2
  <1>4. ChainOK'
    <2>1. /\ tail' \in Seq(Callers) /\ Len(tail') = Len(tail) + 1 /\ Len(tail) \in Nat
          /\ \A i \in 1 .. Len(tail) : tail'[i] = tail[i]
          /\ tail'[Len(tail) + 1] = c
      BY <1>1
    <2>2. \A i \in 1 .. Len(tail) : tail[i] \in Callers /\ tail[i] # c
      BY <1>1, NoCallIs DEF IInv, ChainOK
    <2>3. ASSUME NEW i \in 1 .. Len(tail')  PROVE call'[tail'[i]].kind # "none"
      <3>1. CASE i = Len(tail) + 1
        BY <1>2, <2>1, <3>1
      <3>2. CASE i # Len(tail) + 1
        <4>1. i \in 1 .. Len(tail)
          BY <2>1, <3>2
        <4> QED
          BY <1>2, <2>1, <2>2, <4>1 DEF IInv, ChainOK
      <3> QED
        BY <3>1, <3>2
    <2>4. ASSUME NEW i \in 1 .. Len(tail'), NEW j \in 1 .. Len(tail'), tail'[i] = tail'[j]
          PROVE  i = j
      <3>1. \A k \in 1 .. Len(tail') : k = Len(tail) + 1 \/ k \in 1 .. Len(tail)
        BY <2>1
      <3>2. CASE i \in 1 .. Len(tail) /\ j \in 1 .. Len(tail)
        BY <2>1, <2>4, <3>2 DEF IInv, ChainOK
      <3> QED
        BY <2>1, <2>2, <2>4, <3>1, <3>2
    <2>5. ASSUME NEW b \in Callers, call'[b].pc # "queued"
          PROVE  /\ Turn(b)' /\ open' /\ call'[b].kind \notin {"none", "close"}
      <3>1. b # c
        BY <1>2, <2>5
      <3>2. call'[b] = call[b] /\ Turn(b)
        BY <1>2, <2>5, <3>1 DEF IInv, ChainOK
      <3>3. tail' # <<>> /\ tail'[1] = tail[1]
        BY <1>1, <2>1, <3>2 DEF Turn
      <3> QED
        BY <1>1, <1>2, <2>5, <3>1, <3>2, <3>3 DEF IInv, ChainOK, Turn
    <2>6. (\A b \in Callers : call'[b].pc = "queued") => db' = disk'
      <3>1. call[c].pc = "queued"
        BY <1>1, NoCallIs
      <3> QED
        BY <1>1, <1>2, <3>1 DEF IInv, ChainOK
    <2> QED
      BY <1>1, <2>1, <2>3, <2>4, <2>5, <2>6 DEF ChainOK, IInv
  <1>5. DataOK'
    BY <1>1, <1>2, NoCallIs DEF IInv, DataOK, Callers
  <1>6. SubmitsOK'
    <2>1. o.kind = "submit" => db.row[o.work].status = "absent"
      BY DEF Fresh
    <2>2. ASSUME NEW b \in Callers, call[b].kind = "submit", o.kind = "submit"
          PROVE  call[b].work # o.work
      BY <2>2 DEF Fresh
    <2>3. ASSUME NEW b \in Callers, call'[b].kind = "submit"
          PROVE  /\ call'[b].pc = "queued" => db'.row[call'[b].work].status = "absent"
                 /\ call'[b].pc = "commit" => Placed(db', call'[b].work)
      <3>1. CASE b = c
        BY <1>1, <1>2, <2>1, <2>3, <3>1
      <3>2. CASE b # c
        BY <1>1, <1>2, <2>3, <3>2 DEF IInv, SubmitsOK
      <3> QED
        BY <3>1, <3>2
    <2>4. ASSUME NEW a \in Callers, NEW b \in Callers, call'[a].kind = "submit",
                 call'[b].kind = "submit", call'[a].work = call'[b].work
          PROVE  a = b
      <3>1. CASE a # c /\ b # c
        BY <1>2, <2>4, <3>1 DEF IInv, SubmitsOK
      <3>2. CASE a = c \/ b = c
        BY <1>2, <2>2, <2>4, <3>2
      <3> QED
        BY <3>1, <3>2
    <2> QED
      BY <2>3, <2>4 DEF SubmitsOK
  <1>7. OversOK'
    BY <1>1, <1>2 DEF IInv, OversOK
  <1>8. IssuedOK' /\ ToldOK'
    BY <1>1 DEF IInv, IssuedOK, ToldOK
  <1> QED
    BY <1>3, <1>4, <1>5, <1>6, <1>7, <1>8 DEF IInv

LEMMA RequestSteps ==
    ASSUME IInv,
           \/ \E c \in Clients : \/ RequestWorker(c) \/ RequestClient(c)
                                 \/ RequestHolder(c) \/ CallClose(c)
           \/ TriggerPass
    PROVE  IInv'
  <1>0. \A c \in Clients : c \in Callers /\ c # Scheduler
    BY SqliteAssumption DEF Callers
  <1>1. ASSUME NEW c \in Clients, NEW kind \in WorkerKinds, NEW w \in Workers,
               Enqueue(c, Op(kind, None, w, 0))
        PROVE  IInv'
    <2> DEFINE o == Op(kind, None, w, 0)
    <2>1. o \in Ops /\ o.kind = kind /\ o.pc = "queued" /\ o.worker = w
      BY OpIs DEF RequestKinds
    <2>2. kind \notin HolderKinds \cup ClientKinds /\ kind \notin {"none", "pass", "submit"}
      BY DEF WorkerKinds, HolderKinds, ClientKinds
    <2> HIDE DEF o
    <2>3. Enqueue(c, o)
      BY <1>1 DEF o
    <2> QED
      BY <1>0, <2>1, <2>2, <2>3, EnqueueStep
  <1>2. ASSUME NEW c \in Clients, NEW x \in Work, NEW kind \in ClientKinds,
               kind = "submit" => Fresh(x), Enqueue(c, Op(kind, x, None, 0))
        PROVE  IInv'
    <2> DEFINE o == Op(kind, x, None, 0)
    <2>1. o \in Ops /\ o.kind = kind /\ o.pc = "queued" /\ o.work = x
      BY OpIs DEF RequestKinds
    <2>2. kind \notin WorkerKinds \cup HolderKinds /\ kind \notin {"none", "pass"}
      BY DEF WorkerKinds, HolderKinds, ClientKinds
    <2> HIDE DEF o
    <2>3. Enqueue(c, o)
      BY <1>2 DEF o
    <2> QED
      BY <1>0, <1>2, <2>1, <2>2, <2>3, EnqueueStep
  <1>3. ASSUME NEW c \in Clients, NEW t \in issued, NEW kind \in HolderKinds,
               Enqueue(c, Op(kind, t.work, t.worker, t.lease))
        PROVE  IInv'
    <2> DEFINE o == Op(kind, t.work, t.worker, t.lease)
    <2>0. t.work \in Work /\ t.worker \in Workers /\ t.lease \in Nat
      BY DEF IInv, IssuedOK
    <2>1. o \in Ops /\ o.kind = kind /\ o.pc = "queued" /\ o.work = t.work
            /\ o.worker = t.worker
      BY <2>0, OpIs DEF RequestKinds
    <2>2. kind \notin {"none", "pass", "submit"}
      BY DEF HolderKinds
    <2> HIDE DEF o
    <2>3. Enqueue(c, o)
      BY <1>3 DEF o
    <2> QED
      BY <1>0, <2>0, <2>1, <2>2, <2>3, EnqueueStep
  <1>4. ASSUME NEW c \in Callers, NEW kind \in {"close", "pass"},
               kind = "pass" <=> c = Scheduler, Enqueue(c, Op(kind, None, None, 0))
        PROVE  IInv'
    <2> DEFINE o == Op(kind, None, None, 0)
    <2>1. o \in Ops /\ o.kind = kind /\ o.pc = "queued"
      BY OpIs
    <2>2. kind \notin WorkerKinds \cup HolderKinds \cup ClientKinds
            /\ kind \notin {"none", "submit"}
      BY DEF WorkerKinds, HolderKinds, ClientKinds
    <2> HIDE DEF o
    <2>3. Enqueue(c, o)
      BY <1>4 DEF o
    <2> QED
      BY <1>4, <2>1, <2>2, <2>3, EnqueueStep
  <1>5. ASSUME NEW c \in Clients, RequestWorker(c)  PROVE IInv'
    BY <1>1, <1>5 DEF RequestWorker, WorkerKinds
  <1>6. ASSUME NEW c \in Clients, RequestClient(c)  PROVE IInv'
    <2>1. PICK x \in Work : \/ Fresh(x) /\ Enqueue(c, Op("submit", x, None, 0))
                            \/ Enqueue(c, Op("end", x, None, 0))
      BY <1>6 DEF RequestClient
    <2>2. "submit" \in ClientKinds /\ "end" \in ClientKinds
      BY DEF ClientKinds
    <2> QED
      BY <1>2, <2>1, <2>2
  <1>7. ASSUME NEW c \in Clients, RequestHolder(c)  PROVE IInv'
    <2>1. PICK t \in issued, kind \in HolderKinds :
                Enqueue(c, Op(kind, t.work, t.worker, t.lease))
      BY <1>7 DEF RequestHolder, HolderKinds
    <2> QED
      BY <1>3, <2>1
  <1>8. ASSUME NEW c \in Clients, CallClose(c)  PROVE IInv'
    BY <1>0, <1>4, <1>8 DEF CallClose
  <1>9. CASE TriggerPass
    BY <1>4, <1>9 DEF TriggerPass, Callers
  <1> QED
    BY <1>5, <1>6, <1>7, <1>8, <1>9
----------------------------------------------------------------------------
(* The head of the chain runs statements *)

LEMMA HeadStep ==
    ASSUME IInv, NEW c \in Callers, Turn(c), open, call[c].kind # "close",
           call' \in [Callers -> Ops], call'[c].pc # "queued",
           call'[c].kind = call[c].kind, call'[c].work = call[c].work,
           call'[c].worker = call[c].worker,
           c # Scheduler => call'[c].pc # "assign",
           \A b \in Callers : b # c => call'[b] = call[b],
           UNCHANGED <<disk, tail, open, issued, told>>,
           Good(db'), RoundTo(disk, db') \/ ReserveTo(disk, db'),
           c = Scheduler => RoundTo(disk, db') /\ SameDrains(disk, db'),
           call[c].kind = "submit" => Placed(db', call[c].work),
           \A y \in Work : /\ db.row[y].status = "absent"
                           /\ ~(call[c].kind = "submit" /\ y = call[c].work)
                           => db'.row[y].status = "absent",
           call[c].kind \in OverKinds => db' = disk \/ Final(db'.row[call[c].work])
    PROVE  IInv'
  <1>1. CallsOK'
    BY DEF IInv, CallsOK
  <1>2. call[c].kind # "none"
    BY TurnCalled
  <1>3. ChainOK'
    <2>1. \A i \in 1 .. Len(tail) : tail[i] \in Callers
      BY DEF IInv, ChainOK
    <2>2. \A i \in 1 .. Len(tail) : call'[tail[i]].kind # "none"
      BY <1>2, <2>1 DEF IInv, ChainOK
    <2>3. ASSUME NEW b \in Callers, call'[b].pc # "queued"
          PROVE  Turn(b)' /\ open' /\ call'[b].kind \notin {"none", "close"}
      <3>1. b = c
        BY <2>3, OthersQueued
      <3> QED
        BY <1>2, <3>1 DEF Turn
    <2> QED
      BY <2>2, <2>3 DEF IInv, ChainOK
  <1>4. DataOK'
    <2>1. Good(disk)
      BY DEF IInv, DataOK
    <2>2. call'[Scheduler].pc # "queued" => c = Scheduler
      BY OthersQueued DEF Callers
    <2> QED
      BY <2>1, <2>2 DEF DataOK
  <1>5. SubmitsOK'
    <2>1. ASSUME NEW b \in Callers, call'[b].kind = "submit"
          PROVE  /\ call'[b].pc = "queued" => db'.row[call'[b].work].status = "absent"
                 /\ call'[b].pc = "commit" => Placed(db', call'[b].work)
      <3>1. CASE b = c
        BY <2>1, <3>1
      <3>2. CASE b # c
        <4>1. call'[b] = call[b] /\ call[b].pc = "queued"
          BY <3>2, OthersQueued
        <4>2. call[b].work \in Work /\ db.row[call[b].work].status = "absent"
          BY <2>1, <4>1 DEF IInv, CallsOK, SubmitsOK, ClientKinds
        <4>3. ~(call[c].kind = "submit" /\ call[b].work = call[c].work)
          BY <2>1, <3>2, <4>1 DEF IInv, SubmitsOK
        <4> QED
          BY <4>1, <4>2, <4>3
      <3> QED
        BY <3>1, <3>2
    <2>2. ASSUME NEW a \in Callers, NEW b \in Callers, call'[a].kind = "submit",
                 call'[b].kind = "submit", call'[a].work = call'[b].work
          PROVE  a = b
      <3>1. \A x \in Callers : /\ call'[x].kind = call[x].kind
                               /\ call'[x].work = call[x].work
        OBVIOUS
      <3> QED
        BY <2>2, <3>1 DEF IInv, SubmitsOK
    <2> QED
      BY <2>1, <2>2 DEF SubmitsOK
  <1>6. OversOK'
    <2> SUFFICES ASSUME NEW b \in Callers, call'[b].kind \in OverKinds,
                        call'[b].pc = "commit"
                 PROVE  db' = disk' \/ Final(db'.row[call'[b].work])
      BY DEF OversOK
    <2>1. b = c
      BY OthersQueued
    <2> QED
      BY <2>1
  <1>7. IssuedOK' /\ ToldOK'
    BY DEF IInv, IssuedOK, ToldOK
  <1> QED
    BY <1>1, <1>3, <1>4, <1>5, <1>6, <1>7 DEF IInv

LEMMA RunStep ==
    ASSUME IInv, NEW c \in Callers, Run(c)
    PROVE  IInv'
  <1> DEFINE o == call[c]
             S == Statement(db, o)
  <1>1. /\ Turn(c) /\ open /\ c # Scheduler /\ o.kind # "close" /\ o.pc = "queued"
        /\ db' = S /\ Goto(c, "commit") /\ UNCHANGED <<disk, tail, open, issued, told>>
    BY DEF Run
  <1>2. db = disk /\ Good(db)
    BY <1>1, FreshTurn DEF IInv, DataOK
  <1>3. o \in Ops /\ o.kind # "none" /\ o.kind # "pass"
    BY <1>1, TurnCalled DEF IInv, CallsOK
  <1>4. o.kind \in RequestKinds
    BY <1>1, <1>3 DEF Ops
  <1>5. /\ o.kind \in WorkerKinds \cup HolderKinds => o.worker \in Workers
        /\ o.kind \in HolderKinds \cup ClientKinds => o.work \in Work
        /\ o.kind = "submit" => db.row[o.work].status = "absent"
    BY <1>1 DEF IInv, CallsOK, SubmitsOK
  <1>6. /\ o.kind # "submit" => Tame(db, S)
        /\ o.kind = "submit" => Submits(db, S, o.work)
        /\ o.kind \in OverKinds => S = db \/ Final(S.row[o.work])
    BY <1>2, <1>3, <1>4, <1>5, StatementStep
  <1> HIDE DEF S
  <1>7. Good(db') /\ (RoundTo(disk, db') \/ ReserveTo(disk, db'))
    BY <1>1, <1>2, <1>6 DEF Tame, Submits
  <1>8. o.kind = "submit" => Placed(db', o.work)
    BY <1>1, <1>6 DEF Submits
  <1>9. \A y \in Work : /\ db.row[y].status = "absent"
                        /\ ~(o.kind = "submit" /\ y = o.work)
                        => db'.row[y].status = "absent"
    BY <1>1, <1>6 DEF Tame, Submits
  <1>10. /\ call' \in [Callers -> Ops] /\ call'[c].pc = "commit"
         /\ call'[c].kind = o.kind /\ call'[c].work = o.work /\ call'[c].worker = o.worker
         /\ \A b \in Callers : b # c => call'[b] = call[b]
    BY <1>1, GotoIs
  <1> QED
    BY <1>1, <1>2, <1>6, <1>7, <1>8, <1>9, <1>10, HeadStep

LEMMA PassSteps ==
    ASSUME IInv, PassStep
    PROVE  IInv'
  <1> DEFINE c == Scheduler
             o == call[c]
  <1>0. /\ Turn(c) /\ c \in Callers /\ UNCHANGED <<disk, tail, open, issued, told>>
    BY DEF PassStep, RunPass, Assign, EndPass, Callers
  <1>1. o \in Ops /\ o.kind = "pass" /\ o.lag \in Nat
    BY <1>0, TurnCalled DEF IInv, CallsOK, Ops
  <1>2. o.kind \notin OverKinds \cup {"submit", "close"}
    BY <1>1 DEF OverKinds
  <1>3. CASE RunPass
    <2>1. /\ open /\ o.pc = "queued" /\ Goto(c, "assign") /\ db' = Recovered(db, o.lag)
      BY <1>3 DEF RunPass, Recovered
    <2>2. db = disk /\ Good(db)
      BY <1>0, <2>1, FreshTurn DEF IInv, DataOK
    <2>3. Tame(db, db') /\ RoundTo(db, db') /\ SameDrains(db, db')
      BY <1>1, <2>1, <2>2, RecoveredTame
    <2>4. /\ call' \in [Callers -> Ops] /\ call'[c].pc = "assign"
          /\ call'[c].kind = o.kind /\ call'[c].work = o.work /\ call'[c].worker = o.worker
          /\ \A b \in Callers : b # c => call'[b] = call[b]
      BY <1>0, <2>1, GotoIs
    <2>5. Good(db') /\ RoundTo(disk, db') /\ SameDrains(disk, db')
      BY <2>2, <2>3 DEF Tame
    <2>6. \A y \in Work : db.row[y].status = "absent" => db'.row[y].status = "absent"
      BY <2>3 DEF Tame
    <2> QED
      BY <1>0, <1>2, <2>1, <2>4, <2>5, <2>6, HeadStep
  <1>4. ASSUME o.pc # "queued"
        PROVE  open /\ Good(db) /\ Good(disk) /\ RoundTo(disk, db) /\ SameDrains(disk, db)
    BY <1>0, <1>4 DEF IInv, ChainOK, DataOK
  <1>5. ASSUME NEW x \in Work, NEW p \in Workers \X Gpus, Assign(x, p)
        PROVE  IInv'
    <2>1. /\ o.pc = "assign" /\ Pending(db.row[x]) /\ p \in Placements
          /\ UNCHANGED <<disk, tail, call, open, issued, told>>
      BY <1>5 DEF Assign
    <2>2. open /\ Good(db) /\ Good(disk) /\ RoundTo(disk, db) /\ SameDrains(disk, db)
      BY <1>4, <2>1
    <2>3. ~db.workers[p[1]].drain /\ p \notin Blocked(db) /\ p[2] \notin Occupied(db)
      BY <2>1 DEF Placements
    <2>4. db.row[x].count \in Nat /\ db.row[x].count + 1 \in Nat
      BY <2>2 DEF Good, Database, Row
    <2>5. \E s \in {"leased", "allocated"}, n \in Nat : db' = AssignRow(db, x, p, s, n, o.lag)
      BY <1>5, <2>4 DEF Assign, AssignJob, AssignSession
    <2>6. /\ Good(db') /\ RoundTo(disk, db') /\ SameDrains(disk, db')
          /\ \A y \in Work : db.row[y].status = "absent" => db'.row[y].status = "absent"
      <3>1. PICK s \in {"leased", "allocated"}, n \in Nat :
                    db' = AssignRow(db, x, p, s, n, o.lag)
        BY <2>5
      <3> DEFINE e == AssignRow(db, x, p, s, n, o.lag)
      <3>2. o.lag \in Nat
        BY <1>1
      <3> HIDE DEF o
      <3>3. GivenIn(disk, db, e)
        BY <2>1, <2>2, <2>3, <3>2, AssignRowIs
      <3>4. db' = e
        BY <3>1
      <3> HIDE DEF e
      <3> QED
        BY <3>3, <3>4 DEF GivenIn
    <2>7. call' \in [Callers -> Ops] /\ call'[c] = o
      BY <2>1 DEF IInv, CallsOK
    <2> QED
      BY <1>0, <1>2, <2>1, <2>2, <2>6, <2>7, HeadStep
  <1>6. CASE EndPass
    <2>1. o.pc = "assign" /\ Goto(c, "commit") /\ db' = db
      BY <1>6 DEF EndPass
    <2>2. open /\ Good(db) /\ Good(disk) /\ RoundTo(disk, db) /\ SameDrains(disk, db)
      BY <1>4, <2>1
    <2>3. /\ call' \in [Callers -> Ops] /\ call'[c].pc = "commit"
          /\ call'[c].kind = o.kind /\ call'[c].work = o.work /\ call'[c].worker = o.worker
          /\ \A b \in Callers : b # c => call'[b] = call[b]
      BY <1>0, <2>1, GotoIs
    <2> QED
      BY <1>0, <1>2, <2>1, <2>2, <2>3, HeadStep
  <1> QED
    BY <1>3, <1>5, <1>6 DEF PassStep
----------------------------------------------------------------------------
(* The head of the chain settles *)

(* What every transaction leaves as it is. *)
LEMMA DiskToDb ==
    ASSUME IInv, NEW x \in Work
    PROVE  /\ Final(disk.row[x]) => Final(db.row[x])
           /\ db.row[x].status = "absent" => disk.row[x].status = "absent"
           /\ disk.next <= db.next /\ disk.next \in Nat /\ db.next \in Nat
           /\ Placed(disk, x) => Placed(db, x)
  <1>1. disk.next \in Nat /\ db.next \in Nat
    BY DEF IInv, DataOK, Good, Database
  <1>2. \A y \in Work : /\ Final(disk.row[y]) => Final(db.row[y])
                        /\ db.row[y].status = "absent" => disk.row[y].status = "absent"
    BY DEF IInv, DataOK, RoundTo, ReserveTo
  <1>3. disk.next <= db.next
    BY <1>1 DEF IInv, DataOK, RoundTo, ReserveTo
  <1>4. Placed(disk, x) => Placed(db, x)
    BY <1>2 DEF Placed
  <1> QED
    BY <1>1, <1>2, <1>3, <1>4

LEMMA SettleStep ==
    ASSUME IInv, NEW c \in Callers, Turn(c), Settle(c), db' = disk', Good(disk'),
           \A y \in Work : db.row[y].status = "absent" => db'.row[y].status = "absent",
           open' \in BOOLEAN, IssuedOK', ToldOK'
    PROVE  IInv'
  <1>1. /\ call' \in [Callers -> Ops] /\ call'[c] = NoCall
        /\ \A b \in Callers : b # c => call'[b] = call[b]
        /\ \A b \in Callers : call'[b].pc = "queued"
        /\ tail' \in Seq(Callers)
        /\ \A i \in 1 .. Len(tail') : call'[tail'[i]].kind # "none"
        /\ \A i, j \in 1 .. Len(tail') : tail'[i] = tail'[j] => i = j
    BY SettleIs
  <1>2. NoCall.kind = "none"
    BY NoCallIs
  <1>3. CallsOK'
    <2> SUFFICES ASSUME NEW b \in Callers
                 PROVE  /\ call'[b].kind \in WorkerKinds \cup HolderKinds =>
                                call'[b].worker \in Workers
                        /\ call'[b].kind \in HolderKinds \cup ClientKinds =>
                                call'[b].work \in Work
                        /\ b = Scheduler => call'[b].kind \in {"none", "pass"}
                        /\ b # Scheduler => /\ call'[b].kind # "pass"
                                            /\ call'[b].pc # "assign"
      BY <1>1 DEF CallsOK
    <2>1. "none" \notin WorkerKinds \cup HolderKinds \cup ClientKinds
      BY DEF WorkerKinds, HolderKinds, ClientKinds
    <2>2. CASE b = c
      BY <1>1, <1>2, <2>1, <2>2
    <2>3. CASE b # c
      BY <1>1, <2>3 DEF IInv, CallsOK
    <2> QED
      BY <2>2, <2>3
  <1>4. ChainOK'
    BY <1>1 DEF ChainOK
  <1>5. DataOK'
    <2>1. Good(db') /\ RoundTo(disk', db')
      BY RoundSame
    <2>2. call'[Scheduler].pc = "queued"
      BY <1>1 DEF Callers
    <2> QED
      BY <2>1, <2>2 DEF DataOK
  <1>6. SubmitsOK'
    <2>1. ASSUME NEW b \in Callers, call'[b].kind = "submit"
          PROVE  call'[b] = call[b] /\ db'.row[call'[b].work].status = "absent"
      <3>1. b # c /\ call'[b] = call[b] /\ call[b].pc = "queued"
        BY <1>1, <1>2, <2>1
      <3>2. call[b].work \in Work /\ db.row[call[b].work].status = "absent"
        BY <2>1, <3>1 DEF IInv, CallsOK, SubmitsOK, ClientKinds
      <3> QED
        BY <3>1, <3>2
    <2> QED
      BY <1>1, <2>1 DEF IInv, SubmitsOK
  <1>7. OversOK'
    BY <1>1 DEF OversOK
  <1> QED
    BY <1>3, <1>4, <1>5, <1>6, <1>7 DEF IInv

LEMMA CommitIssued ==
    ASSUME IInv, NEW c \in Callers, Commit(c)
    PROVE  /\ IssuedOK'
           /\ issued' = issued \cup {TokenOf(db, x) : x \in {y \in Work : Held(db.row[y])}}
  <1>1. /\ disk' = db
        /\ issued' = issued \cup {TokenOf(db, x) : x \in {y \in Work : Held(db.row[y])}}
    BY DEF Commit, TokenOf
  <1>2. ASSUME NEW x \in Work, Held(db.row[x])
        PROVE  /\ TokenOf(db, x) \in [work : Work, worker : Workers, lease : Nat]
               /\ TokenOf(db, x).work = x /\ TokenOf(db, x).worker \in Workers
               /\ TokenOf(db, x).lease \in Nat /\ TokenOf(db, x).lease < db.next
    BY <1>2 DEF TokenOf, IInv, DataOK, Good, Database, Row
  <1>3. ASSUME NEW t \in issued'
        PROVE  /\ t.work \in Work /\ t.worker \in Workers /\ t.lease \in Nat
               /\ t.lease < disk'.next
    <2>1. CASE t \in issued
      <3>1. /\ t.work \in Work /\ t.worker \in Workers /\ t.lease \in Nat
            /\ t.lease < disk.next
        BY <2>1 DEF IInv, IssuedOK
      <3>2. disk.next <= db.next /\ disk.next \in Nat /\ db.next \in Nat
        BY <3>1, DiskToDb
      <3> QED
        BY <1>1, <3>1, <3>2
    <2>2. CASE t \notin issued
      <3>1. PICK x \in Work : Held(db.row[x]) /\ t = TokenOf(db, x)
        BY <1>1, <1>3, <2>2
      <3> QED
        BY <1>1, <1>2, <3>1
    <2> QED
      BY <2>1, <2>2
  <1>4. \A x \in Work : Held(disk'.row[x]) => TokenOf(disk', x) \in issued'
    BY <1>1
  <1>5. issued' \subseteq [work : Work, worker : Workers, lease : Nat]
    BY <1>1, <1>2 DEF IInv, IssuedOK
  <1> QED
    BY <1>1, <1>3, <1>4, <1>5 DEF IssuedOK, TokenOf

LEMMA CommitStep ==
    ASSUME IInv, NEW c \in Callers, Commit(c)
    PROVE  IInv'
  <1>1. /\ Turn(c) /\ call[c].pc = "commit" /\ disk' = db /\ Settle(c) /\ db' = db
        /\ open' = open /\ told' = told \cup Answer(call[c])
    BY DEF Commit
  <1>2. Good(db) /\ open \in BOOLEAN
    BY DEF IInv, DataOK, ChainOK
  <1>3. ToldOK'
    <2> SUFFICES ASSUME NEW m \in told'
                 PROVE  /\ m[2] \in Work
                        /\ IF m[1] = "over" THEN Final(db.row[m[2]]) ELSE Placed(db, m[2])
      BY <1>1 DEF ToldOK
    <2>1. CASE m \in told
      BY <2>1, DiskToDb DEF IInv, ToldOK
    <2>2. CASE m \notin told
      <3>1. \/ call[c].kind = "submit" /\ m = <<"present", call[c].work>>
            \/ call[c].kind \in OverKinds /\ db # disk /\ m = <<"over", call[c].work>>
        BY <1>1, <2>2 DEF Answer, OverKinds
      <3>2. call[c].work \in Work
        BY <3>1 DEF IInv, CallsOK, OverKinds, HolderKinds, ClientKinds
      <3>3. CASE call[c].kind = "submit" /\ m = <<"present", call[c].work>>
        <4>1. Placed(db, call[c].work)
          BY <1>1, <3>3 DEF IInv, SubmitsOK
        <4>2. m[1] = "present" /\ m[2] = call[c].work
          BY <3>3
        <4> QED
          BY <3>2, <4>1, <4>2
      <3>4. CASE call[c].kind \in OverKinds /\ db # disk /\ m = <<"over", call[c].work>>
        <4>1. Final(db.row[call[c].work])
          BY <1>1, <3>4 DEF IInv, OversOK
        <4>2. m[1] = "over" /\ m[2] = call[c].work
          BY <3>4
        <4> QED
          BY <3>2, <4>1, <4>2
      <3> QED
        BY <3>1, <3>3, <3>4
    <2> QED
      BY <2>1, <2>2
  <1> QED
    BY <1>1, <1>2, <1>3, CommitIssued, SettleStep

LEMMA OtherSettles ==
    ASSUME IInv, NEW c \in Callers, Rollback(c) \/ Refuse(c) \/ Close(c)
    PROVE  IInv'
  <1>1. Turn(c) /\ Settle(c) /\ UNCHANGED <<disk, issued, told>>
    BY DEF Rollback, Refuse, Close
  <1>2. Good(disk) /\ IssuedOK' /\ ToldOK'
    BY <1>1 DEF IInv, DataOK, IssuedOK, ToldOK
  <1>3. db' = disk /\ open' \in BOOLEAN
    <2>1. CASE Rollback(c)
      BY <2>1 DEF Rollback, IInv, ChainOK
    <2>2. CASE Refuse(c) \/ Close(c)
      <3>1. call[c].pc = "queued"
        BY <2>2 DEF Refuse, Close, IInv, ChainOK
      <3> QED
        BY <1>1, <2>2, <3>1, FreshTurn DEF Refuse, Close, IInv, ChainOK
    <2> QED
      BY <2>1, <2>2
  <1>4. \A y \in Work : db.row[y].status = "absent" => db'.row[y].status = "absent"
    BY <1>3, DiskToDb
  <1> QED
    BY <1>1, <1>2, <1>3, <1>4, SettleStep

(* A new process finds what was committed. *)
LEMMA RestartStep ==
    ASSUME IInv, Restart
    PROVE  IInv'
  <1>1. /\ db' = disk /\ disk' = disk /\ tail' = <<>> /\ open' = TRUE
        /\ UNCHANGED <<issued, told>>
        /\ call' = [c \in Callers |-> NoCall]
    BY DEF Restart
  <1>2. call' \in [Callers -> Ops] /\ \A c \in Callers : call'[c] = NoCall
    BY <1>1, NoCallIs
  <1>3. "none" \notin WorkerKinds \cup HolderKinds \cup ClientKinds \cup OverKinds
    BY DEF WorkerKinds, HolderKinds, ClientKinds, OverKinds
  <1>4. CallsOK' /\ SubmitsOK' /\ OversOK'
    BY <1>2, <1>3, NoCallIs DEF CallsOK, SubmitsOK, OversOK
  <1>5. ChainOK'
    BY <1>1, <1>2, NoCallIs DEF ChainOK
  <1>6. DataOK'
    <2>1. Good(disk) /\ RoundTo(disk, disk)
      BY RoundSame DEF IInv, DataOK
    <2> QED
      BY <1>1, <1>2, <2>1, NoCallIs DEF DataOK, Callers
  <1>7. IssuedOK' /\ ToldOK'
    BY <1>1 DEF IInv, IssuedOK, ToldOK
  <1> QED
    BY <1>4, <1>5, <1>6, <1>7 DEF IInv

(* Time changes no lease, no status and no fence. *)
LEMMA TickStep ==
    ASSUME IInv, Tick
    PROVE  IInv'
  <1>1. db' = Aged(db) /\ disk' = Aged(disk) /\ UNCHANGED <<tail, open, issued, told>>
    BY DEF Tick
  <1>2. call \in [Callers -> Ops] /\ Good(db) /\ Good(disk)
    BY DEF IInv, CallsOK, DataOK
  <1>3. ASSUME NEW c \in Callers
        PROVE  /\ call'[c] \in Ops /\ call'[c].kind = call[c].kind
               /\ call'[c].pc = call[c].pc /\ call'[c].work = call[c].work
               /\ call'[c].worker = call[c].worker
    <2>1. call[c] \in Ops
      BY <1>2
    <2>2. call'[c] = IF Idle(c) THEN NoCall
                     ELSE [call[c] EXCEPT !.lag = call[c].lag + 1]
      BY DEF Tick
    <2>3. Idle(c) => call'[c] = call[c]
      BY <2>2 DEF Idle
    <2>4. ~Idle(c) => call'[c] = [call[c] EXCEPT !.lag = call[c].lag + 1]
      BY <2>2
    <2> QED
      BY <2>1, <2>3, <2>4 DEF Ops
  <1>4. call' \in [Callers -> Ops]
    <2>1. call' = [c \in Callers |-> call'[c]]
      BY DEF Tick
    <2> QED
      BY <1>3, <2>1
  <1>5. db \in Database /\ disk \in Database
    BY <1>2 DEF Good
  <1>6. \A x \in Work : /\ db'.row[x].status = db.row[x].status
                        /\ disk'.row[x].status = disk.row[x].status
                        /\ TokenOf(disk', x) = TokenOf(disk, x)
                        /\ Held(disk'.row[x]) <=> Held(disk.row[x])
                        /\ Final(disk'.row[x]) <=> Final(disk.row[x])
                        /\ Final(db'.row[x]) <=> Final(db.row[x])
    BY <1>1, <1>2, <1>5, AgedIs, AgedMoves DEF TokenOf
  <1>7. CallsOK'
    BY <1>3, <1>4 DEF IInv, CallsOK
  <1>8. ChainOK'
    <2>1. \A i \in 1 .. Len(tail) : tail[i] \in Callers
      BY DEF IInv, ChainOK
    <2> QED
      BY <1>1, <1>3, <2>1 DEF IInv, ChainOK, Turn
  <1>9. DataOK'
    <2>1. Good(db') /\ Good(disk')
      BY <1>1, <1>2, AgedMoves
    <2>2. /\ RoundTo(disk, db) => RoundTo(disk', db')
          /\ ReserveTo(disk, db) => ReserveTo(disk', db')
      BY <1>1, <1>2, AgedRound, AgedReserve
    <2>3. SameDrains(disk, db) => SameDrains(disk', db')
      BY <1>1, <1>5, AgedIs DEF SameDrains
    <2> QED
      BY <1>3, <2>1, <2>2, <2>3 DEF IInv, DataOK, Callers
  <1>10. SubmitsOK'
    <2>1. \A x : Placed(db, x) => Placed(db', x)
      BY <1>6 DEF Placed
    <2>2. \A c \in Callers : call[c].kind = "submit" => call[c].work \in Work
      BY DEF IInv, CallsOK, ClientKinds
    <2> QED
      BY <1>3, <1>6, <2>1, <2>2 DEF IInv, SubmitsOK
  <1>11. OversOK'
    <2>1. \A c \in Callers : call[c].kind \in OverKinds => call[c].work \in Work
      BY DEF IInv, CallsOK, OverKinds, HolderKinds, ClientKinds
    <2> QED
      BY <1>1, <1>3, <1>6, <2>1 DEF IInv, OversOK
  <1>12. IssuedOK'
    <2>1. disk'.next = disk.next
      BY <1>1, <1>5, AgedIs
    <2> QED
      BY <1>1, <1>6, <2>1 DEF IInv, IssuedOK
  <1>13. ToldOK'
    <2>1. \A x : Placed(disk, x) => Placed(disk', x)
      BY <1>6 DEF Placed
    <2> QED
      BY <1>1, <1>6, <2>1 DEF IInv, ToldOK
  <1> QED
    BY <1>7, <1>8, <1>9, <1>10, <1>11, <1>12, <1>13 DEF IInv
----------------------------------------------------------------------------
(* The theorems *)

LEMMA InitInv == Init => IInv
  <1> SUFFICES ASSUME Init PROVE IInv
    OBVIOUS
  <1>1. /\ db = Empty /\ disk = Empty /\ tail = <<>> /\ open = TRUE
        /\ issued = {} /\ told = {} /\ call = [c \in Callers |-> NoCall]
    BY DEF Init
  <1>2. call \in [Callers -> Ops] /\ \A c \in Callers : call[c] = NoCall
    BY <1>1, NoCallIs
  <1>3. "none" \notin WorkerKinds \cup HolderKinds \cup ClientKinds \cup OverKinds
    BY DEF WorkerKinds, HolderKinds, ClientKinds, OverKinds
  <1>4. /\ Empty \in Database /\ Empty.next = 1
        /\ \A x \in Work : Empty.row[x].status = "absent"
    <2> DEFINE r == Released([count |-> 0], "absent")
    <2>1. r \in Row /\ r.status = "absent"
      BY ReleasedIs DEF Status
    <2> HIDE DEF r
    <2>2. Empty = [row |-> [x \in Work |-> r],
                   workers |-> [w \in Workers |->
                        [status |-> "absent", drain |-> FALSE, age |-> 0]],
                   fence |-> [p \in Workers \X Gpus |-> 0],
                   next |-> 1]
      BY DEF Empty, r
    <2> QED
      BY <2>1, <2>2 DEF Database
  <1>5. Good(Empty)
    <2>1. \A x \in Work : ~Held(Empty.row[x])
      BY <1>4, StatusParts
    <2> QED
      BY <1>4, <2>1 DEF Good
  <1>6. RoundTo(Empty, Empty)
    BY <1>5, RoundSame
  <1>7. CallsOK /\ SubmitsOK /\ OversOK
    BY <1>2, <1>3, NoCallIs DEF CallsOK, SubmitsOK, OversOK
  <1>8. ChainOK
    BY <1>1, <1>2, NoCallIs DEF ChainOK
  <1>9. DataOK
    BY <1>1, <1>2, <1>5, <1>6, NoCallIs DEF DataOK, Callers
  <1>10. IssuedOK /\ ToldOK
    BY <1>1, <1>4, StatusParts DEF IssuedOK, ToldOK
  <1> QED
    BY <1>7, <1>8, <1>9, <1>10 DEF IInv

LEMMA StepInv == IInv /\ [Next]_vars => IInv'
  <1> SUFFICES ASSUME IInv, [Next]_vars PROVE IInv'
    OBVIOUS
  <1>1. CASE \/ \E c \in Clients : \/ RequestWorker(c) \/ RequestClient(c)
                                   \/ RequestHolder(c) \/ CallClose(c)
             \/ TriggerPass
    BY <1>1, RequestSteps
  <1>2. CASE ChainStep
    BY <1>2, RunStep, CommitStep, OtherSettles, PassSteps DEF ChainStep
  <1>3. CASE \E c \in Callers : Rollback(c)
    BY <1>3, OtherSettles
  <1>4. CASE Restart
    BY <1>4, RestartStep
  <1>5. CASE Tick
    BY <1>5, TickStep
  <1>6. CASE UNCHANGED vars
    BY <1>6 DEF vars, IInv, CallsOK, ChainOK, DataOK, SubmitsOK, OversOK, IssuedOK,
                ToldOK, Turn
  <1> QED
    BY <1>1, <1>2, <1>3, <1>4, <1>5, <1>6 DEF Next

(* The invariant: the connection's database follows from the one on disk by  *)
(* the statements of at most one transaction, that of the chain's head.      *)
THEOREM Inductive == Spec => []IInv
  BY InitInv, StepInv, PTL DEF Spec

(* TypeOK, for any number of clients and any wait in the chain of            *)
(* persistence/sqlite.mjs: its tables keep their columns' types.             *)
THEOREM TypeCorrect == Spec => []TypeOK
  <1>1. IInv => TypeOK
    <2> SUFFICES ASSUME IInv PROVE TypeOK
      OBVIOUS
    <2>1. db \in Database /\ disk \in Database /\ tail \in Seq(Callers) /\ open \in BOOLEAN
      BY DEF IInv, DataOK, Good, ChainOK
    <2>2. issued \subseteq [work : Work, worker : Workers, lease : Nat]
      BY DEF IInv, IssuedOK
    <2> QED
      BY <2>1, <2>2 DEF TypeOK
  <1> QED
    BY <1>1, Inductive, PTL

(* ToldIsDurable: what service.mjs answers after a transaction has ended is  *)
(* on disk for good, and the submissions of one idempotency key, retried as  *)
(* often as a client likes and around any crash, have one job or session.    *)
THEOREM AnswersAreDurable == Spec => []ToldIsDurable
  <1>1. IInv => ToldIsDurable
    <2> SUFFICES ASSUME IInv, NEW m \in told, m[1] # "over"
                 PROVE  \E y \in Work :
                {z \in Work : /\ disk.row[z].status # "absent"
                              /\ z \in Jobs <=> m[2] \in Jobs
                              /\ z = m[2] \/ (Key[z] # None /\ Key[z] = Key[m[2]])} = {y}
      BY DEF ToldIsDurable, IInv, ToldOK
    <2>1. m[2] \in Work /\ Placed(disk, m[2])
      BY DEF IInv, ToldOK
    <2>2. PICK y \in Work : /\ SameTable(m[2], y) /\ (y = m[2] \/ SameKey(y, m[2]))
                            /\ disk.row[y].status # "absent"
      BY <2>1 DEF Placed
    <2>3. ASSUME NEW z \in Work, disk.row[z].status # "absent", SameTable(m[2], z),
                 z = m[2] \/ SameKey(z, m[2])
          PROVE  z = y
      <3>1. z = y \/ SameKey(z, y)
        BY <2>2, <2>3 DEF SameKey
      <3>2. SameTable(z, y)
        BY <2>2, <2>3 DEF SameTable
      <3> QED
        BY <2>2, <2>3, <3>1, <3>2 DEF IInv, DataOK, Good
    <2> QED
      BY <2>2, <2>3 DEF SameTable, SameKey
  <1> QED
    BY <1>1, Inductive, PTL

(* Only a commit gives tokens, and it gives those of the leases it writes. *)
LEMMA NewTokens ==
    ASSUME IInv, [Next]_vars
    PROVE  \/ issued' = issued
           \/ \E c \in Callers : Commit(c)
  <1>1. CASE \/ \E c \in Clients : \/ RequestWorker(c) \/ RequestClient(c)
                                   \/ RequestHolder(c) \/ CallClose(c)
             \/ TriggerPass
    BY <1>1 DEF RequestWorker, RequestClient, RequestHolder, CallClose, TriggerPass,
                Enqueue
  <1>2. CASE ChainStep
    BY <1>2 DEF ChainStep, Run, Refuse, Close, PassStep, RunPass, Assign, EndPass
  <1>3. CASE \/ \E c \in Callers : Rollback(c)
             \/ Restart \/ Tick \/ UNCHANGED vars
    BY <1>3 DEF Rollback, Restart, Tick, vars
  <1> QED
    BY <1>1, <1>2, <1>3 DEF Next

(* A token the commit adds is that of a lease the pass has written. *)
LEMMA TokenIsNew ==
    ASSUME IInv, NEW x \in Work, Held(db.row[x]), TokenOf(db, x) \notin issued
    PROVE  RoundTo(disk, db) /\ NewIn(disk, db, x)
  <1>1. ~Kept(disk, db, x)
    BY DEF Kept, TokenOf, IInv, IssuedOK
  <1>2. ~ReserveTo(disk, db)
    BY DEF ReserveTo, TokenOf, IInv, IssuedOK
  <1> QED
    BY <1>1, <1>2 DEF IInv, DataOK, RoundTo

(* DrainRespected: on SQLite no pass of scheduler.mjs commits a lease on a   *)
(* worker that is drained when it commits, however the drain request and the *)
(* pass are ordered in the chain.                                            *)
THEOREM DrainIsRespected == Spec => DrainRespected
  <1> DEFINE Respected == \A t \in issued' \ issued : ~disk.workers[t.worker].drain
  <1>1. ASSUME IInv, [Next]_vars PROVE Respected
    <2> SUFFICES ASSUME NEW t \in issued', t \notin issued
                 PROVE  ~disk.workers[t.worker].drain
      OBVIOUS
    <2>1. PICK c \in Callers : Commit(c)
      BY <1>1, NewTokens
    <2>2. PICK x \in Work : Held(db.row[x]) /\ t = TokenOf(db, x)
      BY <1>1, <2>1, CommitIssued
    <2>3. NewIn(disk, db, x)
      BY <1>1, <2>2, TokenIsNew
    <2> QED
      BY <2>2, <2>3 DEF NewIn, TokenOf
  <1>2. IInv /\ [Next]_vars => [Respected]_vars
    BY <1>1
  <1> QED
    BY <1>2, Inductive, PTL DEF Spec, DrainRespected
----------------------------------------------------------------------------
(* The committed rows implement GpuLeasing *)

(* The variables of GpuLeasing, as Leasing reads them off the disk. *)
Unleased == [worker |-> "none", gpu |-> "none", lease |-> 0]

GrantsOf(v) ==
    [x \in Work |->
        IF Held(v[x])
        THEN [worker |-> v[x].worker, gpu |-> v[x].gpu, lease |-> v[x].lease]
        ELSE Unleased]

Grants   == GrantsOf(disk.row)
Over     == {x \in Work : Final(disk.row[x])}
Used     == {t.lease : t \in issued}
Reserved == Blocked(disk)

LEMMA GrantsMean ==
    ASSUME NEW d, Good(d), NEW x \in Work
    PROVE  /\ GrantsOf(d.row)[x] # Unleased <=> Held(d.row[x])
           /\ Held(d.row[x]) => /\ GrantsOf(d.row)[x].worker = d.row[x].worker
                                /\ GrantsOf(d.row)[x].gpu = d.row[x].gpu
                                /\ GrantsOf(d.row)[x].lease = d.row[x].lease
  <1> DEFINE v == d.row
  <1>1. CASE Held(v[x])
    <2>1. GrantsOf(v)[x] = [worker |-> v[x].worker, gpu |-> v[x].gpu,
                            lease |-> v[x].lease]
      BY <1>1 DEF GrantsOf
    <2>2. /\ GrantsOf(v)[x].worker = v[x].worker /\ GrantsOf(v)[x].gpu = v[x].gpu
          /\ GrantsOf(v)[x].lease = v[x].lease
      BY <2>1
    <2>3. Unleased.lease = 0 /\ v[x].lease # 0
      BY <1>1 DEF Unleased, Good
    <2> QED
      BY <1>1, <2>2, <2>3
  <1>2. CASE ~Held(v[x])
    BY <1>2 DEF GrantsOf
  <1> QED
    BY <1>1, <1>2

(* The grants of two databases differ where a lease was given or ended. *)
LEMMA GrantsDiffer ==
    ASSUME NEW d, Good(d), NEW e, Good(e), NEW x \in Work, Held(e.row[x])
    PROVE  GrantsOf(e.row)[x] = GrantsOf(d.row)[x] <=> Kept(d, e, x)
  <1>1. CASE Kept(d, e, x)
    BY <1>1 DEF Kept, GrantsOf
  <1>2. CASE ~Kept(d, e, x)
    BY <1>2, GrantsMean DEF Kept
  <1> QED
    BY <1>1, <1>2

NewlyGiven == {z \in Work : Grants'[z] # Unleased /\ Grants'[z] # Grants[z]}

RoundOf ==
    /\ \A x, y \in Work :
        Grants'[x] # Unleased /\ Grants'[y] # Unleased
            /\ Grants'[x].gpu = Grants'[y].gpu => x = y
    /\ \A x, y \in NewlyGiven : Grants'[x].lease = Grants'[y].lease => x = y
    /\ \A x \in NewlyGiven :
        /\ Grants'[x].lease \notin Used
        /\ <<Grants'[x].worker, Grants'[x].gpu>> \notin Reserved
    /\ Over \subseteq Over'
    /\ \A x \in Over' : ~(Grants'[x] # Unleased)
    /\ Used' = Used \cup {Grants'[x].lease : x \in NewlyGiven}
    /\ Reserved' = Reserved

(* The round of GpuLeasing, in these names. *)
LEMMA RoundIsRound == RoundOf => Leasing!Round
  BY DEF RoundOf, NewlyGiven, Leasing!Round, Leasing!Exclusive, Leasing!Given,
         Leasing!Has, Leasing!NoGrant, GrantsOf, Grants, Unleased, Over, Used,
         Reserved

(* The commit of a transaction that ends and gives leases is a round. *)
LEMMA CommitIsRound ==
    ASSUME IInv, NEW c \in Callers, Commit(c), RoundTo(disk, db)
    PROVE  RoundOf
  <1> DEFINE G  == GrantsOf(disk.row)
             G1 == GrantsOf(db.row)
             N  == {z \in Work : G1[z] # Unleased /\ G1[z] # G[z]}
             U  == {G1[x].lease : x \in N}
  <1>1. Good(disk) /\ Good(db)
    BY DEF IInv, DataOK
  <1>2. disk' = db /\ Grants = G /\ Grants' = G1 /\ NewlyGiven = N
    BY DEF Commit, Grants, NewlyGiven
  <1>3. \A x \in Work : /\ G1[x] # Unleased <=> Held(db.row[x])
                        /\ Held(db.row[x]) => /\ G1[x].worker = db.row[x].worker
                                              /\ G1[x].gpu = db.row[x].gpu
                                              /\ G1[x].lease = db.row[x].lease
    BY <1>1, GrantsMean
  <1>4. \A x \in N : x \in Work /\ Held(db.row[x]) /\ NewIn(disk, db, x)
    BY <1>1, <1>3, GrantsDiffer DEF RoundTo
  <1>5. \A x, y \in Work : Held(db.row[x]) /\ Held(db.row[y]) /\ x # y =>
            db.row[x].gpu # db.row[y].gpu /\ db.row[x].lease # db.row[y].lease
    BY <1>1 DEF Good
  <1>6. \A x \in Work : Held(db.row[x]) => /\ db.row[x].lease \in Nat
                                           /\ db.row[x].worker \in Workers
                                           /\ db.row[x].gpu \in Gpus
    BY <1>1 DEF Good, Database, Row
  <1>7. disk.next \in Nat /\ \A t \in issued : t.lease \in Nat /\ t.lease < disk.next
    BY <1>1 DEF Good, Database, IInv, IssuedOK
  <1>8. \A x \in Work : Held(db.row[x]) /\ x \notin N => TokenOf(db, x) \in issued
    <2> SUFFICES ASSUME NEW x \in Work, Held(db.row[x]), x \notin N
                 PROVE  TokenOf(db, x) \in issued
      OBVIOUS
    <2>1. Kept(disk, db, x)
      BY <1>1, <1>3, GrantsDiffer
    <2> QED
      BY <2>1 DEF Kept, TokenOf, IInv, IssuedOK
  <1> HIDE DEF N, G, G1
  <1>9. ASSUME NEW x \in N
        PROVE  G1[x].lease \notin Used /\ <<G1[x].worker, G1[x].gpu>> \notin Reserved
    <2>1. /\ x \in Work /\ Held(db.row[x]) /\ disk.next <= db.row[x].lease
          /\ disk.fence[<<db.row[x].worker, db.row[x].gpu>>] = 0
      BY <1>4, <1>9 DEF NewIn
    <2> QED
      BY <1>3, <1>6, <1>7, <2>1 DEF Used, Reserved, Blocked
  <1>10. Used' = Used \cup U
    <2>1. issued' = issued \cup {TokenOf(db, x) : x \in {y \in Work : Held(db.row[y])}}
      BY CommitIssued
    <2>2. \A x \in Work : Held(db.row[x]) => TokenOf(db, x).lease = G1[x].lease
      BY <1>3 DEF TokenOf
    <2>3. ASSUME NEW l, l \in Used' PROVE l \in Used \cup U
      <3>1. PICK t \in issued' : l = t.lease
        BY <2>3 DEF Used
      <3>2. CASE t \in issued
        BY <3>1, <3>2 DEF Used
      <3>3. CASE t \notin issued
        <4>1. PICK x \in Work : Held(db.row[x]) /\ t = TokenOf(db, x)
          BY <2>1, <3>1, <3>3
        <4>2. x \in N /\ l = G1[x].lease
          BY <1>8, <2>2, <3>1, <3>3, <4>1
        <4> QED
          BY <4>2
      <3> QED
        BY <3>2, <3>3
    <2>4. ASSUME NEW x \in N PROVE G1[x].lease \in Used'
      <3>1. TokenOf(db, x) \in issued' /\ TokenOf(db, x).lease = G1[x].lease
        BY <1>4, <2>1, <2>2, <2>4
      <3> QED
        BY <3>1 DEF Used
    <2>5. Used \subseteq Used'
      BY <2>1 DEF Used
    <2> QED
      BY <2>3, <2>4, <2>5
  <1>11. Reserved' = Reserved
    BY <1>2 DEF Reserved, Blocked, RoundTo
  <1>12. Over \subseteq Over' /\ \A x \in Over' : x \in Work /\ ~Held(db.row[x])
    BY <1>2, StatusParts DEF Over, RoundTo
  <1> QED
    BY <1>2, <1>3, <1>4, <1>5, <1>9, <1>10, <1>11, <1>12 DEF RoundOf

(* The commit of a reservation is one of GpuLeasing. *)
ReserveOf(x) ==
    /\ Grants[x] # Unleased
    /\ <<Grants[x].worker, Grants[x].gpu>> \notin Reserved
    /\ Reserved' = Reserved \cup {<<Grants[x].worker, Grants[x].gpu>>}
    /\ Grants' = Grants /\ Over' = Over /\ Used' = Used

LEMMA ReserveIsReserve ==
    ASSUME NEW x \in Work, ReserveOf(x)
    PROVE  Leasing!Reserve(x)
  BY DEF ReserveOf, Leasing!Reserve, Leasing!Has, Leasing!NoGrant, GrantsOf, Grants,
         Unleased, Over, Used, Reserved

LEMMA CommitReserves ==
    ASSUME IInv, NEW c \in Callers, Commit(c), ReserveTo(disk, db)
    PROVE  \E x \in Work : ReserveOf(x)
  <1>1. Good(disk) /\ disk' = db /\ db.row = disk.row
    BY DEF IInv, DataOK, Commit, ReserveTo
  <1>2. PICK x \in Work :
            /\ Held(disk.row[x]) /\ disk.fence[<<disk.row[x].worker, disk.row[x].gpu>>] = 0
            /\ db.fence = [disk.fence EXCEPT ![<<disk.row[x].worker, disk.row[x].gpu>>]
                                            = disk.row[x].lease]
    BY DEF ReserveTo
  <1> DEFINE p == <<disk.row[x].worker, disk.row[x].gpu>>
  <1>3. /\ p \in Workers \X Gpus /\ disk.row[x].lease # 0
        /\ disk.fence \in [Workers \X Gpus -> Nat]
    BY <1>1, <1>2 DEF Good, Database
  <1>4. /\ Grants[x] # Unleased /\ Grants[x].worker = disk.row[x].worker
        /\ Grants[x].gpu = disk.row[x].gpu
    BY <1>1, <1>2, GrantsMean DEF Grants
  <1>5. Grants' = Grants /\ Over' = Over
    BY <1>1 DEF Grants, Over
  <1>6. issued' = issued
    BY <1>1, CommitIssued DEF TokenOf, IInv, IssuedOK
  <1>7. p \notin Reserved /\ Reserved' = Reserved \cup {p}
    <2>1. disk.fence[p] = 0 /\ db.fence = [disk.fence EXCEPT ![p] = disk.row[x].lease]
      BY <1>2
    <2> HIDE DEF p
    <2> QED
      BY <1>1, <1>3, <2>1 DEF Reserved, Blocked
  <1>8. ReserveOf(x)
    BY <1>4, <1>5, <1>6, <1>7 DEF ReserveOf, Used
  <1> QED
    BY <1>8

(* Nothing but a commit changes what GpuLeasing speaks of. *)
LEMMA OthersStutter ==
    ASSUME IInv, [Next]_vars, ~\E c \in Callers : Commit(c)
    PROVE  Grants' = Grants /\ Over' = Over /\ Used' = Used /\ Reserved' = Reserved
  <1>1. Used' = Used
    BY NewTokens DEF Used
  <1>2. CASE Tick
    <2>1. disk' = Aged(disk) /\ disk \in Database /\ Good(disk)
      BY <1>2 DEF Tick, IInv, DataOK, Good
    <2>2. \A x \in Work : /\ Held(disk'.row[x]) <=> Held(disk.row[x])
                          /\ Final(disk'.row[x]) <=> Final(disk.row[x])
                          /\ disk'.row[x].worker = disk.row[x].worker
                          /\ disk'.row[x].gpu = disk.row[x].gpu
                          /\ disk'.row[x].lease = disk.row[x].lease
      BY <2>1, AgedIs, AgedMoves
    <2>3. disk'.fence = disk.fence
      BY <2>1, AgedIs
    <2>4. Grants' = Grants
      BY <2>2 DEF Grants, GrantsOf
    <2> QED
      BY <1>1, <2>2, <2>3, <2>4 DEF Over, Reserved, Blocked
  <1>3. CASE disk' = disk
    BY <1>1, <1>3 DEF Grants, Over, Reserved
  <1>4. CASE \/ \E c \in Clients : \/ RequestWorker(c) \/ RequestClient(c)
                                   \/ RequestHolder(c) \/ CallClose(c)
             \/ TriggerPass
    BY <1>3, <1>4 DEF RequestWorker, RequestClient, RequestHolder, CallClose,
                      TriggerPass, Enqueue
  <1>5. CASE ChainStep
    BY <1>3, <1>5 DEF ChainStep, Run, Refuse, Close, PassStep, RunPass, Assign, EndPass
  <1>6. CASE (\E c \in Callers : Rollback(c)) \/ Restart \/ UNCHANGED vars
    BY <1>3, <1>6 DEF Rollback, Restart, vars
  <1> QED
    BY <1>2, <1>4, <1>5, <1>6 DEF Next

LEMMA StutterIsStutter ==
    ASSUME Grants' = Grants, Over' = Over, Used' = Used, Reserved' = Reserved
    PROVE  UNCHANGED Leasing!vars
  BY DEF Leasing!vars, Grants, GrantsOf, Unleased, Over, Used, Reserved

(* The control plane on SQLite keeps the same promise as the one on          *)
(* PostgreSQL: each COMMIT of persistence/sqlite.mjs is a round of           *)
(* GpuLeasing or a reservation, and every statement, rollback, crash and     *)
(* restart between two commits changes nothing it speaks of.                 *)
THEOREM ImplementsLeasing == Spec => LeasingSpec
  <1>1. ASSUME Init PROVE Leasing!Init
    <2>1. disk = Empty /\ issued = {}
      BY <1>1 DEF Init
    <2>2. \A x \in Work : disk.row[x].status = "absent"
      BY <2>1 DEF Empty, Released
    <2>3. \A x \in Work : ~Held(disk.row[x]) /\ ~Final(disk.row[x])
      BY <2>2, StatusParts
    <2>4. Blocked(disk) = {}
      BY <2>1 DEF Empty, Blocked
    <2> QED
      BY <2>1, <2>3, <2>4 DEF Leasing!Init, Leasing!NoGrant
  <1>2. ASSUME IInv, [Next]_vars PROVE [Leasing!Next]_(Leasing!vars)
    <2>1. ASSUME NEW c \in Callers, Commit(c) PROVE Leasing!Next
      <3>1. CASE RoundTo(disk, db)
        BY <1>2, <2>1, <3>1, CommitIsRound, RoundIsRound DEF Leasing!Next
      <3>2. CASE ReserveTo(disk, db)
        BY <1>2, <2>1, <3>2, CommitReserves, ReserveIsReserve DEF Leasing!Next
      <3> QED
        BY <1>2, <3>1, <3>2 DEF IInv, DataOK
    <2>2. CASE ~\E c \in Callers : Commit(c)
      BY <1>2, <2>2, OthersStutter, StutterIsStutter
    <2> QED
      BY <2>1, <2>2
  <1> QED
    BY <1>1, <1>2, Inductive, PTL DEF Spec, LeasingSpec, Leasing!Spec
=============================================================================

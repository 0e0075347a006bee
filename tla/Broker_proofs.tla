--------------------------- MODULE Broker_proofs ---------------------------
(***************************************************************************)
(* Proofs about Broker, for any number of attempts, leases and GPUs.       *)
(*                                                                         *)
(* None of the invariants is inductive by itself: what makes a second send *)
(* or a second child impossible is where the process is (Busy), what it    *)
(* has made durable before it went there (ClaimsOK, JournalsOK) and what   *)
(* the control plane had written when it answered (AttemptsOK).            *)
(***************************************************************************)
EXTENDS Broker, TLAPS

Places == {"down", "ready", "pending", "reserving", "capturing", "spawning",
           "intended", "spawned"}

Answers == {"none", "reserved", "denied", "held", "not_found", "unconfirmed"}

BrokerType == [pc : Places, for : Attempts \cup {None}, answer : Answers, epoch : Nat]

Types == TypeOK /\ broker \in BrokerType

(* Where the process is, and for which attempt. *)
Busy ==
    /\ broker.pc \in {"down", "ready"} \/ broker.for \in Attempts
    /\ broker.pc \in {"pending", "reserving"} =>
        claims[broker.for].status = "pending"
    /\ broker.pc = "pending" => sent[broker.for] = 0
    /\ broker.pc = "reserving" /\ broker.answer = "reserved" =>
        broker.epoch # 0 /\ broker.epoch = attempt[broker.for]
    /\ broker.pc \in {"capturing", "spawning", "intended", "spawned"} =>
        claims[broker.for].epoch # 0
    /\ broker.pc = "spawning" => probe[broker.for] = NoProbe
    /\ broker.pc = "intended" => children[broker.for] = 0
    /\ broker.pc \in {"intended", "spawned"} => probe[broker.for].rows # 0

(* A claim is sent at most once and has no epoch before it is acknowledged. *)
ClaimsOK ==
    \A a \in Attempts :
        /\ sent[a] <= 1
        /\ claims[a].status = "none" => sent[a] = 0
        /\ claims[a].status \in {"none", "pending"} => claims[a].epoch = 0
        /\ claims[a].epoch # 0 => claims[a].epoch = attempt[a]

(* A fence that was taken stays with the attempt that took it. *)
AttemptsOK ==
    /\ \A a \in Attempts : attempt[a] # 0 =>
        /\ fence[Gpu(a)].epoch = attempt[a] /\ fence[Gpu(a)].for = a
        /\ \A l \in current : GpuOf[l] = Gpu(a) => l = LeaseOf[a]
    /\ \A k, l \in current : GpuOf[k] = GpuOf[l] => k = l

(* Bindings and probes carry the epoch of their claim, and a child has an *)
(* intent.                                                                *)
JournalsOK ==
    \A a \in Attempts :
        /\ binding[a] # 0 => binding[a] = claims[a].epoch
        /\ probe[a].rows # 0 => probe[a].epoch = claims[a].epoch /\ claims[a].epoch # 0
        /\ children[a] <= 1
        /\ children[a] = 1 => probe[a].rows # 0

IInv == Types /\ Busy /\ ClaimsOK /\ AttemptsOK /\ JournalsOK

----------------------------------------------------------------------------
LEMMA InitInv == Init => IInv
  <1> SUFFICES ASSUME Init PROVE IInv
    OBVIOUS
  <1>1. Types
    <2>1. broker \in BrokerType
      BY DEF Init, Down, BrokerType, Places, Answers
    <2>2. /\ NoClaim \in [status : {"none", "pending", "reserved", "quarantined"}, epoch : Nat]
          /\ NoProbe \in [rows : 0 .. 2, epoch : Nat]
          /\ [epoch |-> 0, for |-> None] \in [epoch : Nat, for : Attempts \cup {None}]
      BY DEF NoClaim, NoProbe
    <2>3. /\ claims \in [Attempts ->
                [status : {"none", "pending", "reserved", "quarantined"}, epoch : Nat]]
          /\ probe \in [Attempts -> [rows : 0 .. 2, epoch : Nat]]
          /\ fence \in [Gpus -> [epoch : Nat, for : Attempts \cup {None}]]
      BY <2>2 DEF Init
    <2> QED
      BY <2>1, <2>3 DEF Init, Types, TypeOK, BrokerType
  <1>2. Busy
    BY DEF Init, Busy, Down
  <1>3. ClaimsOK /\ AttemptsOK /\ JournalsOK
    BY DEF Init, ClaimsOK, AttemptsOK, JournalsOK, NoClaim, NoProbe
  <1> QED
    BY <1>1, <1>2, <1>3 DEF IInv

(* Every attempt is on a GPU of the table of fences. *)
LEMMA GpuType == \A a \in Attempts : Gpu(a) \in Gpus
  BY BrokerAssumption DEF Gpu, Gpus

LEMMA GrantLeaseInv == ASSUME IInv, NEW l \in Leases, GrantLease(l) PROVE IInv'
  <1> USE DEF GrantLease, IInv, journal
  <1>1. Types'
    BY DEF Types, TypeOK
  <1>2. Busy' /\ ClaimsOK' /\ JournalsOK'
    BY DEF Busy, ClaimsOK, JournalsOK
  <1>3. AttemptsOK'
    BY GpuType, BrokerAssumption DEF AttemptsOK, Clear, Gpu
  <1> QED
    BY <1>1, <1>2, <1>3

LEMMA EndLeaseInv == ASSUME IInv, NEW l \in Leases, EndLease(l) PROVE IInv'
  BY DEF EndLease, journal, IInv, Types, TypeOK, Busy, ClaimsOK, AttemptsOK, JournalsOK, Gpu

LEMMA ServeReserveInv == ASSUME IInv, NEW a \in Attempts, ServeReserve(a) PROVE IInv'
  <1> USE DEF IInv
  <1> DEFINE e == fence[Gpu(a)].epoch + 1
             f == [epoch |-> e, for |-> a]
             b == Told("reserved", e)
  <1>1. Gpu(a) \in Gpus /\ e \in Nat \ {0} /\ fence[Gpu(a)].for = None /\ attempt[a] = 0
    BY GpuType DEF ServeReserve, Types, TypeOK, MayReserve, Clear
  <1>2. /\ fence' = [fence EXCEPT ![Gpu(a)] = f]
        /\ attempt' = [attempt EXCEPT ![a] = e]
        /\ broker' = IF broker.pc = "reserving" /\ broker.for = a THEN b ELSE broker
        /\ net' = net \ {a} /\ LeaseOf[a] \in current
        /\ UNCHANGED <<claims, binding, probe, ledger, socket, current, granted,
                       sent, children>>
    BY DEF ServeReserve, Answered, journal, MayReserve
  <1>3. f \in [epoch : Nat, for : Attempts \cup {None}] /\ f.epoch = e /\ f.for = a
    BY <1>1
  <1>4. /\ b \in BrokerType /\ broker \in BrokerType
        /\ b.pc = broker.pc /\ b.for = broker.for /\ b.answer = "reserved" /\ b.epoch = e
    BY <1>1 DEF Types, BrokerType, Answers, Told
  <1> HIDE DEF e, f, b
  <1>6. Types'
    <2>1. fence' \in [Gpus -> [epoch : Nat, for : Attempts \cup {None}]]
      BY <1>1, <1>2, <1>3 DEF Types, TypeOK
    <2>2. attempt' \in [Attempts -> Nat]
      BY <1>1, <1>2 DEF Types, TypeOK
    <2>3. broker' \in BrokerType
      BY <1>2, <1>4
    <2> QED
      BY <1>2, <2>1, <2>2, <2>3 DEF Types, TypeOK, BrokerType
  <1>7. Busy'
    BY <1>1, <1>2, <1>4 DEF Busy, Types, TypeOK
  <1>8. ClaimsOK'
    BY <1>1, <1>2 DEF ClaimsOK, Types, TypeOK
  <1>9. AttemptsOK'
    <2>1. \A c \in Attempts : attempt[c] # 0 => Gpu(c) # Gpu(a)
      BY <1>1, BrokerAssumption DEF AttemptsOK
    <2>2. \A l \in current : GpuOf[l] = Gpu(a) => l = LeaseOf[a]
      BY <1>2 DEF AttemptsOK, Gpu
    <2>3. fence'[Gpu(a)] = f /\ attempt'[a] = e
      BY <1>1, <1>2 DEF Types, TypeOK
    <2>4. \A c \in Attempts : c # a => attempt'[c] = attempt[c]
      BY <1>2 DEF Types, TypeOK
    <2>5. \A g \in Gpus : g # Gpu(a) => fence'[g] = fence[g]
      BY <1>2 DEF Types, TypeOK
    <2> QED
      BY <1>2, <1>3, <2>1, <2>2, <2>3, <2>4, <2>5, GpuType DEF AttemptsOK
  <1>10. JournalsOK'
    BY <1>2 DEF JournalsOK
  <1> QED
    BY <1>6, <1>7, <1>8, <1>9, <1>10

LEMMA AnswerInv ==
    ASSUME IInv, (\E a \in Attempts : DenyReserve(a)) \/ ServeObserve
    PROVE  IInv'
  <1> USE DEF IInv
  <1>1. PICK s \in Answers \ {"reserved"}, e \in Nat, N \in SUBSET Attempts :
            /\ broker' \in {broker, Told(s, e)}
            /\ net' = N
            /\ UNCHANGED <<claims, binding, probe, ledger, socket, cp, sent, children>>
    <2>1. CASE ServeObserve
      <3>1. Disposition(broker.for) \in Answers \ {"reserved"}
        BY DEF Disposition, Answers
      <3>2. attempt[broker.for] \in Nat
        BY <2>1 DEF ServeObserve, Busy, Types, TypeOK
      <3> QED
        BY <2>1, <3>1, <3>2 DEF ServeObserve, Types, TypeOK, journal
    <2>2. CASE \E a \in Attempts : DenyReserve(a)
      <3>1. "denied" \in Answers \ {"reserved"} /\ 0 \in Nat
        BY DEF Answers
      <3>2. PICK a \in Attempts : DenyReserve(a)
        BY <2>2
      <3>3. net \ {a} \in SUBSET Attempts
        BY DEF Types, TypeOK
      <3> QED
        BY <3>1, <3>2, <3>3 DEF DenyReserve, Answered, journal
    <2> QED
      BY <2>1, <2>2
  <1>2. /\ broker' \in BrokerType
        /\ broker'.pc = broker.pc /\ broker'.for = broker.for
        /\ broker' = broker \/ broker'.answer = s
    BY <1>1 DEF Types, BrokerType, Told
  <1>3. Types'
    BY <1>1, <1>2 DEF Types, TypeOK, BrokerType, cp
  <1>4. Busy'
    BY <1>1, <1>2 DEF Busy, cp
  <1>5. ClaimsOK' /\ AttemptsOK' /\ JournalsOK'
    BY <1>1 DEF ClaimsOK, AttemptsOK, JournalsOK, cp
  <1> QED
    BY <1>3, <1>4, <1>5

(* The process goes to another place without touching a journal. *)
LEMMA AtType ==
    ASSUME NEW pc \in Places, NEW a \in Attempts \cup {None}
    PROVE  /\ At(pc, a) \in BrokerType
           /\ At(pc, a).pc = pc /\ At(pc, a).for = a /\ At(pc, a).answer = "none"
  BY DEF At, BrokerType, Answers

LEMMA RestType ==
    /\ Ready \in BrokerType /\ Ready.pc = "ready"
    /\ Down \in BrokerType /\ Down.pc = "down"
  <1>1. "ready" \in Places /\ None \in Attempts \cup {None}
    BY DEF Places
  <1> QED
    BY <1>1, AtType DEF Ready, Down, BrokerType, Places, Answers

(* Steps that give up, stop or die: what is durable stays. *)
LEMMA RestInv ==
    ASSUME IInv, broker' \in {Ready, Down}, socket' \in BOOLEAN,
           net' \subseteq net,
           UNCHANGED <<journal, cp, sent, children>>
    PROVE  IInv'
  <1> USE DEF IInv
  <1>1. broker' \in BrokerType /\ broker'.pc \in {"ready", "down"}
    BY RestType
  <1>2. Types'
    BY <1>1 DEF Types, TypeOK, BrokerType, journal, cp
  <1>3. Busy'
    BY <1>1 DEF Busy
  <1>4. ClaimsOK' /\ AttemptsOK' /\ JournalsOK'
    BY DEF ClaimsOK, AttemptsOK, JournalsOK, journal, cp
  <1> QED
    BY <1>2, <1>3, <1>4

LEMMA StopInv ==
    ASSUME IInv, Stop \/ Crash \/ RemoveSocket \/ Uncertain \/ Deny
    PROVE  IInv'
  <1>1. net' \subseteq net
    BY DEF Stop, Crash, RemoveSocket, Uncertain, Deny
  <1>2. socket' \in BOOLEAN
    BY DEF Stop, Crash, RemoveSocket, Uncertain, Deny, IInv, Types, TypeOK
  <1>3. broker' \in {Ready, Down} /\ UNCHANGED <<journal, cp, sent, children>>
    BY DEF Stop, Crash, RemoveSocket, Uncertain, Deny
  <1> QED
    BY <1>1, <1>2, <1>3, RestInv

(* Quarantine keeps the epochs, and no claim becomes a new one by it. *)
LEMMA QuarantinedClaim ==
    ASSUME NEW c \in [status : {"none", "pending", "reserved", "quarantined"}, epoch : Nat]
    PROVE  /\ Quarantined(c) \in
                [status : {"none", "pending", "reserved", "quarantined"}, epoch : Nat]
           /\ Quarantined(c).epoch = c.epoch
           /\ Quarantined(c).status = "none" <=> c.status = "none"
           /\ Quarantined(c).status # "pending"
  BY DEF Quarantined

LEMMA StartInv == ASSUME IInv, Start PROVE IInv'
  <1> USE DEF IInv
  <1>1. /\ claims' \in [Attempts ->
                [status : {"none", "pending", "reserved", "quarantined"}, epoch : Nat]]
        /\ \A a \in Attempts : /\ claims'[a].epoch = claims[a].epoch
                               /\ claims'[a].status = "none" <=> claims[a].status = "none"
                               /\ claims'[a].status # "pending"
    BY QuarantinedClaim DEF Start, Types, TypeOK
  <1>2. ledger' \in [Local -> {"none", "reserved", "cancelled", "quarantined"}]
    BY DEF Start, QuarantinedLedger, Types, TypeOK
  <1>3. /\ broker' \in BrokerType /\ broker'.pc \in {"ready", "down"}
        /\ socket' \in BOOLEAN
    BY RestType DEF Start, Types, TypeOK
  <1>4. UNCHANGED <<binding, probe, net, current, granted, attempt, fence, sent, children>>
    BY DEF Start, cp
  <1>5. Types'
    BY <1>1, <1>2, <1>3, <1>4 DEF Types, TypeOK, BrokerType
  <1>6. Busy'
    BY <1>3 DEF Busy
  <1>7. ClaimsOK' /\ AttemptsOK' /\ JournalsOK'
    BY <1>1, <1>4 DEF ClaimsOK, AttemptsOK, JournalsOK
  <1> QED
    BY <1>5, <1>6, <1>7

LEMMA ReserveInv == ASSUME IInv, NEW a \in Attempts, Reserve(a) PROVE IInv'
  <1> USE DEF IInv
  <1>1. broker' \in BrokerType /\ broker'.pc = "pending" /\ broker'.for = a
    BY AtType DEF Reserve, Places
  <1>2. /\ claims[a].status = "none" /\ claims[a].epoch = 0
        /\ claims' = [claims EXCEPT ![a].status = "pending"]
        /\ UNCHANGED <<binding, probe, ledger, socket, net, current, granted, attempt,
                       fence, sent, children>>
    BY DEF Reserve, NoClaim, cp
  <1>3. /\ claims' \in [Attempts ->
                [status : {"none", "pending", "reserved", "quarantined"}, epoch : Nat]]
        /\ claims'[a].status = "pending" /\ claims'[a].epoch = 0
        /\ \A b \in Attempts : b # a => claims'[b] = claims[b]
    BY <1>2 DEF Types, TypeOK
  <1>4. Types'
    BY <1>1, <1>2, <1>3 DEF Types, TypeOK, BrokerType
  <1>5. Busy'
    BY <1>1, <1>2, <1>3 DEF Busy, ClaimsOK
  <1>6. ClaimsOK' /\ AttemptsOK' /\ JournalsOK'
    BY <1>2, <1>3 DEF ClaimsOK, AttemptsOK, JournalsOK
  <1> QED
    BY <1>4, <1>5, <1>6

LEMMA SendReserveInv == ASSUME IInv, SendReserve PROVE IInv'
  <1> USE DEF IInv
  <1> DEFINE a == broker.for
  <1>1. a \in Attempts /\ sent[a] = 0 /\ claims[a].status = "pending"
    BY DEF SendReserve, Busy
  <1>2. broker' \in BrokerType /\ broker'.pc = "reserving" /\ broker'.for = a
        /\ broker'.answer = "none"
    BY <1>1, AtType DEF SendReserve, Places
  <1>3. /\ sent' \in [Attempts -> Nat] /\ sent'[a] = 1
        /\ \A b \in Attempts : b # a => sent'[b] = sent[b]
        /\ net' = net \cup {a}
        /\ UNCHANGED <<claims, binding, probe, ledger, socket, current, granted, attempt,
                       fence, children>>
    BY <1>1 DEF SendReserve, Types, TypeOK, journal, cp
  <1> HIDE DEF a
  <1>4. Types'
    BY <1>1, <1>2, <1>3 DEF Types, TypeOK, BrokerType
  <1>5. Busy'
    BY <1>1, <1>2, <1>3 DEF Busy
  <1>6. ClaimsOK' /\ AttemptsOK' /\ JournalsOK'
    BY <1>1, <1>3 DEF ClaimsOK, AttemptsOK, JournalsOK
  <1> QED
    BY <1>4, <1>5, <1>6

LEMMA AcknowledgeInv == ASSUME IInv, Acknowledge PROVE IInv'
  <1> USE DEF IInv
  <1> DEFINE a == broker.for
             c == [status |-> "reserved", epoch |-> broker.epoch]
  <1>1. /\ a \in Attempts /\ claims[a].status = "pending" /\ claims[a].epoch = 0
        /\ broker.epoch # 0 /\ broker.epoch = attempt[a] /\ broker.epoch \in Nat
    BY DEF Acknowledge, Busy, ClaimsOK, Types, TypeOK
  <1>2. broker' \in BrokerType /\ broker'.pc = "ready"
    BY RestType DEF Acknowledge
  <1>3. /\ c \in [status : {"none", "pending", "reserved", "quarantined"}, epoch : Nat]
        /\ c.status = "reserved" /\ c.epoch = broker.epoch
    BY <1>1
  <1>4. /\ claims' = [claims EXCEPT ![a] = c]
        /\ UNCHANGED <<binding, probe, ledger, socket, net, current, granted, attempt,
                       fence, sent, children>>
    BY DEF Acknowledge, cp
  <1> HIDE DEF a, c
  <1>5. /\ claims' \in [Attempts ->
                [status : {"none", "pending", "reserved", "quarantined"}, epoch : Nat]]
        /\ claims'[a].status = "reserved" /\ claims'[a].epoch = attempt[a]
        /\ \A b \in Attempts : b # a => claims'[b] = claims[b]
    BY <1>1, <1>3, <1>4 DEF Types, TypeOK
  <1>6. Types'
    BY <1>2, <1>4, <1>5 DEF Types, TypeOK, BrokerType
  <1>7. Busy'
    BY <1>2 DEF Busy
  <1>8. ClaimsOK'
    BY <1>1, <1>4, <1>5 DEF ClaimsOK
  <1>9. AttemptsOK'
    BY <1>4 DEF AttemptsOK
  <1>10. JournalsOK'
    BY <1>1, <1>4, <1>5 DEF JournalsOK
  <1> QED
    BY <1>6, <1>7, <1>8, <1>9, <1>10

LEMMA AskInv == ASSUME IInv, NEW a \in Attempts, AskCapture(a) \/ AskSpawn(a) PROVE IInv'
  <1> USE DEF IInv
  <1>1. /\ broker' \in BrokerType /\ broker'.pc \in {"capturing", "spawning"}
        /\ broker'.for = a
        /\ broker'.pc = "spawning" => probe[a] = NoProbe
    BY AtType DEF AskCapture, AskSpawn, Places
  <1>2. /\ claims[a].epoch # 0
        /\ UNCHANGED <<claims, binding, probe, ledger, socket, net, current, granted,
                       attempt, fence, sent, children>>
    BY DEF AskCapture, AskSpawn, Acknowledged, journal, cp
  <1>3. Types'
    BY <1>1, <1>2 DEF Types, TypeOK, BrokerType
  <1>4. Busy'
    BY <1>1, <1>2 DEF Busy
  <1>5. ClaimsOK' /\ AttemptsOK' /\ JournalsOK'
    BY <1>2 DEF ClaimsOK, AttemptsOK, JournalsOK
  <1> QED
    BY <1>3, <1>4, <1>5

LEMMA CaptureInv == ASSUME IInv, Capture PROVE IInv'
  <1> USE DEF IInv
  <1>1. /\ broker.for \in Attempts
        /\ binding' = [binding EXCEPT ![broker.for] = claims[broker.for].epoch]
        /\ UNCHANGED <<claims, probe, ledger, socket, net, current, granted, attempt,
                       fence, sent, children>>
    BY DEF Capture, Confirmed, Busy, cp
  <1>2. broker' \in BrokerType /\ broker'.pc = "ready"
    BY RestType DEF Capture
  <1>3. binding' \in [Attempts -> Nat]
    BY <1>1 DEF Types, TypeOK
  <1>4. Types'
    BY <1>1, <1>2, <1>3 DEF Types, TypeOK, BrokerType
  <1>5. Busy'
    BY <1>2 DEF Busy
  <1>6. ClaimsOK' /\ AttemptsOK'
    BY <1>1 DEF ClaimsOK, AttemptsOK
  <1>7. JournalsOK'
    BY <1>1 DEF JournalsOK, Types, TypeOK
  <1> QED
    BY <1>4, <1>5, <1>6, <1>7

(* An intent, and the identity of a child, carry the epoch of the claim. *)
LEMMA ProbeInv ==
    ASSUME IInv, NEW n \in 1 .. 2,
           broker.for \in Attempts, claims[broker.for].epoch # 0,
           probe' = [probe EXCEPT ![broker.for] =
                        [rows |-> n, epoch |-> claims[broker.for].epoch]],
           UNCHANGED <<claims, binding, ledger, socket, net, cp, sent, children>>,
           broker' \in BrokerType,
           \/ broker'.pc = "ready"
           \/ /\ broker'.pc = "intended" /\ broker'.for = broker.for
              /\ children[broker.for] = 0
    PROVE  IInv'
  <1> USE DEF IInv, cp
  <1> DEFINE p == [rows |-> n, epoch |-> claims[broker.for].epoch]
  <1>1. p \in [rows : 0 .. 2, epoch : Nat] /\ p.rows # 0 /\ p.epoch = claims[broker.for].epoch
    BY DEF Types, TypeOK
  <1>2. probe' = [probe EXCEPT ![broker.for] = p]
    OBVIOUS
  <1> HIDE DEF p
  <1>3. /\ probe' \in [Attempts -> [rows : 0 .. 2, epoch : Nat]]
        /\ probe'[broker.for] = p
        /\ \A b \in Attempts : b # broker.for => probe'[b] = probe[b]
    BY <1>1, <1>2 DEF Types, TypeOK
  <1>4. Types'
    BY <1>3 DEF Types, TypeOK, BrokerType
  <1>5. Busy'
    BY <1>1, <1>3 DEF Busy
  <1>6. ClaimsOK' /\ AttemptsOK'
    BY DEF ClaimsOK, AttemptsOK
  <1>7. JournalsOK'
    BY <1>1, <1>3 DEF JournalsOK
  <1> QED
    BY <1>4, <1>5, <1>6, <1>7

LEMMA IntendInv == ASSUME IInv, Intend PROVE IInv'
  <1>1. /\ broker.for \in Attempts /\ claims[broker.for].epoch # 0
        /\ probe[broker.for].rows = 0
    BY DEF Intend, Confirmed, IInv, Busy, NoProbe
  <1>2. children[broker.for] = 0
    <2>1. /\ children[broker.for] \in Nat /\ children[broker.for] <= 1
          /\ children[broker.for] = 1 => probe[broker.for].rows # 0
      BY <1>1 DEF IInv, JournalsOK, Types, TypeOK
    <2> QED
      BY <1>1, <2>1
  <1>3. broker' \in BrokerType /\ broker'.pc = "intended" /\ broker'.for = broker.for
    BY <1>1, AtType DEF Intend, Places
  <1> QED
    BY <1>1, <1>2, <1>3, ProbeInv DEF Intend

LEMMA RecordChildInv == ASSUME IInv, RecordChild PROVE IInv'
  <1>1. broker.for \in Attempts /\ claims[broker.for].epoch # 0
    BY DEF RecordChild, IInv, Busy
  <1>2. broker' \in BrokerType /\ broker'.pc = "ready"
    BY RestType DEF RecordChild
  <1> QED
    BY <1>1, <1>2, ProbeInv DEF RecordChild

LEMMA SpawnInv == ASSUME IInv, Spawn PROVE IInv'
  <1> USE DEF IInv
  <1> DEFINE a == broker.for
  <1>1. /\ a \in Attempts /\ children[a] = 0 /\ probe[a].rows # 0
        /\ claims[a].epoch # 0
    BY DEF Spawn, Busy
  <1>2. broker' \in BrokerType /\ broker'.pc = "spawned" /\ broker'.for = a
    BY <1>1, AtType DEF Spawn, Places
  <1>3. /\ children' \in [Attempts -> Nat] /\ children'[a] = 1
        /\ \A b \in Attempts : b # a => children'[b] = children[b]
        /\ UNCHANGED <<claims, binding, probe, ledger, socket, net, current, granted,
                       attempt, fence, sent>>
    BY <1>1 DEF Spawn, Types, TypeOK, journal, cp
  <1> HIDE DEF a
  <1>4. Types'
    BY <1>2, <1>3 DEF Types, TypeOK, BrokerType
  <1>5. Busy'
    BY <1>1, <1>2, <1>3 DEF Busy
  <1>6. ClaimsOK' /\ AttemptsOK'
    BY <1>3 DEF ClaimsOK, AttemptsOK
  <1>7. JournalsOK'
    BY <1>1, <1>3 DEF JournalsOK
  <1> QED
    BY <1>4, <1>5, <1>6, <1>7

(* The local ledger is not connected with the claims. *)
LEMMA LedgerInv == ASSUME IInv, NEW a \in Local, Claim(a) \/ Cancel(a) PROVE IInv'
  <1> USE DEF IInv, Claim, Cancel, cp
  <1>1. ledger' \in [Local -> {"none", "reserved", "cancelled", "quarantined"}]
    BY DEF Types, TypeOK
  <1>2. Types'
    BY <1>1 DEF Types, TypeOK, BrokerType
  <1>3. Busy' /\ ClaimsOK' /\ AttemptsOK' /\ JournalsOK'
    BY DEF Busy, ClaimsOK, AttemptsOK, JournalsOK
  <1> QED
    BY <1>2, <1>3

LEMMA StepInv == ASSUME IInv, [Next]_vars PROVE IInv'
  <1>1. CASE ControlPlaneNext
    BY <1>1, GrantLeaseInv, EndLeaseInv, ServeReserveInv, AnswerInv DEF ControlPlaneNext
  <1>2. CASE ProcessNext
    BY <1>2, StartInv, StopInv DEF ProcessNext
  <1>3. CASE RequestNext
    BY <1>3, ReserveInv, AskInv, LedgerInv DEF RequestNext
  <1>4. CASE StepNext
    BY <1>4, SendReserveInv, AcknowledgeInv, StopInv, CaptureInv, IntendInv, SpawnInv,
       RecordChildInv DEF StepNext
  <1>5. CASE UNCHANGED vars
    BY <1>5 DEF vars, journal, cp, IInv, Types, TypeOK, Busy, ClaimsOK, AttemptsOK,
       JournalsOK
  <1> QED
    BY <1>1, <1>2, <1>3, <1>4, <1>5 DEF Next

----------------------------------------------------------------------------
(* The theorems *)

(* The inductive invariant: what the process has made durable before each  *)
(* of its places, and which epochs the two sides agree on.                 *)
THEOREM Inductive == Spec => []IInv
  <1>1. IInv /\ [Next]_vars => IInv'
    BY StepInv
  <1> QED
    BY <1>1, InitInv, PTL DEF Spec

(* The journal, the process and the rows of the control plane keep their   *)
(* types.                                                                  *)
THEOREM TypeCorrect == Spec => []TypeOK
  <1>1. IInv => TypeOK
    BY DEF IInv, Types
  <1> QED
    BY <1>1, Inductive, PTL

(* No attempt is sent twice (broker_authority_bridge.py reserve: durable   *)
(* before it is sent, never retried, quarantined by a restart).            *)
THEOREM NeverSentTwice == Spec => []SentOnce
  <1>1. IInv => SentOnce
    BY DEF IInv, ClaimsOK, SentOnce
  <1> QED
    BY <1>1, Inductive, PTL

(* What the broker has acknowledged is held at the control plane for ever, *)
(* with the epoch it was told.                                             *)
THEOREM AcknowledgedStaysHeld == Spec => []AcknowledgedIsHeld
  <1>1. ASSUME IInv, NEW a \in Attempts, Acknowledged(a)
        PROVE  /\ claims[a].epoch = attempt[a]
               /\ fence[Gpu(a)] = [epoch |-> claims[a].epoch, for |-> a]
    <2>1. claims[a].epoch = attempt[a] /\ attempt[a] # 0
      BY <1>1 DEF IInv, ClaimsOK, Acknowledged
    <2>2. fence[Gpu(a)].epoch = attempt[a] /\ fence[Gpu(a)].for = a
      BY <1>1, <2>1 DEF IInv, AttemptsOK
    <2>3. fence[Gpu(a)] \in [epoch : Nat, for : Attempts \cup {None}]
      BY <1>1, GpuType DEF IInv, Types, TypeOK
    <2> QED
      BY <2>1, <2>2, <2>3
  <1>2. IInv => AcknowledgedIsHeld
    BY <1>1 DEF AcknowledgedIsHeld
  <1> QED
    BY <1>2, Inductive, PTL

(* An attempt has at most one child, and its GPU is kept for it after any  *)
(* crash (synthetic_provenance_d2c.py spawn).                              *)
THEOREM ChildIsFenced == Spec => []OneFencedChild
  <1>1. IInv => OneFencedChild
    BY DEF IInv, JournalsOK, ClaimsOK, AttemptsOK, OneFencedChild
  <1> QED
    BY <1>1, Inductive, PTL

(* The validation at start (host_binding_journal.py and                    *)
(* synthetic_provenance_d2c.py __init__) accepts every journal that a      *)
(* crash can leave behind.                                                 *)
THEOREM RestartNeverRefuses == Spec => []RestartAccepts
  <1>1. ASSUME IInv PROVE RestartAccepts
    <2>1. \A a \in Attempts : Quarantined(claims[a]).epoch = claims[a].epoch
      BY <1>1, QuarantinedClaim DEF IInv, Types, TypeOK
    <2> QED
      BY <1>1, <2>1 DEF RestartAccepts, JournalValid, BindingValid, ProbeValid, IInv,
         JournalsOK
  <1>2. IInv => RestartAccepts
    BY <1>1
  <1> QED
    BY <1>2, Inductive, PTL
=============================================================================

------------------------------- MODULE Broker -------------------------------
(***************************************************************************)
(* The local broker of a worker host and its dealings with the control     *)
(* plane.  The broker is single-threaded and keeps a SQLite journal: the   *)
(* claims it has sent to the control plane (remote_claims), the processes  *)
(* an operator pointed out (host_identity_bindings), the children it has   *)
(* started itself (synthetic_probe_events), and the attempts of its local  *)
(* ledger.  It may die between any two of its steps; what was committed    *)
(* stays.  A request to the control plane is sent, served and answered in  *)
(* separate steps: after the timeout of 1.5 s it may have been lost, or    *)
(* may still be served.                                                    *)
(*                                                                         *)
(* Of the control plane the module keeps the leases that are current, the  *)
(* execution_attempts rows and the gpu_resource_fences rows.               *)
(***************************************************************************)
EXTENDS Integers, FiniteSets

CONSTANTS
    Attempts,   \* attempt ids the worker makes up for the control plane
    Local,      \* attempt ids it makes up for the local ledger
    Leases,     \* leases of this worker
    LeaseOf,    \* the lease an attempt names
    GpuOf,      \* the GPU of a lease
    Process,    \* the process the operator's witness of an attempt names
    None

Gpus == {GpuOf[l] : l \in Leases}

ASSUME BrokerAssumption ==
    /\ LeaseOf \in [Attempts -> Leases]
    /\ None \notin Attempts

VARIABLES
    claims,   \* remote_claims: status and acknowledged fence epoch
    binding,  \* host_identity_bindings: epoch of the row, 0 when there is none
    probe,    \* synthetic_probe_events: the rows of an attempt and their epoch
    ledger,   \* attempts: the local ledger
    broker,   \* the process: where it is, for which attempt, and the answer
    socket,   \* the file of the Unix socket exists
    net,      \* reserve requests on their way to the control plane
    current,  \* leases that are current at the control plane
    granted,  \* leases given so far
    attempt,  \* execution_attempts: fence_epoch of the row, 0 when there is none
    fence,    \* gpu_resource_fences: epoch and attempt that holds it
    sent,     \* history: reserve requests sent per attempt
    children  \* history: processes started per attempt

journal == <<claims, binding, probe, ledger>>
cp      == <<current, granted, attempt, fence>>
vars    == <<journal, broker, socket, net, cp, sent, children>>

Down     == [pc |-> "down", for |-> None, answer |-> "none", epoch |-> 0]
At(pc, a) == [pc |-> pc, for |-> a, answer |-> "none", epoch |-> 0]
Ready    == At("ready", None)

(* The process goes on waiting where it is, with an answer. *)
Told(answer, epoch) ==
    [pc |-> broker.pc, for |-> broker.for, answer |-> answer, epoch |-> epoch]

NoClaim == [status |-> "none", epoch |-> 0]
NoProbe == [rows |-> 0, epoch |-> 0]

Init ==
    /\ claims = [a \in Attempts |-> NoClaim]
    /\ binding = [a \in Attempts |-> 0]
    /\ probe = [a \in Attempts |-> NoProbe]
    /\ ledger = [a \in Local |-> "none"]
    /\ broker = Down
    /\ socket = FALSE
    /\ net = {}
    /\ current = {} /\ granted = {}
    /\ attempt = [a \in Attempts |-> 0]
    /\ fence = [g \in Gpus |-> [epoch |-> 0, for |-> None]]
    /\ sent = [a \in Attempts |-> 0]
    /\ children = [a \in Attempts |-> 0]

----------------------------------------------------------------------------
(* The control plane *)

Gpu(a) == GpuOf[LeaseOf[a]]

Clear(g) == fence[g].for = None

(* A scheduling pass gives no lease on a GPU that is held or fenced. *)
GrantLease(l) ==
    /\ l \notin granted /\ Clear(GpuOf[l])
    /\ \A k \in current : GpuOf[k] # GpuOf[l]
    /\ current' = current \cup {l} /\ granted' = granted \cup {l}
    /\ UNCHANGED <<journal, broker, socket, net, attempt, fence, sent, children>>

(* The lease expires, or its work ends. *)
EndLease(l) ==
    /\ l \in current
    /\ current' = current \ {l}
    /\ UNCHANGED <<journal, broker, socket, net, granted, attempt, fence, sent, children>>

(* Mutation: the upsert of the fence does not ask for a clear one. *)
MutMayReserve(a) == LeaseOf[a] \in current /\ attempt[a] = 0

(* reserveBrokerBoundAttempt: a current lease, a clear fence, a new row. *)
MayReserve(a) == LeaseOf[a] \in current /\ attempt[a] = 0 /\ Clear(Gpu(a))

Answered(a, answer, epoch) ==
    broker' = IF broker.pc = "reserving" /\ broker.for = a
              THEN Told(answer, epoch)
              ELSE broker

(* The fence and the attempt are written in one transaction. *)
ServeReserve(a) ==
    /\ a \in net /\ MayReserve(a)
    /\ LET epoch == fence[Gpu(a)].epoch + 1
       IN  /\ fence' = [fence EXCEPT ![Gpu(a)] = [epoch |-> epoch, for |-> a]]
           /\ attempt' = [attempt EXCEPT ![a] = epoch]
           /\ Answered(a, "reserved", epoch)
    /\ net' = net \ {a}
    /\ UNCHANGED <<journal, socket, current, granted, sent, children>>

(* Denied: for the above, for a worker that is stale or draining, or        *)
(* because a scheduling pass holds the allocation lock.                     *)
DenyReserve(a) ==
    /\ a \in net
    /\ Answered(a, "denied", 0)
    /\ net' = net \ {a}
    /\ UNCHANGED <<journal, socket, cp, sent, children>>

(* observeBrokerBoundAttempt: a read-only snapshot. *)
Disposition(a) ==
    IF attempt[a] = 0 THEN "not_found"
    ELSE IF fence[Gpu(a)] = [epoch |-> attempt[a], for |-> a] THEN "held"
    ELSE "unconfirmed"

ServeObserve ==
    /\ broker.pc \in {"capturing", "spawning"} /\ broker.answer = "none"
    /\ broker' = Told(Disposition(broker.for), attempt[broker.for])
    /\ UNCHANGED <<journal, socket, net, cp, sent, children>>

----------------------------------------------------------------------------
(* The life of the broker process *)

(* Mutation: quarantine also forgets the epoch. *)
MutQuarantined(c) ==
    IF c.status \in {"pending", "reserved"}
    THEN [status |-> "quarantined", epoch |-> 0] ELSE c

(* BrokerAuthorityBridge.__init__: a restart is no proof that a request failed. *)
Quarantined(c) ==
    IF c.status \in {"pending", "reserved"} THEN [c EXCEPT !.status = "quarantined"]
                                            ELSE c

(* BrokerLedger.__init__ *)
QuarantinedLedger(s) == IF s = "reserved" THEN "quarantined" ELSE s

(* HostBindingJournal.__init__: a row matches the claim it was made for. *)
BindingValid(c, a) == binding[a] # 0 => c[a].epoch = binding[a]

(* SyntheticProvenance.__init__ *)
ProbeValid(c, a) == probe[a].rows # 0 => c[a].epoch = probe[a].epoch

JournalValid(c) == \A a \in Attempts : BindingValid(c, a) /\ ProbeValid(c, a)

(* The journal is opened and quarantined before it is validated, and the   *)
(* socket is bound last: a file that a killed broker left is not removed.  *)
(* flock keeps a second broker from getting as far as the journal.         *)
Start ==
    /\ broker = Down
    /\ claims' = [a \in Attempts |-> Quarantined(claims[a])]
    /\ ledger' = [a \in Local |-> QuarantinedLedger(ledger[a])]
    /\ IF JournalValid(claims') /\ ~socket
       THEN broker' = Ready /\ socket' = TRUE
       ELSE UNCHANGED <<broker, socket>>
    /\ UNCHANGED <<binding, probe, net, cp, sent, children>>

(* serve() leaves by its finally clause. *)
Stop ==
    /\ broker = Ready
    /\ broker' = Down /\ socket' = FALSE
    /\ UNCHANGED <<journal, net, cp, sent, children>>

Crash ==
    /\ broker # Down
    /\ broker' = Down
    /\ UNCHANGED <<journal, socket, net, cp, sent, children>>

(* The operator removes the file a dead broker left behind. *)
RemoveSocket ==
    /\ broker = Down /\ socket
    /\ socket' = FALSE
    /\ UNCHANGED <<journal, broker, net, cp, sent, children>>

----------------------------------------------------------------------------
(* reserve-authoritative *)

(* Mutation: the claim is recorded when the answer is there. *)
MutReserve(a) ==
    /\ broker = Ready /\ claims[a] = NoClaim
    /\ broker' = At("pending", a)
    /\ UNCHANGED <<journal, socket, net, cp, sent, children>>

(* The claim is durable before the request leaves; its primary key refuses *)
(* an attempt that has ever been claimed.                                  *)
Reserve(a) ==
    /\ broker = Ready /\ claims[a] = NoClaim
    /\ claims' = [claims EXCEPT ![a].status = "pending"]
    /\ broker' = At("pending", a)
    /\ UNCHANGED <<binding, probe, ledger, socket, net, cp, sent, children>>

SendReserve ==
    /\ broker.pc = "pending"
    /\ broker' = At("reserving", broker.for)
    /\ net' = net \cup {broker.for}
    /\ sent' = [sent EXCEPT ![broker.for] = @ + 1]
    /\ UNCHANGED <<journal, socket, cp, children>>

(* UPDATE ... WHERE status = 'pending' and the answer to the worker. *)
Acknowledge ==
    /\ broker.pc = "reserving" /\ broker.answer = "reserved"
    /\ claims' = [claims EXCEPT ![broker.for] =
                    [status |-> "reserved", epoch |-> broker.epoch]]
    /\ broker' = Ready
    /\ UNCHANGED <<binding, probe, ledger, socket, net, cp, sent, children>>

(* broker_authority_uncertain: denied, malformed, timed out, or the local  *)
(* update failed.  The claim stays pending; nothing is retried.            *)
Uncertain ==
    /\ broker.pc \in {"pending", "reserving"}
    /\ broker' = Ready
    /\ net' \in {net, net \ {broker.for}}
    /\ UNCHANGED <<journal, socket, cp, sent, children>>

----------------------------------------------------------------------------
(* capture-host-binding and spawn-synthetic-probe *)

Acknowledged(a) == claims[a].epoch # 0

AskCapture(a) ==
    /\ broker = Ready
    /\ Acknowledged(a) /\ claims[a].status \in {"reserved", "quarantined"}
    /\ binding[a] = 0
    /\ broker' = At("capturing", a)
    /\ UNCHANGED <<journal, socket, net, cp, sent, children>>

AskSpawn(a) ==
    /\ broker = Ready
    /\ Acknowledged(a) /\ claims[a].status = "reserved"
    /\ binding[a] = 0 /\ probe[a] = NoProbe
    /\ broker' = At("spawning", a)
    /\ UNCHANGED <<journal, socket, net, cp, sent, children>>

Confirmed(pc) ==
    /\ broker.pc = pc
    /\ broker.answer = "held" /\ broker.epoch = claims[broker.for].epoch

(* The witness names a live process no other attempt is bound to. *)
Capture ==
    /\ Confirmed("capturing")
    /\ \A b \in Attempts : binding[b] # 0 => Process[b] # Process[broker.for]
    /\ binding' = [binding EXCEPT ![broker.for] = claims[broker.for].epoch]
    /\ broker' = Ready
    /\ UNCHANGED <<claims, probe, ledger, socket, net, cp, sent, children>>

(* Mutation: the intent is not committed before the child is started. *)
MutIntend ==
    /\ Confirmed("spawning")
    /\ broker' = At("intended", broker.for)
    /\ UNCHANGED <<journal, socket, net, cp, sent, children>>

(* The intent is durable before the child exists. *)
Intend ==
    /\ Confirmed("spawning")
    /\ probe' = [probe EXCEPT ![broker.for] =
                    [rows |-> 1, epoch |-> claims[broker.for].epoch]]
    /\ broker' = At("intended", broker.for)
    /\ UNCHANGED <<claims, binding, ledger, socket, net, cp, sent, children>>

Spawn ==
    /\ broker.pc = "intended"
    /\ children' = [children EXCEPT ![broker.for] = @ + 1]
    /\ broker' = At("spawned", broker.for)
    /\ UNCHANGED <<journal, socket, net, cp, sent>>

(* The child was seen in /proc and its identity is committed. *)
RecordChild ==
    /\ broker.pc = "spawned"
    /\ probe' = [probe EXCEPT ![broker.for] =
                    [rows |-> 2, epoch |-> claims[broker.for].epoch]]
    /\ broker' = Ready
    /\ UNCHANGED <<claims, binding, ledger, socket, net, cp, sent, children>>

(* Not held, another epoch, timed out, no such process, no child, a child  *)
(* that could not be recorded: denied, and what was committed stays.       *)
Deny ==
    /\ broker.pc \in {"capturing", "spawning", "intended", "spawned"}
    /\ broker' = Ready
    /\ UNCHANGED <<journal, socket, net, cp, sent, children>>

----------------------------------------------------------------------------
(* The local ledger *)

(* claim: the fixture grants the intent; its primary key refuses a replay. *)
Claim(a) ==
    /\ broker = Ready /\ ledger[a] = "none"
    /\ ledger' = [ledger EXCEPT ![a] = "reserved"]
    /\ UNCHANGED <<claims, binding, probe, broker, socket, net, cp, sent, children>>

(* Mutation: the column of the state gets the name of the operation. *)
MutCancel(a) ==
    /\ broker = Ready /\ ledger[a] = "reserved"
    /\ ledger' = [ledger EXCEPT ![a] = "cancel"]
    /\ UNCHANGED <<claims, binding, probe, broker, socket, net, cp, sent, children>>

Cancel(a) ==
    /\ broker = Ready /\ ledger[a] = "reserved"
    /\ ledger' = [ledger EXCEPT ![a] = "cancelled"]
    /\ UNCHANGED <<claims, binding, probe, broker, socket, net, cp, sent, children>>

----------------------------------------------------------------------------
ControlPlaneNext ==
    \/ \E l \in Leases : GrantLease(l) \/ EndLease(l)
    \/ \E a \in Attempts : ServeReserve(a) \/ DenyReserve(a)
    \/ ServeObserve

ProcessNext == Start \/ Stop \/ Crash \/ RemoveSocket

RequestNext ==
    \/ \E a \in Attempts : Reserve(a) \/ AskCapture(a) \/ AskSpawn(a)
    \/ \E a \in Local : Claim(a) \/ Cancel(a)

StepNext ==
    \/ SendReserve \/ Acknowledge \/ Uncertain
    \/ Capture \/ Intend \/ Spawn \/ RecordChild \/ Deny

Next == ControlPlaneNext \/ ProcessNext \/ RequestNext \/ StepNext

Spec == Init /\ [][Next]_vars

----------------------------------------------------------------------------
(* Properties *)

(* Types of the journal, the process and the rows of the control plane. *)
TypeOK ==
    /\ claims \in [Attempts ->
            [status : {"none", "pending", "reserved", "quarantined"}, epoch : Nat]]
    /\ binding \in [Attempts -> Nat]
    /\ probe \in [Attempts -> [rows : 0 .. 2, epoch : Nat]]
    /\ ledger \in [Local -> {"none", "reserved", "cancelled", "quarantined"}]
    /\ socket \in BOOLEAN
    /\ net \subseteq Attempts
    /\ current \subseteq granted /\ granted \subseteq Leases
    /\ attempt \in [Attempts -> Nat]
    /\ fence \in [Gpus -> [epoch : Nat, for : Attempts \cup {None}]]
    /\ sent \in [Attempts -> Nat] /\ children \in [Attempts -> Nat]
    /\ broker.for \in Attempts \cup {None} /\ broker.epoch \in Nat

(* An attempt is sent to the control plane at most once in its life, also  *)
(* when the broker dies before, during or after the request and the worker *)
(* asks again.                                                             *)
SentOnce == \A a \in Attempts : sent[a] <= 1

(* An epoch the broker has acknowledged is the epoch of the fence, and the *)
(* fence is held by that attempt: no later reservation, be it one served   *)
(* long after its timeout, takes the GPU from under it.                    *)
AcknowledgedIsHeld ==
    \A a \in Attempts :
        Acknowledged(a) =>
            /\ claims[a].epoch = attempt[a]
            /\ fence[Gpu(a)] = [epoch |-> claims[a].epoch, for |-> a]

(* At most one child is ever started for an attempt.  While it may run its *)
(* GPU stays fenced for the attempt, and no other lease gets the GPU, also *)
(* after the lease of the attempt has ended and the broker was restarted.  *)
OneFencedChild ==
    \A a \in Attempts :
        /\ children[a] <= 1
        /\ children[a] = 1 =>
                /\ fence[Gpu(a)].for = a
                /\ \A l \in current : GpuOf[l] = Gpu(a) => l = LeaseOf[a]

(* Whatever the broker left behind when it died, the next one accepts the  *)
(* journal: its strict validation never locks the host out.                *)
RestartAccepts ==
    JournalValid([a \in Attempts |-> Quarantined(claims[a])])
=============================================================================

--------------------------- MODULE DataPlaneRelay ---------------------------
(***************************************************************************)
(* The WebSocket relay of one control-plane replica.  A client and a       *)
(* worker present grants for the same (session, worker, lease); the relay  *)
(* pairs them in an entry, activates the session and forwards frames until *)
(* the entry closes.  Every await of the code is a step boundary here:     *)
(* sockets may close, timers fire, the session may lose its lease and the  *)
(* notification of that event may arrive between any two steps.            *)
(*                                                                         *)
(* The session rows and the notifications are the control plane's; they    *)
(* are modelled by what the relay can observe of them.                     *)
(***************************************************************************)
EXTENDS Integers, FiniteSets, FiniteSetsExt

CONSTANTS
    Sessions,    \* session ids
    V2,          \* roles whose endpoint speaks gpulink.data-plane.v2
    MaxLeases,   \* bound: allocations of one session
    MaxEntries,  \* bound: pair entries created
    MaxUpgrades, \* bound: upgrade requests being authorized at a time
    QueriesFail  \* whether the queries of a revalidation may fail

Roles == {"client", "worker"}
Other(role) == IF role = "client" THEN "worker" ELSE "client"

ASSUME RelayAssumption ==
    /\ Sessions # {}
    /\ V2 \subseteq Roles
    /\ MaxLeases \in Nat \ {0} /\ MaxEntries \in Nat /\ MaxUpgrades \in Nat
    /\ QueriesFail \in BOOLEAN

VARIABLES
    session,   \* authoritative rows: status, number of the latest lease and
               \* whether its expiry has passed
    notice,    \* a notification of a committed event is on its way
    upgrades,  \* upgrade requests authorized and not yet accepted
    entry,     \* pair entries in order of creation
    reval,     \* revalidationPromise, revalidationPending and its loop
    stopping,  \* "no", "draining" (closed = true), "done"
    aborted    \* history: a revalidation loop has ended early

vars == <<session, notice, upgrades, entry, reval, stopping, aborted>>

Ids == 1 .. MaxEntries

HeldStatus == {"allocated", "connecting", "active"}

(* The row still gives the allocation to this lease. *)
Held(s, l) == session[s].status \in HeldStatus /\ session[s].lease = l

(* authorizeDataPlaneAllocation: held, and not past its expiry. *)
Current(s, l) == Held(s, l) /\ ~session[s].expired

NoReads == [r \in Roles |-> "none"]

NoEntry == [session |-> CHOOSE s \in Sessions : TRUE, lease |-> 0,
            sides |-> {}, phase |-> "idle", read |-> NoReads,
            active |-> FALSE, closed |-> FALSE, late |-> FALSE]

IdleReval == [running |-> FALSE, pending |-> FALSE, todo |-> {}, at |-> 0,
              read |-> {}, stale |-> FALSE]

Init ==
    /\ session = [s \in Sessions |-> [status |-> "allocated", lease |-> 1, expired |-> FALSE]]
    /\ notice = FALSE
    /\ upgrades = {}
    /\ entry = [e \in Ids |-> NoEntry]
    /\ reval = IdleReval
    /\ stopping = "no"
    /\ aborted = FALSE

(* An entry the relay has created, and one it still has in its pairs map. *)
Created(e) == entry[e].lease # 0
Listed(e)  == Created(e) /\ ~entry[e].closed

----------------------------------------------------------------------------
(* The control plane around the relay *)

(* A notification carries nothing the relay uses, so those on their way at *)
(* one time are a flag.  OtherEvent is an event of other work.             *)
OtherEvent ==
    /\ notice' = TRUE
    /\ UNCHANGED <<session, upgrades, entry, reval, stopping, aborted>>

Commit(s, row) ==
    /\ session' = [session EXCEPT ![s] = row]
    /\ notice' = TRUE

(* The worker's start call: allocated to connecting. *)
StartSession(s) ==
    /\ session[s].status = "allocated" /\ ~session[s].expired
    /\ Commit(s, [session[s] EXCEPT !.status = "connecting"])
    /\ UNCHANGED <<upgrades, entry, reval, stopping, aborted>>

(* The lease runs out: nothing is written and no event announces it. *)
LeaseExpires(s) ==
    /\ session[s].status \in HeldStatus /\ ~session[s].expired
    /\ session' = [session EXCEPT ![s].expired = TRUE]
    /\ UNCHANGED <<notice, upgrades, entry, reval, stopping, aborted>>

(* A pass recovers the session and a pass allocates it again. *)
RequeueSession(s) ==
    /\ session[s].status \in HeldStatus
    /\ Commit(s, [session[s] EXCEPT !.status = "requested", !.expired = FALSE])
    /\ UNCHANGED <<upgrades, entry, reval, stopping, aborted>>

AllocateSession(s) ==
    /\ session[s].status = "requested"
    /\ session[s].lease < MaxLeases
    /\ Commit(s, [session[s] EXCEPT !.status = "allocated", !.lease = @ + 1])
    /\ UNCHANGED <<upgrades, entry, reval, stopping, aborted>>

(* Closed by its client, or interrupted once too often. *)
CloseSession(s) ==
    /\ session[s].status \in HeldStatus
    /\ Commit(s, [session[s] EXCEPT !.status = "closed", !.expired = FALSE])
    /\ UNCHANGED <<upgrades, entry, reval, stopping, aborted>>

----------------------------------------------------------------------------
(* Connections *)

(* closeEntry: out of the map, the sockets told to close.  Only a revalidation *)
(* that listed the entry while it was active looks at its sides afterwards.    *)
Closed(r) == [r EXCEPT !.closed = TRUE, !.late = FALSE,
                       !.sides = IF r.active THEN @ ELSE {}]

SetEntry(e, r) ==
    /\ entry' = [entry EXCEPT ![e] = r]
    /\ UNCHANGED <<upgrades, reval, stopping, aborted>>

(* handleUpgrade up to its await: the grant is for the current allocation. *)
BeginUpgrade(s, role) ==
    /\ stopping = "no"
    /\ Cardinality(upgrades) < MaxUpgrades
    /\ Current(s, session[s].lease)
    /\ upgrades' = upgrades \cup
            {[session |-> s, lease |-> session[s].lease, role |-> role]}
    /\ UNCHANGED <<session, notice, entry, reval, stopping, aborted>>

(* The entry an accepted connection joins: the listed one with its key, or *)
(* a new one.                                                              *)
EntryFor(u) ==
    LET same == {e \in Ids : /\ Listed(e)
                             /\ entry[e].session = u.session
                             /\ entry[e].lease = u.lease}
        unused == {e \in Ids : ~Created(e)}
    IN  IF same # {} THEN same ELSE IF unused # {} THEN {Min(unused)} ELSE {}

(* acceptConnection and the synchronous part of tryPair. *)
Joined(r, u) ==
    LET sides == r.sides \cup {u.role}
        pair  == sides = Roles /\ ~r.active /\ r.phase = "idle"
    IN  [r EXCEPT !.session = u.session, !.lease = u.lease, !.sides = sides,
                  !.phase = IF pair THEN "reading" ELSE r.phase]

(* Mutation: the upgrade does not look at closed again after its await. *)
MutAcceptConnection(u) ==
    /\ u \in upgrades
    /\ \E e \in EntryFor(u) :
            /\ u.role \notin entry[e].sides
            /\ entry' = [entry EXCEPT ![e] = Joined(entry[e], u)]
    /\ upgrades' = upgrades \ {u}
    /\ UNCHANGED <<session, notice, reval, stopping, aborted>>

AcceptConnection(u) ==
    /\ u \in upgrades
    /\ stopping = "no"
    /\ \E e \in EntryFor(u) :
            /\ u.role \notin entry[e].sides
            /\ entry' = [entry EXCEPT ![e] = Joined(entry[e], u)]
    /\ upgrades' = upgrades \ {u}
    /\ UNCHANGED <<session, notice, reval, stopping, aborted>>

(* A stopped relay, a vanished socket or a second socket of the same role. *)
RefuseConnection(u) ==
    /\ u \in upgrades
    /\ upgrades' = upgrades \ {u}
    /\ UNCHANGED <<session, notice, entry, reval, stopping, aborted>>

(* Mutation: the entry stays while its other side is connected. *)
MutSocketClosed(e, role) ==
    /\ Listed(e) /\ role \in entry[e].sides
    /\ LET r == [entry[e] EXCEPT !.sides = @ \ {role}]
       IN  SetEntry(e, IF r.sides = {} THEN Closed(r) ELSE r)
    /\ UNCHANGED <<session, notice>>

(* handleSocketClose: the role is emptied and the rest of the entry closes. *)
(* The sockets of an entry that is closed already change nothing.           *)
SocketClosed(e, role) ==
    /\ Listed(e) /\ role \in entry[e].sides
    /\ SetEntry(e, Closed([entry[e] EXCEPT !.sides = @ \ {role}]))
    /\ UNCHANGED <<session, notice>>

(* Mutation: only a client connection sets the peer timer. *)
MutPeerTimeout(e) ==
    /\ Listed(e) /\ ~entry[e].active /\ "client" \in entry[e].sides
    /\ SetEntry(e, Closed(entry[e]))
    /\ UNCHANGED <<session, notice>>

(* The peer timer closes an entry that is not active yet. *)
PeerTimeout(e) ==
    /\ Listed(e) /\ ~entry[e].active
    /\ SetEntry(e, Closed(entry[e]))
    /\ UNCHANGED <<session, notice>>

(* A frame that may not be forwarded (peer not open, too big, reserved,   *)
(* backpressure), a socket or send error, the idle timer.  Before the pair *)
(* is active a frame or an error does what PeerTimeout does.               *)
EntryFails(e) ==
    /\ Listed(e) /\ entry[e].active
    /\ SetEntry(e, Closed(entry[e]))
    /\ UNCHANGED <<session, notice>>

----------------------------------------------------------------------------
(* Pairing, await by await *)

(* tryPair's finally. *)
PairingEnds(r) == [r EXCEPT !.phase = "idle", !.read = NoReads]

(* Mutation: the grant is checked against the lease and not the status. *)
MutReadGrant(e, role) ==
    LET s == entry[e].session IN
    /\ entry[e].phase = "reading" /\ entry[e].read[role] = "none"
    /\ \/ /\ session[s].lease = entry[e].lease
          /\ SetEntry(e, [entry[e] EXCEPT !.read[role] =
                            IF role = "client" THEN session[s].status ELSE "granted"])
       \/ SetEntry(e, Closed(PairingEnds(entry[e])))
    /\ UNCHANGED <<session, notice>>

(* authorizeDataPlaneGrant for one side.  A refusal (the lease is lost, the  *)
(* grant expired, the query failed) closes the entry when both answers are   *)
(* in; it cannot turn into a grant until then, so it counts as the last one. *)
ReadGrant(e, role) ==
    LET s == entry[e].session IN
    /\ entry[e].phase = "reading" /\ entry[e].read[role] = "none"
    /\ \/ /\ Current(s, entry[e].lease)
          /\ SetEntry(e, [entry[e] EXCEPT !.read[role] =
                            IF role = "client" THEN session[s].status ELSE "granted"])
       \/ SetEntry(e, Closed(PairingEnds(entry[e])))
    /\ UNCHANGED <<session, notice>>

BothRead(e) ==
    entry[e].phase = "reading" /\ \A role \in Roles : entry[e].read[role] # "none"

(* Not started by the worker yet. *)
RefusePair(e) ==
    /\ BothRead(e)
    /\ entry[e].read["client"] = "allocated"
    /\ SetEntry(e, Closed(PairingEnds(entry[e])))
    /\ UNCHANGED <<session, notice>>

(* activateSession, when the client's read said connecting: it checks the *)
(* lease in its own transaction.                                          *)
ActivateSession(e) ==
    LET s == entry[e].session IN
    /\ BothRead(e)
    /\ entry[e].read["client"] = "connecting"
    /\ IF Current(s, entry[e].lease) /\ session[s].status = "connecting"
       THEN /\ SetEntry(e, [entry[e] EXCEPT !.phase = "linking", !.read = NoReads])
            /\ Commit(s, [session[s] EXCEPT !.status = "active"])
       ELSE /\ SetEntry(e, Closed(PairingEnds(entry[e])))
            /\ UNCHANGED <<session, notice>>

SkipActivation(e) ==
    /\ BothRead(e)
    /\ entry[e].read["client"] = "active"
    /\ SetEntry(e, [entry[e] EXCEPT !.phase = "linking", !.read = NoReads])
    /\ UNCHANGED <<session, notice>>

(* The pair goes live and its v2 endpoints are told; one that began to     *)
(* close meanwhile closes the entry.                                       *)
Linked(r, lost, v2gone) ==
    LET live == [r EXCEPT !.phase = "idle", !.read = NoReads, !.active = TRUE,
                          !.late = lost]
    IN  IF v2gone THEN Closed(live) ELSE live

(* Mutation: the entry is not looked at again after the awaits. *)
MutLink(e) ==
    /\ entry[e].phase = "linking"
    /\ \E v2gone \in {FALSE, V2 # {}} :
            SetEntry(e, Linked(entry[e], ~Held(entry[e].session, entry[e].lease),
                               v2gone))
    /\ UNCHANGED <<session, notice>>

(* The rest of tryPair after its last await.  late remembers, for the *)
(* properties, that the lease was already lost.                       *)
Link(e) ==
    /\ entry[e].phase = "linking"
    /\ \E v2gone \in {FALSE, V2 # {}} :
            SetEntry(e, IF entry[e].closed THEN PairingEnds(entry[e])
                        ELSE Linked(entry[e], ~Held(entry[e].session, entry[e].lease),
                                    v2gone))
    /\ UNCHANGED <<session, notice>>

----------------------------------------------------------------------------
(* Revalidation *)

(* The entries a revalidation looks at: active ones, in map order. *)
Live == {e \in Ids : Listed(e) /\ entry[e].active}

StartReval == [IdleReval EXCEPT !.running = TRUE, !.todo = Live]

(* Mutation: an event during a revalidation is forgotten. *)
MutNotify ==
    /\ notice
    /\ notice' = FALSE
    /\ reval' = IF stopping # "no" \/ reval.running THEN reval ELSE StartReval
    /\ UNCHANGED <<session, upgrades, entry, stopping, aborted>>

(* A notification arrives: scheduleRevalidation. *)
Notify ==
    /\ notice
    /\ notice' = FALSE
    /\ reval' = IF stopping # "no" THEN reval
                ELSE IF reval.running THEN [reval EXCEPT !.pending = TRUE]
                ELSE StartReval
    /\ UNCHANGED <<session, upgrades, entry, stopping, aborted>>

(* .catch and .finally: a pending event starts over. *)
EndReval == IF reval.pending /\ stopping = "no" THEN StartReval ELSE IdleReval

FinishReval ==
    /\ reval.running /\ reval.at = 0 /\ reval.todo = {}
    /\ reval' = EndReval
    /\ UNCHANGED <<session, notice, upgrades, entry, stopping, aborted>>

(* The loop takes the next entry and asks for both sides.  When a socket of *)
(* the entry has closed since the list was made, its role is null and       *)
(* entry.client.claims throws out of the whole loop.                        *)
NextReval ==
    /\ reval.running /\ reval.at = 0 /\ reval.todo # {}
    /\ LET e == Min(reval.todo)
           throws == entry[e].sides # Roles
       IN  /\ reval' = IF throws THEN EndReval
                       ELSE [reval EXCEPT !.at = e, !.todo = reval.todo \ {e}]
           /\ aborted' = (aborted \/ throws)
    /\ UNCHANGED <<session, notice, upgrades, entry, stopping>>

(* authorizeDataPlaneAllocation for one side of the entry. *)
ReadAllocation(role) ==
    /\ reval.at # 0 /\ role \notin reval.read
    /\ LET r == entry[reval.at] IN
       reval' = [reval EXCEPT !.read = reval.read \cup {role},
                              !.stale = reval.stale \/ ~Current(r.session, r.lease)]
    /\ UNCHANGED <<session, notice, upgrades, entry, stopping, aborted>>

(* Both answers are in: a stale entry closes, and the loop goes on. *)
JudgeEntry ==
    /\ reval.at # 0 /\ reval.read = Roles
    /\ entry' = IF reval.stale
                THEN [entry EXCEPT ![reval.at] = Closed(entry[reval.at])]
                ELSE entry
    /\ reval' = [reval EXCEPT !.at = 0, !.read = {}, !.stale = FALSE]
    /\ UNCHANGED <<session, notice, upgrades, stopping, aborted>>

(* A query of the revalidation fails: logged, and the rest is not looked at. *)
RevalFails ==
    /\ QueriesFail /\ reval.at # 0
    /\ aborted' = TRUE
    /\ reval' = EndReval
    /\ UNCHANGED <<session, notice, upgrades, entry, stopping>>

----------------------------------------------------------------------------
(* Shutdown *)

StopRelay ==
    /\ stopping = "no"
    /\ stopping' = "draining"
    /\ UNCHANGED <<session, notice, upgrades, entry, reval, aborted>>

(* Every entry closes once the running revalidation is over. *)
CloseAll ==
    /\ stopping = "draining"
    /\ ~reval.running
    /\ stopping' = "done"
    /\ entry' = [e \in Ids |-> IF Listed(e) THEN Closed(entry[e]) ELSE entry[e]]
    /\ UNCHANGED <<session, notice, upgrades, reval, aborted>>

----------------------------------------------------------------------------
ControlPlaneNext ==
    \/ OtherEvent
    \/ \E s \in Sessions :
            \/ StartSession(s) \/ LeaseExpires(s) \/ RequeueSession(s)
            \/ AllocateSession(s) \/ CloseSession(s)

ConnectNext ==
    \/ \E s \in Sessions, role \in Roles : BeginUpgrade(s, role)
    \/ \E u \in upgrades : AcceptConnection(u) \/ RefuseConnection(u)
    \/ \E e \in Ids, role \in Roles : SocketClosed(e, role)
    \/ \E e \in Ids : EntryFails(e)

PairNext(e) ==
    \/ \E role \in Roles : ReadGrant(e, role)
    \/ RefusePair(e) \/ ActivateSession(e) \/ SkipActivation(e) \/ Link(e)

RevalNext ==
    \/ FinishReval \/ NextReval \/ JudgeEntry \/ RevalFails
    \/ \E role \in Roles : ReadAllocation(role)

Next ==
    \/ ControlPlaneNext \/ ConnectNext
    \/ \E e \in Ids : PairNext(e) \/ PeerTimeout(e)
    \/ Notify \/ RevalNext
    \/ StopRelay \/ CloseAll

Spec == Init /\ [][Next]_vars

(* Queries are answered, timers fire and notifications arrive.  Endpoints, *)
(* the control plane and the operator owe nothing.                         *)
Fairness ==
    /\ \A e \in Ids : WF_vars(PairNext(e)) /\ WF_vars(PeerTimeout(e))
    /\ WF_vars(Notify) /\ WF_vars(RevalNext) /\ WF_vars(CloseAll)

FairSpec == Spec /\ Fairness

----------------------------------------------------------------------------
(* Properties *)

Answers == {"none", "granted"} \cup HeldStatus

(* Types of the rows, of the entries and of the revalidation loop. *)
TypeOK ==
    /\ session \in [Sessions -> [status : HeldStatus \cup {"requested", "closed"},
                                 lease : 1 .. MaxLeases, expired : BOOLEAN]]
    /\ notice \in BOOLEAN
    /\ upgrades \subseteq [session : Sessions, lease : 1 .. MaxLeases, role : Roles]
    /\ entry \in [Ids -> [session : Sessions, lease : 0 .. MaxLeases,
                          sides : SUBSET Roles,
                          phase : {"idle", "reading", "linking"},
                          read : [Roles -> Answers],
                          active : BOOLEAN, closed : BOOLEAN, late : BOOLEAN]]
    /\ reval \in [running : BOOLEAN, pending : BOOLEAN, todo : SUBSET Ids,
                  at : 0 .. MaxEntries, read : SUBSET Roles, stale : BOOLEAN]
    /\ stopping \in {"no", "draining", "done"}
    /\ aborted \in BOOLEAN

(* A live pair has both of its sockets, whatever closed while tryPair was *)
(* waiting: a frame always has a peer to go to.                           *)
LivePairHasBothEnds ==
    \A e \in Ids : Listed(e) /\ entry[e].active => entry[e].sides = Roles

(* A closed entry never goes live: the peer that timed out or left while *)
(* the session was being activated stays out.                            *)
ClosedNeverGoesLive ==
    [][\A e \in Ids : entry[e].closed => entry'[e].active = entry[e].active]_vars

(* After stop() has closed the pairs none is ever listed again, also when *)
(* an upgrade was being authorized or a pair was being activated.         *)
StoppedMeansEmpty ==
    stopping = "done" => \A e \in Ids : ~Listed(e)

(* No connection waits forever for its peer. *)
EntrySettles ==
    \A e \in Ids : Listed(e) ~> (entry[e].active \/ entry[e].closed)

(* A pair that went live on a current lease is closed after the lease is    *)
(* lost, even when the event arrives while an earlier one is being handled, *)
(* as long as no revalidation loop ends early.                              *)
StalePairCloses ==
    \A e \in Ids :
        (Listed(e) /\ entry[e].active /\ ~entry[e].late
            /\ ~Held(entry[e].session, entry[e].lease)) ~> (~Listed(e) \/ aborted)

(* docs/API.md: stale connections are closed after session closure,         *)
(* interruption or replacement.  Fails for a pair that goes live after the  *)
(* event: revalidation looks at live pairs only, and Link does not look at  *)
(* the lease.                                                               *)
NoPairOutlivesItsLease ==
    \A e \in Ids :
        (Listed(e) /\ entry[e].active
            /\ ~Held(entry[e].session, entry[e].lease)) ~> ~Listed(e)
=============================================================================

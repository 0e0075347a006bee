----------------------- MODULE DataPlaneRelay_proofs ------------------------
(***************************************************************************)
(* Proofs about the relay, for any sessions and any number of entries,     *)
(* leases and upgrades.                                                    *)
(*                                                                         *)
(* LivePairHasBothEnds is not inductive: it says nothing of an entry that  *)
(* waits in tryPair.  Good adds that such an entry, as long as it is not   *)
(* closed, has both of its sockets too, so it may go live.                 *)
(***************************************************************************)
EXTENDS DataPlaneRelay, WellFoundedInduction, TLAPS

Entry == [session : Sessions, lease : 0 .. MaxLeases, sides : SUBSET Roles,
          phase : {"idle", "reading", "linking"}, read : [Roles -> Answers],
          active : BOOLEAN, closed : BOOLEAN, late : BOOLEAN]

(* An open entry that is paired or being paired has both sockets. *)
Good(r) == ~r.closed /\ (r.phase # "idle" \/ r.active) => r.sides = Roles

IInv ==
    /\ TypeOK
    /\ \A e \in Ids : Good(entry[e])
    /\ StoppedMeansEmpty

(* How a step may change one entry r into q: closed stays closed, a closed *)
(* entry does not go live, and none is listed anew unless new is TRUE.     *)
Follows(r, q, new) ==
    /\ q \in Entry
    /\ Good(q)
    /\ r.closed => q.closed /\ q.active = r.active
    /\ q.lease # 0 /\ ~q.closed => new \/ (r.lease # 0 /\ ~r.closed)

EntriesFollow(new) ==
    /\ entry' \in [Ids -> Entry]
    /\ \A e \in Ids : Follows(entry[e], entry'[e], new)

----------------------------------------------------------------------------
(* Lemmas about the operators on entries *)

LEMMA ClosedType ==
    ASSUME NEW r \in Entry
    PROVE  /\ Closed(r) \in Entry
           /\ Closed(r).closed = TRUE /\ Closed(r).active = r.active
           /\ Closed(r).lease = r.lease
  <1> DEFINE a == [r EXCEPT !.closed = TRUE]
             b == [a EXCEPT !.late = FALSE]
             sd == IF r.active THEN r.sides ELSE {}
             c == [b EXCEPT !.sides = sd]
  <1>1. a \in Entry /\ a.closed = TRUE /\ a.active = r.active /\ a.lease = r.lease
        /\ a.sides = r.sides
    BY DEF Entry
  <1>2. sd \in SUBSET Roles
    BY DEF Entry
  <1>3. Closed(r) = c
    BY DEF Closed, Entry
  <1> HIDE DEF a, sd
  <1>4. b \in Entry /\ b.closed = TRUE /\ b.active = r.active /\ b.lease = r.lease
    BY <1>1 DEF Entry
  <1> HIDE DEF b
  <1>5. c \in Entry /\ c.closed = TRUE /\ c.active = r.active /\ c.lease = r.lease
    BY <1>2, <1>4 DEF Entry
  <1> QED
    BY <1>3, <1>5

LEMMA NoReadsType == NoReads \in [Roles -> Answers]
  BY DEF NoReads, Answers

LEMMA PairingEndsType ==
    ASSUME NEW r \in Entry
    PROVE  /\ PairingEnds(r) \in Entry
           /\ PairingEnds(r).closed = r.closed /\ PairingEnds(r).active = r.active
           /\ PairingEnds(r).lease = r.lease
  <1> DEFINE a == [r EXCEPT !.phase = "idle"]
             b == [a EXCEPT !.read = NoReads]
  <1>1. a \in Entry /\ a.closed = r.closed /\ a.active = r.active /\ a.lease = r.lease
    BY DEF Entry
  <1>2. PairingEnds(r) = b
    BY DEF PairingEnds, Entry
  <1> HIDE DEF a
  <1>3. b \in Entry /\ b.closed = r.closed /\ b.active = r.active /\ b.lease = r.lease
    BY <1>1, NoReadsType DEF Entry
  <1> QED
    BY <1>2, <1>3

LEMMA LinkedType ==
    ASSUME NEW r \in Entry, NEW lost \in BOOLEAN, NEW gone \in BOOLEAN,
           r.sides = Roles
    PROVE  /\ Linked(r, lost, gone) \in Entry /\ Good(Linked(r, lost, gone))
           /\ Linked(r, lost, gone).lease = r.lease
  <1> DEFINE a == [r EXCEPT !.phase = "idle"]
             b == [a EXCEPT !.read = NoReads]
             c == [b EXCEPT !.active = TRUE]
             d == [c EXCEPT !.late = lost]
             live == [r EXCEPT !.phase = "idle", !.read = NoReads, !.active = TRUE,
                               !.late = lost]
  <1>1. a \in Entry /\ a.lease = r.lease /\ a.sides = Roles
    BY DEF Entry
  <1>2. live = d
    BY DEF Entry
  <1> HIDE DEF a
  <1>3. b \in Entry /\ b.lease = r.lease /\ b.sides = Roles
    BY <1>1, NoReadsType DEF Entry
  <1> HIDE DEF b
  <1>4. c \in Entry /\ c.lease = r.lease /\ c.sides = Roles
    BY <1>3 DEF Entry
  <1> HIDE DEF c
  <1>5. d \in Entry /\ d.lease = r.lease /\ d.sides = Roles
    BY <1>4 DEF Entry
  <1>6. live \in Entry /\ live.lease = r.lease /\ live.sides = Roles
    BY <1>2, <1>5
  <1>7. Linked(r, lost, gone) = IF gone THEN Closed(live) ELSE live
    BY DEF Linked
  <1> HIDE DEF live
  <1> QED
    BY <1>6, <1>7, ClosedType DEF Good

LEMMA JoinedType ==
    ASSUME NEW r \in Entry, Good(r),
           NEW u \in [session : Sessions, lease : 1 .. MaxLeases, role : Roles],
           u.role \notin r.sides
    PROVE  /\ Joined(r, u) \in Entry /\ Good(Joined(r, u))
           /\ Joined(r, u).closed = r.closed /\ Joined(r, u).active = r.active
  <1> DEFINE sd == r.sides \cup {u.role}
             ph == IF sd = Roles /\ ~r.active /\ r.phase = "idle"
                   THEN "reading" ELSE r.phase
             a == [r EXCEPT !.session = u.session]
             b == [a EXCEPT !.lease = u.lease]
             c == [b EXCEPT !.sides = sd]
             d == [c EXCEPT !.phase = ph]
  <1>1. /\ sd \in SUBSET Roles /\ ph \in {"idle", "reading", "linking"}
        /\ u.session \in Sessions /\ u.lease \in 0 .. MaxLeases /\ u.role \in Roles
        /\ r.sides # Roles
    BY RelayAssumption DEF Entry
  <1>2. ph # "idle" => sd = Roles \/ r.phase # "idle"
    OBVIOUS
  <1>3. Joined(r, u) = d
    BY DEF Joined, Entry
  <1> HIDE DEF sd, ph
  <1>4. a \in Entry /\ a.closed = r.closed /\ a.active = r.active
    BY <1>1 DEF Entry
  <1> HIDE DEF a
  <1>5. b \in Entry /\ b.closed = r.closed /\ b.active = r.active
    BY <1>1, <1>4 DEF Entry
  <1> HIDE DEF b
  <1>6. c \in Entry /\ c.closed = r.closed /\ c.active = r.active /\ c.sides = sd
    BY <1>1, <1>5 DEF Entry
  <1> HIDE DEF c
  <1>7. /\ d \in Entry /\ d.closed = r.closed /\ d.active = r.active
        /\ d.sides = sd /\ d.phase = ph
    BY <1>1, <1>6 DEF Entry
  <1> HIDE DEF d
  <1> QED
    BY <1>1, <1>2, <1>3, <1>7 DEF Good
(* The first of some entries is one of them. *)
LEMMA MinIsMember ==
    ASSUME NEW S, S \subseteq Nat, S # {}
    PROVE  Min(S) \in S
  <1> DEFINE R == {p \in Nat \X Nat : p[1] < p[2]}
  <1>1. IsWellFoundedOn(R, Nat)
    BY NatLessThanWellFounded, Zenon DEF OpToRel
  <1>2. \A x, y \in Nat : x < y => <<x, y>> \in R
    OBVIOUS
  <1> HIDE DEF R
  <1>3. PICK x \in S : \A y \in S : ~(<<y, x>> \in R)
    BY <1>1, WFMin
  <1>4. \A y \in S : ~(y < x)
    BY <1>2, <1>3
  <1>5. \A y \in S : x <= y
    BY <1>4
  <1> QED
    BY <1>5 DEF Min

LEMMA EntryForIds ==
    ASSUME NEW u, NEW e \in EntryFor(u)
    PROVE  e \in Ids
  <1> DEFINE same == {d \in Ids : /\ Listed(d)
                                  /\ entry[d].session = u.session
                                  /\ entry[d].lease = u.lease}
             unused == {d \in Ids : ~Created(d)}
  <1>1. e \in IF same # {} THEN same ELSE IF unused # {} THEN {Min(unused)} ELSE {}
    BY DEF EntryFor
  <1>2. same \subseteq Ids /\ unused \subseteq Ids /\ Ids \subseteq Nat
    BY DEF Ids
  <1> HIDE DEF same, unused
  <1>3. unused # {} => Min(unused) \in unused
    BY <1>2, MinIsMember
  <1> QED
    BY <1>1, <1>2, <1>3

----------------------------------------------------------------------------
(* How the steps change the entries *)

LEMMA FollowsSelf ==
    ASSUME NEW r \in Entry, Good(r), NEW new
    PROVE  Follows(r, r, new)
  BY DEF Follows

(* Closing an entry is always allowed. *)
LEMMA FollowsClosed ==
    ASSUME NEW r, NEW q \in Entry, q.active = r.active, NEW new
    PROVE  Follows(r, Closed(q), new)
  BY ClosedType DEF Follows, Good

(* A step that replaces entry e by q. *)
LEMMA OneFollows ==
    ASSUME IInv, NEW e \in Ids, NEW q, NEW new, Follows(entry[e], q, new),
           entry' = [entry EXCEPT ![e] = q]
    PROVE  EntriesFollow(new)
  <1>1. entry \in [Ids -> Entry] /\ \A d \in Ids : Good(entry[d])
    BY DEF IInv, TypeOK, Entry
  <1>2. q \in Entry
    BY DEF Follows
  <1>3. entry' \in [Ids -> Entry] /\ entry'[e] = q
        /\ \A d \in Ids : d # e => entry'[d] = entry[d]
    BY <1>1, <1>2
  <1>4. \A d \in Ids : d # e => Follows(entry[d], entry'[d], new)
    BY <1>1, <1>3, FollowsSelf
  <1> QED
    BY <1>3, <1>4 DEF EntriesFollow

LEMMA SameFollows ==
    ASSUME IInv, entry' = entry, NEW new
    PROVE  EntriesFollow(new)
  BY FollowsSelf DEF EntriesFollow, IInv, TypeOK, Entry

LEMMA AcceptFollows ==
    ASSUME IInv, NEW u \in upgrades, AcceptConnection(u)
    PROVE  stopping = "no" /\ EntriesFollow(TRUE)
  <1>1. PICK e \in EntryFor(u) :
           u.role \notin entry[e].sides /\ entry' = [entry EXCEPT ![e] = Joined(entry[e], u)]
    BY DEF AcceptConnection
  <1>2. e \in Ids
    BY EntryForIds
  <1>3. /\ entry[e] \in Entry /\ Good(entry[e])
        /\ u \in [session : Sessions, lease : 1 .. MaxLeases, role : Roles]
    BY <1>2 DEF IInv, TypeOK, Entry
  <1>4. Follows(entry[e], Joined(entry[e], u), TRUE)
    BY <1>1, <1>3, JoinedType DEF Follows
  <1>5. EntriesFollow(TRUE)
    BY <1>1, <1>2, <1>4, OneFollows
  <1> QED
    BY <1>5 DEF AcceptConnection

(* The steps of one entry that closes. *)
LEMMA CloseFollows ==
    ASSUME IInv, NEW e \in Ids,
           \/ \E role \in Roles : SocketClosed(e, role)
           \/ EntryFails(e) \/ PeerTimeout(e) \/ RefusePair(e)
    PROVE  EntriesFollow(FALSE)
  <1>0. entry[e] \in Entry
    BY DEF IInv, TypeOK, Entry
  <1>1. ASSUME NEW q \in Entry, q.active = entry[e].active,
               entry' = [entry EXCEPT ![e] = Closed(q)]
        PROVE  EntriesFollow(FALSE)
    BY <1>1, FollowsClosed, OneFollows
  <1>2. ASSUME NEW role \in Roles, SocketClosed(e, role) PROVE EntriesFollow(FALSE)
    <2> DEFINE q == [entry[e] EXCEPT !.sides = @ \ {role}]
    <2>1. q \in Entry /\ q.active = entry[e].active
      BY <1>0 DEF Entry
    <2>2. entry' = [entry EXCEPT ![e] = Closed(q)]
      BY <1>2 DEF SocketClosed, SetEntry
    <2> QED
      BY <1>1, <2>1, <2>2
  <1>3. CASE EntryFails(e) \/ PeerTimeout(e)
    BY <1>0, <1>1, <1>3 DEF EntryFails, PeerTimeout, SetEntry
  <1>4. CASE RefusePair(e)
    BY <1>0, <1>1, <1>4, PairingEndsType DEF RefusePair, SetEntry
  <1> QED
    BY <1>2, <1>3, <1>4

(* The awaits of tryPair. *)
LEMMA PairFollows ==
    ASSUME IInv, NEW e \in Ids,
           \/ \E role \in Roles : ReadGrant(e, role)
           \/ ActivateSession(e) \/ SkipActivation(e) \/ Link(e)
    PROVE  EntriesFollow(FALSE)
  <1>0. entry[e] \in Entry /\ Good(entry[e])
    BY DEF IInv, TypeOK, Entry
  <1>1. ASSUME entry' = [entry EXCEPT ![e] = Closed(PairingEnds(entry[e]))]
        PROVE  EntriesFollow(FALSE)
    BY <1>0, <1>1, PairingEndsType, FollowsClosed, OneFollows
  <1>2. ASSUME entry' = [entry EXCEPT ![e] = [entry[e] EXCEPT !.phase = "linking",
                                                             !.read = NoReads]],
               entry[e].phase = "reading"
        PROVE  EntriesFollow(FALSE)
    <2> DEFINE a == [entry[e] EXCEPT !.phase = "linking"]
               b == [a EXCEPT !.read = NoReads]
    <2>1. /\ a \in Entry /\ a.closed = entry[e].closed /\ a.active = entry[e].active
          /\ a.lease = entry[e].lease /\ a.sides = entry[e].sides
      BY <1>0 DEF Entry
    <2>2. entry' = [entry EXCEPT ![e] = b]
      BY <1>0, <1>2 DEF Entry
    <2> HIDE DEF a
    <2>3. /\ b \in Entry /\ b.closed = entry[e].closed /\ b.active = entry[e].active
          /\ b.lease = entry[e].lease /\ b.sides = entry[e].sides
      BY <2>1, NoReadsType DEF Entry
    <2> HIDE DEF b
    <2>4. Follows(entry[e], b, FALSE)
      BY <1>0, <1>2, <2>3 DEF Follows, Good
    <2> QED
      BY <2>2, <2>4, OneFollows
  <1>3. ASSUME NEW role \in Roles, ReadGrant(e, role) PROVE EntriesFollow(FALSE)
    <2> DEFINE s == entry[e].session
               ans == IF role = "client" THEN session[s].status ELSE "granted"
               q == [entry[e] EXCEPT !.read[role] = ans]
    <2>1. CASE Current(s, entry[e].lease) /\ entry' = [entry EXCEPT ![e] = q]
      <3>1. ans \in Answers
        BY <2>1 DEF Current, Held, Answers
      <3> HIDE DEF ans
      <3>2. /\ q \in Entry /\ q.closed = entry[e].closed /\ q.active = entry[e].active
            /\ q.lease = entry[e].lease /\ q.sides = entry[e].sides
            /\ q.phase = entry[e].phase
        BY <1>0, <3>1 DEF Entry
      <3> HIDE DEF q
      <3>3. Follows(entry[e], q, FALSE)
        BY <1>0, <3>2 DEF Follows, Good
      <3> QED
        BY <2>1, <3>3, OneFollows
    <2> QED
      BY <1>1, <1>3, <2>1 DEF ReadGrant, SetEntry
  <1>4. CASE ActivateSession(e)
    BY <1>1, <1>2, <1>4 DEF ActivateSession, BothRead, SetEntry
  <1>5. CASE SkipActivation(e)
    BY <1>2, <1>5 DEF SkipActivation, BothRead, SetEntry
  <1>6. CASE Link(e)
    <2> DEFINE lost == ~Held(entry[e].session, entry[e].lease)
    <2>1. PICK gone \in {FALSE, V2 # {}} :
            entry' = [entry EXCEPT ![e] =
                        IF entry[e].closed THEN PairingEnds(entry[e])
                        ELSE Linked(entry[e], lost, gone)]
      BY <1>6 DEF Link, SetEntry
    <2>2. gone \in BOOLEAN /\ lost \in BOOLEAN /\ entry[e].phase = "linking"
      BY <1>6 DEF Link, Held
    <2> HIDE DEF lost
    <2>3. CASE entry[e].closed
      <3>1. Follows(entry[e], PairingEnds(entry[e]), FALSE)
        BY <1>0, <2>3, PairingEndsType DEF Follows, Good
      <3> QED
        BY <2>1, <2>3, <3>1, OneFollows
    <2>4. CASE ~entry[e].closed
      <3>1. entry[e].sides = Roles
        BY <1>0, <2>2, <2>4 DEF Good
      <3>2. Follows(entry[e], Linked(entry[e], lost, gone), FALSE)
        BY <1>0, <2>2, <2>4, <3>1, LinkedType DEF Follows
      <3> QED
        BY <2>1, <2>4, <3>2, OneFollows
    <2> QED
      BY <2>3, <2>4
  <1> QED
    BY <1>3, <1>4, <1>5, <1>6

(* A stale entry is closed by the revalidation, every entry by stop(). *)
LEMMA SweepFollows ==
    ASSUME IInv, JudgeEntry \/ CloseAll
    PROVE  EntriesFollow(FALSE)
  <1>0. entry \in [Ids -> Entry] /\ \A e \in Ids : Good(entry[e])
    BY DEF IInv, TypeOK, Entry
  <1>1. CASE JudgeEntry
    <2>1. reval.at \in Ids
      BY <1>1 DEF JudgeEntry, IInv, TypeOK, Ids
    <2>2. CASE entry' = entry
      BY <2>2, SameFollows
    <2>3. CASE entry' = [entry EXCEPT ![reval.at] = Closed(entry[reval.at])]
      <3>1. Follows(entry[reval.at], Closed(entry[reval.at]), FALSE)
        BY <1>0, <2>1, FollowsClosed
      <3> QED
        BY <2>1, <2>3, <3>1, OneFollows
    <2> QED
      BY <1>1, <2>2, <2>3 DEF JudgeEntry
  <1>2. CASE CloseAll
    <2>1. \A e \in Ids : entry'[e] = Closed(entry[e]) \/ entry'[e] = entry[e]
      BY <1>2 DEF CloseAll
    <2>2. \A e \in Ids : Follows(entry[e], entry'[e], FALSE)
      BY <1>0, <2>1, FollowsClosed, FollowsSelf
    <2>3. entry' = [e \in Ids |-> entry'[e]]
      BY <1>2 DEF CloseAll
    <2>4. entry' \in [Ids -> Entry]
      BY <2>2, <2>3 DEF Follows
    <2> QED
      BY <2>2, <2>4 DEF EntriesFollow
  <1> QED
    BY <1>1, <1>2
(* Every step treats every entry as Follows allows, and lists a new one   *)
(* only before stop().                                                    *)
LEMMA StepFollows ==
    ASSUME IInv, [Next]_vars
    PROVE  EntriesFollow(FALSE) \/ (stopping = "no" /\ EntriesFollow(TRUE))
  <1>1. CASE ControlPlaneNext
    BY <1>1, SameFollows DEF ControlPlaneNext, OtherEvent, StartSession, LeaseExpires,
       RequeueSession, AllocateSession, CloseSession
  <1>2. CASE ConnectNext
    <2>1. CASE \E s \in Sessions, role \in Roles : BeginUpgrade(s, role)
      BY <2>1, SameFollows DEF BeginUpgrade
    <2>2. CASE \E u \in upgrades : AcceptConnection(u)
      BY <2>2, AcceptFollows
    <2>3. CASE \E u \in upgrades : RefuseConnection(u)
      BY <2>3, SameFollows DEF RefuseConnection
    <2>4. CASE \/ \E e \in Ids, role \in Roles : SocketClosed(e, role)
               \/ \E e \in Ids : EntryFails(e)
      BY <2>4, CloseFollows
    <2> QED
      BY <1>2, <2>1, <2>2, <2>3, <2>4 DEF ConnectNext
  <1>3. CASE \E e \in Ids : PairNext(e) \/ PeerTimeout(e)
    BY <1>3, CloseFollows, PairFollows DEF PairNext
  <1>4. CASE Notify \/ StopRelay \/ UNCHANGED vars
    BY <1>4, SameFollows DEF Notify, StopRelay, vars
  <1>5. CASE RevalNext
    <2>1. CASE JudgeEntry
      BY <2>1, SweepFollows
    <2>2. CASE ~JudgeEntry
      BY <1>5, <2>2, SameFollows DEF RevalNext, FinishReval, NextReval, RevalFails,
         ReadAllocation
    <2> QED
      BY <2>1, <2>2
  <1>6. CASE CloseAll
    BY <1>6, SweepFollows
  <1> QED
    BY <1>1, <1>2, <1>3, <1>4, <1>5, <1>6 DEF Next

----------------------------------------------------------------------------
(* The types of everything else *)

SessionRow == [status : HeldStatus \cup {"requested", "closed"},
               lease : 1 .. MaxLeases, expired : BOOLEAN]

Revals == [running : BOOLEAN, pending : BOOLEAN, todo : SUBSET Ids,
           at : 0 .. MaxEntries, read : SUBSET Roles, stale : BOOLEAN]

LEMMA SessionType ==
    ASSUME IInv, [Next]_vars
    PROVE  session' \in [Sessions -> SessionRow] /\ notice' \in BOOLEAN
  <1>0. session \in [Sessions -> SessionRow] /\ notice \in BOOLEAN
    BY DEF IInv, TypeOK, SessionRow
  <1>1. ASSUME NEW s \in Sessions, NEW r \in SessionRow,
               session' = [session EXCEPT ![s] = r], notice' \in BOOLEAN
        PROVE  session' \in [Sessions -> SessionRow] /\ notice' \in BOOLEAN
    BY <1>0, <1>1
  <1>2. CASE UNCHANGED session /\ notice' \in BOOLEAN
    BY <1>0, <1>2
  <1>3. ASSUME NEW s \in Sessions,
               \/ StartSession(s) \/ LeaseExpires(s) \/ RequeueSession(s)
               \/ AllocateSession(s) \/ CloseSession(s)
        PROVE  session' \in [Sessions -> SessionRow] /\ notice' \in BOOLEAN
    <2>0. session[s] \in SessionRow
      BY <1>0
    <2>1. CASE StartSession(s)
      <3>1. [session[s] EXCEPT !.status = "connecting"] \in SessionRow
        BY <2>0 DEF SessionRow, HeldStatus
      <3> QED
        BY <1>1, <2>1, <3>1 DEF StartSession, Commit
    <2>2. CASE LeaseExpires(s)
      <3>1. [session[s] EXCEPT !.expired = TRUE] \in SessionRow
        BY <2>0 DEF SessionRow
      <3>2. session' = [session EXCEPT ![s] = [session[s] EXCEPT !.expired = TRUE]]
        BY <2>2 DEF LeaseExpires
      <3> QED
        BY <1>0, <1>1, <2>2, <3>1, <3>2 DEF LeaseExpires
    <2>3. CASE RequeueSession(s)
      <3> DEFINE a == [session[s] EXCEPT !.status = "requested"]
      <3>1. a \in SessionRow
        BY <2>0 DEF SessionRow
      <3>2. session' = [session EXCEPT ![s] = [a EXCEPT !.expired = FALSE]]
        BY <2>0, <2>3 DEF RequeueSession, Commit, SessionRow
      <3> HIDE DEF a
      <3>3. [a EXCEPT !.expired = FALSE] \in SessionRow
        BY <3>1 DEF SessionRow
      <3> QED
        BY <1>1, <2>3, <3>2, <3>3 DEF RequeueSession, Commit
    <2>4. CASE AllocateSession(s)
      <3> DEFINE a == [session[s] EXCEPT !.status = "allocated"]
                 n == session[s].lease + 1
      <3>1. a \in SessionRow
        BY <2>0 DEF SessionRow, HeldStatus
      <3>2. n \in 1 .. MaxLeases
        BY <2>0, <2>4, RelayAssumption DEF AllocateSession, SessionRow
      <3>3. session' = [session EXCEPT ![s] = [a EXCEPT !.lease = n]]
        BY <2>0, <2>4 DEF AllocateSession, Commit, SessionRow
      <3> HIDE DEF a, n
      <3>4. [a EXCEPT !.lease = n] \in SessionRow
        BY <3>1, <3>2 DEF SessionRow
      <3> QED
        BY <1>1, <2>4, <3>3, <3>4 DEF AllocateSession, Commit
    <2>5. CASE CloseSession(s)
      <3> DEFINE a == [session[s] EXCEPT !.status = "closed"]
      <3>1. a \in SessionRow
        BY <2>0 DEF SessionRow
      <3>2. session' = [session EXCEPT ![s] = [a EXCEPT !.expired = FALSE]]
        BY <2>0, <2>5 DEF CloseSession, Commit, SessionRow
      <3> HIDE DEF a
      <3>3. [a EXCEPT !.expired = FALSE] \in SessionRow
        BY <3>1 DEF SessionRow
      <3> QED
        BY <1>1, <2>5, <3>2, <3>3 DEF CloseSession, Commit
    <2> QED
      BY <1>3, <2>1, <2>2, <2>3, <2>4, <2>5
  <1>4. ASSUME NEW e \in Ids, ActivateSession(e)
        PROVE  session' \in [Sessions -> SessionRow] /\ notice' \in BOOLEAN
    <2> DEFINE s == entry[e].session
    <2>1. s \in Sessions
      BY DEF IInv, TypeOK
    <2>2. [session[s] EXCEPT !.status = "active"] \in SessionRow
      BY <1>0, <2>1 DEF SessionRow, HeldStatus
    <2> DEFINE r == [session[s] EXCEPT !.status = "active"]
    <2>3. \/ session' = [session EXCEPT ![s] = r] /\ notice' = TRUE
          \/ UNCHANGED <<session, notice>>
      BY <1>4 DEF ActivateSession, Commit
    <2>4. r \in SessionRow
      BY <2>2
    <2> HIDE DEF s, r
    <2>5. CASE session' = [session EXCEPT ![s] = r] /\ notice' = TRUE
      <3>1. session' \in [Sessions -> SessionRow]
        BY <1>0, <2>1, <2>4, <2>5
      <3>2. notice' \in BOOLEAN
        BY <2>5
      <3> QED
        BY <3>1, <3>2
    <2>6. CASE UNCHANGED <<session, notice>>
      BY <1>0, <1>2, <2>6
    <2> QED
      BY <2>3, <2>5, <2>6
  <1>5. CASE OtherEvent \/ Notify \/ UNCHANGED vars
    BY <1>0, <1>2, <1>5 DEF OtherEvent, Notify, vars
  <1>6. CASE ConnectNext
    BY <1>0, <1>2, <1>6 DEF ConnectNext, BeginUpgrade, AcceptConnection,
       RefuseConnection, SocketClosed, EntryFails
  <1>7. ASSUME NEW e \in Ids, PairNext(e) \/ PeerTimeout(e), ~ActivateSession(e)
        PROVE  session' \in [Sessions -> SessionRow] /\ notice' \in BOOLEAN
    BY <1>0, <1>2, <1>7 DEF PairNext, PeerTimeout, ReadGrant, RefusePair,
       SkipActivation, Link
  <1>8. CASE RevalNext \/ StopRelay \/ CloseAll
    BY <1>0, <1>2, <1>8 DEF RevalNext, FinishReval, NextReval, JudgeEntry, RevalFails,
       ReadAllocation, StopRelay, CloseAll
  <1> QED
    BY <1>3, <1>4, <1>5, <1>6, <1>7, <1>8 DEF Next, ControlPlaneNext

LEMMA RevalType ==
    ASSUME IInv, [Next]_vars
    PROVE  /\ reval' \in Revals /\ aborted' \in BOOLEAN
  <1>0. reval \in Revals /\ aborted \in BOOLEAN
    BY DEF IInv, TypeOK, Revals
  <1>1. IdleReval \in Revals
    BY RelayAssumption DEF IdleReval, Revals
  <1>2. StartReval \in Revals
    <2>1. Live \subseteq Ids
      BY DEF Live
    <2> DEFINE b == [IdleReval EXCEPT !.running = TRUE]
    <2>2. StartReval = [b EXCEPT !.todo = Live]
      BY DEF StartReval, IdleReval
    <2>3. b \in Revals
      BY <1>1 DEF Revals
    <2> HIDE DEF b
    <2>4. [b EXCEPT !.todo = Live] \in Revals
      BY <2>1, <2>3 DEF Revals
    <2> QED
      BY <2>2, <2>4
  <1>3. EndReval \in Revals
    BY <1>1, <1>2 DEF EndReval
  <1>4. CASE UNCHANGED <<reval, aborted>>
    BY <1>0, <1>4
  <1>5. CASE Notify
    <2>1. [reval EXCEPT !.pending = TRUE] \in Revals
      BY <1>0 DEF Revals
    <2> QED
      BY <1>0, <1>2, <1>5, <2>1 DEF Notify
  <1>6. CASE FinishReval \/ RevalFails
    BY <1>0, <1>3, <1>6 DEF FinishReval, RevalFails
  <1>7. CASE NextReval
    <2> DEFINE e == Min(reval.todo)
               T == reval.todo \ {e}
               a == [reval EXCEPT !.at = e]
    <2>1. e \in reval.todo /\ reval.todo \subseteq Ids
      BY <1>0, <1>7, MinIsMember DEF NextReval, Revals, Ids
    <2>2. e \in 0 .. MaxEntries /\ T \subseteq Ids
      BY <2>1, RelayAssumption DEF Ids
    <2>3. /\ reval' = EndReval \/ reval' = [reval EXCEPT !.at = e, !.todo = T]
          /\ aborted' \in BOOLEAN
      BY <1>0, <1>7 DEF NextReval
    <2>4. [reval EXCEPT !.at = e, !.todo = T] = [a EXCEPT !.todo = T]
      BY <1>0 DEF Revals
    <2> HIDE DEF e, T
    <2>5. a \in Revals
      BY <1>0, <2>2 DEF Revals
    <2> HIDE DEF a
    <2>6. [a EXCEPT !.todo = T] \in Revals
      BY <2>2, <2>5 DEF Revals
    <2> QED
      BY <1>3, <2>3, <2>4, <2>6
  <1>8. ASSUME NEW role \in Roles, ReadAllocation(role)
        PROVE  reval' \in Revals /\ aborted' \in BOOLEAN
    <2> DEFINE S == reval.read \cup {role}
               b == reval.stale \/ ~Current(entry[reval.at].session, entry[reval.at].lease)
               a == [reval EXCEPT !.read = S]
    <2>1. S \in SUBSET Roles /\ b \in BOOLEAN
      BY <1>0 DEF Revals
    <2>2. reval' = [a EXCEPT !.stale = b] /\ aborted' = aborted
      BY <1>0, <1>8 DEF ReadAllocation, Revals
    <2> HIDE DEF S, b
    <2>3. a \in Revals
      BY <1>0, <2>1 DEF Revals
    <2> HIDE DEF a
    <2> QED
      BY <1>0, <2>1, <2>2, <2>3 DEF Revals
  <1>9. CASE JudgeEntry
    <2> DEFINE a == [reval EXCEPT !.at = 0]
               b == [a EXCEPT !.read = {}]
    <2>1. a \in Revals
      BY <1>0, RelayAssumption DEF Revals
    <2>2. reval' = [b EXCEPT !.stale = FALSE] /\ aborted' = aborted
      BY <1>0, <1>9 DEF JudgeEntry, Revals
    <2> HIDE DEF a
    <2>3. b \in Revals
      BY <2>1 DEF Revals
    <2> HIDE DEF b
    <2> QED
      BY <1>0, <2>2, <2>3 DEF Revals
  <1>10. CASE ControlPlaneNext \/ ConnectNext \/ UNCHANGED vars
    BY <1>4, <1>10 DEF ControlPlaneNext, OtherEvent, StartSession, LeaseExpires,
       RequeueSession, AllocateSession, CloseSession, ConnectNext, BeginUpgrade,
       AcceptConnection, RefuseConnection, SocketClosed, EntryFails, SetEntry, vars
  <1>11. CASE \E e \in Ids : PairNext(e) \/ PeerTimeout(e)
    BY <1>4, <1>11 DEF PairNext, PeerTimeout, ReadGrant, RefusePair, ActivateSession,
       SkipActivation, Link, SetEntry
  <1>12. CASE StopRelay \/ CloseAll
    BY <1>4, <1>12 DEF StopRelay, CloseAll
  <1> QED
    BY <1>5, <1>6, <1>7, <1>8, <1>9, <1>10, <1>11, <1>12 DEF Next, RevalNext
LEMMA UpgradesType ==
    ASSUME IInv, [Next]_vars
    PROVE  upgrades' \subseteq [session : Sessions, lease : 1 .. MaxLeases, role : Roles]
  <1>0. upgrades \subseteq [session : Sessions, lease : 1 .. MaxLeases, role : Roles]
    BY DEF IInv, TypeOK
  <1>1. ASSUME NEW s \in Sessions, NEW role \in Roles, BeginUpgrade(s, role)
        PROVE  upgrades' \subseteq [session : Sessions, lease : 1 .. MaxLeases, role : Roles]
    <2>1. session[s].lease \in 1 .. MaxLeases
      BY DEF IInv, TypeOK
    <2> QED
      BY <1>0, <1>1, <2>1 DEF BeginUpgrade
  <1>2. CASE upgrades' \subseteq upgrades
    BY <1>0, <1>2
  <1>3. CASE ConnectNext
    BY <1>1, <1>2, <1>3 DEF ConnectNext, AcceptConnection, RefuseConnection,
       SocketClosed, EntryFails, SetEntry
  <1>4. CASE ControlPlaneNext \/ UNCHANGED vars
    BY <1>2, <1>4 DEF ControlPlaneNext, OtherEvent, StartSession, LeaseExpires,
       RequeueSession, AllocateSession, CloseSession, vars
  <1>5. CASE \E e \in Ids : PairNext(e) \/ PeerTimeout(e)
    BY <1>2, <1>5 DEF PairNext, PeerTimeout, ReadGrant, RefusePair, ActivateSession,
       SkipActivation, Link, SetEntry
  <1>6. CASE RevalNext \/ Notify \/ StopRelay \/ CloseAll
    BY <1>2, <1>6 DEF RevalNext, FinishReval, NextReval, JudgeEntry, RevalFails,
       ReadAllocation, Notify, StopRelay, CloseAll
  <1> QED
    BY <1>3, <1>4, <1>5, <1>6 DEF Next

(* stop() goes on to its end, and only CloseAll reaches it. *)
LEMMA StoppingStep ==
    ASSUME [Next]_vars
    PROVE  \/ stopping' = stopping
           \/ stopping = "no" /\ stopping' = "draining"
           \/ CloseAll
  <1>1. CASE ControlPlaneNext \/ ConnectNext \/ UNCHANGED vars
    BY <1>1 DEF ControlPlaneNext, OtherEvent, StartSession, LeaseExpires,
       RequeueSession, AllocateSession, CloseSession, ConnectNext, BeginUpgrade,
       AcceptConnection, RefuseConnection, SocketClosed, EntryFails, SetEntry, vars
  <1>2. CASE \E e \in Ids : PairNext(e) \/ PeerTimeout(e)
    BY <1>2 DEF PairNext, PeerTimeout, ReadGrant, RefusePair, ActivateSession,
       SkipActivation, Link, SetEntry
  <1>3. CASE RevalNext \/ Notify \/ StopRelay
    BY <1>3 DEF RevalNext, FinishReval, NextReval, JudgeEntry, RevalFails,
       ReadAllocation, Notify, StopRelay
  <1> QED
    BY <1>1, <1>2, <1>3 DEF Next

----------------------------------------------------------------------------
(* The theorems *)

LEMMA InitInv ==
    ASSUME Init
    PROVE  IInv
  <1>1. NoEntry \in Entry /\ Good(NoEntry) /\ NoEntry.lease = 0
    <2>1. (CHOOSE s \in Sessions : TRUE) \in Sessions
      BY RelayAssumption
    <2>2. 0 \in 0 .. MaxLeases
      BY RelayAssumption
    <2> QED
      BY <2>1, <2>2, NoReadsType DEF NoEntry, Entry, Good
  <1>2. entry \in [Ids -> Entry] /\ \A e \in Ids : entry[e] = NoEntry
    BY <1>1 DEF Init
  <1>3. session \in [Sessions -> SessionRow]
    BY RelayAssumption DEF Init, SessionRow, HeldStatus
  <1>4. reval \in Revals
    BY RelayAssumption DEF Init, IdleReval, Revals
  <1>5. TypeOK
    BY <1>2, <1>3, <1>4 DEF Init, TypeOK, Entry, SessionRow, Revals
  <1> QED
    BY <1>1, <1>2, <1>5 DEF IInv, StoppedMeansEmpty, Init

LEMMA StepInv ==
    ASSUME IInv, [Next]_vars
    PROVE  IInv'
  <1>1. PICK new \in BOOLEAN : EntriesFollow(new) /\ (new => stopping = "no")
    BY StepFollows
  <1>2. /\ entry' \in [Ids -> Entry]
        /\ \A e \in Ids : Follows(entry[e], entry'[e], new)
    BY <1>1 DEF EntriesFollow
  <1>3. stopping' \in {"no", "draining", "done"}
    BY StoppingStep DEF IInv, TypeOK, CloseAll
  <1>4. TypeOK'
    BY <1>2, <1>3, SessionType, RevalType, UpgradesType
    DEF TypeOK, Entry, SessionRow, Revals
  <1>5. \A e \in Ids : Good(entry'[e])
    BY <1>2 DEF Follows
  <1>6. StoppedMeansEmpty'
    <2>1. CASE CloseAll
      <3>1. \A e \in Ids : entry'[e] = IF Listed(e) THEN Closed(entry[e]) ELSE entry[e]
        BY <2>1 DEF CloseAll
      <3>2. \A e \in Ids : Closed(entry[e]).closed
        BY ClosedType DEF IInv, TypeOK, Entry
      <3> QED
        BY <3>1, <3>2 DEF StoppedMeansEmpty, Listed, Created
    <2>2. CASE stopping' = "done" /\ stopping = "done"
      <3>1. ~new /\ \A e \in Ids : ~(entry[e].lease # 0 /\ ~entry[e].closed)
        BY <1>1, <2>2 DEF IInv, StoppedMeansEmpty, Listed, Created
      <3> QED
        BY <1>2, <3>1 DEF Follows, StoppedMeansEmpty, Listed, Created
    <2> QED
      BY <2>1, <2>2, StoppingStep DEF StoppedMeansEmpty
  <1> QED
    BY <1>4, <1>5, <1>6 DEF IInv

(* Entries are typed, those being paired have both sockets, and none is   *)
(* listed after stop(), in every reachable state of the relay.            *)
THEOREM Inductive == Spec => []IInv
  <1>1. Init => IInv
    BY InitInv
  <1>2. IInv /\ [Next]_vars => IInv'
    BY StepInv
  <1> QED
    BY <1>1, <1>2, PTL DEF Spec

(* The session rows, entries and the revalidation loop keep their types. *)
THEOREM TypeCorrect == Spec => []TypeOK
  <1>1. IInv => TypeOK
    BY DEF IInv
  <1> QED
    BY <1>1, Inductive, PTL

(* A live pair has both of its sockets (tryPair looks at closed again     *)
(* after its awaits, handleSocketClose closes the entry at once).         *)
THEOREM LivePairsAreComplete == Spec => []LivePairHasBothEnds
  <1>1. IInv => LivePairHasBothEnds
    BY DEF IInv, Good, LivePairHasBothEnds, Listed
  <1> QED
    BY <1>1, Inductive, PTL

(* After stop() no entry is listed, whatever upgrade or pairing was       *)
(* waiting as it was called (acceptConnection looks at closed again).     *)
THEOREM StopLeavesNothing == Spec => []StoppedMeansEmpty
  <1>1. IInv => StoppedMeansEmpty
    BY DEF IInv
  <1> QED
    BY <1>1, Inductive, PTL

(* An entry that closed while tryPair was waiting does not go live when   *)
(* its queries are answered.                                              *)
THEOREM ClosedStaysDown == Spec => ClosedNeverGoesLive
  <1>1. ASSUME IInv, [Next]_vars
        PROVE  [\A e \in Ids : entry[e].closed => entry'[e].active = entry[e].active]_vars
    BY <1>1, StepFollows DEF EntriesFollow, Follows
  <1> QED
    BY <1>1, Inductive, PTL DEF Spec, ClosedNeverGoesLive
=============================================================================

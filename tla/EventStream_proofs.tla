------------------------- MODULE EventStream_proofs -------------------------
(***************************************************************************)
(* Proofs about the event stream, for any number of clients and events and *)
(* any size of a page, of the table and of the queues of flushes.          *)
(*                                                                         *)
(* InOrderOnce speaks of what was sent; it is kept by what may still be    *)
(* sent.  At most one flush of a client has read, the cursor has not moved *)
(* since, and it is at or past the last event sent: so the page the flush  *)
(* is about to write starts after that event (StreamOK).                   *)
(***************************************************************************)
EXTENDS EventStream, FiniteSetTheorems, SequenceTheorems, TLAPS

Ascending(s) == \A i \in 1 .. Len(s) - 1 : s[i] < s[i + 1]

(* All events of a page come after the cursor. *)
After(s, n) == \A i \in 1 .. Len(s) : n < s[i]

Sent == Seq(1 .. MaxSeq)

Stream == [on : BOOLEAN, cursor : 0 .. MaxSeq, queue : 0 .. MaxQueue,
           reads : SUBSET Sent, got : Sent]

StreamOK(r) ==
    /\ Ascending(r.got)
    /\ r.got # << >> => r.got[Len(r.got)] <= r.cursor
    /\ \A p \in r.reads : Ascending(p) /\ After(p, r.cursor)
    /\ \A p, q \in r.reads : p = q
    /\ r.reads # {} => r.queue # 0

TablesOK ==
    /\ nextSeq \in 1 .. MaxSeq + 1
    /\ \A t \in open : t.seq \in 1 .. MaxSeq /\ t.dropped \subseteq 1 .. MaxSeq
    /\ stored \subseteq 1 .. MaxSeq
    /\ notices \in BOOLEAN /\ listening \in BOOLEAN /\ failed \in BOOLEAN

StreamsOK ==
    /\ client \in [Clients -> Stream]
    /\ \A c \in Clients : StreamOK(client[c])

IInv == TablesOK /\ StreamsOK

----------------------------------------------------------------------------
(* Sequences *)

(* What is behind the last element may be appended. *)
LEMMA AppendAscending ==
    ASSUME NEW s \in Sent, NEW p \in Sent, Ascending(s), Ascending(p),
           NEW n \in Nat, s # << >> => s[Len(s)] <= n, After(p, n)
    PROVE  /\ s \o p \in Sent /\ Ascending(s \o p)
           /\ p # << >> => s \o p # << >> /\ (s \o p)[Len(s \o p)] = p[Len(p)]
           /\ p = << >> => s \o p = s
  <1>0. MaxSeq \in Nat
    BY StreamAssumption
  <1>1. /\ s \o p \in Sent /\ Len(s \o p) = Len(s) + Len(p)
        /\ Len(s) \in Nat /\ Len(p) \in Nat
    BY DEF Sent
  <1>2. /\ \A i \in 1 .. Len(s) : s[i] \in Int /\ (s \o p)[i] = s[i]
        /\ \A i \in 1 .. Len(p) : p[i] \in Int /\ (s \o p)[Len(s) + i] = p[i]
    BY <1>0 DEF Sent
  <1>3. Ascending(s \o p)
    <2> SUFFICES ASSUME NEW i \in 1 .. Len(s) + Len(p) - 1
                 PROVE  (s \o p)[i] < (s \o p)[i + 1]
      BY <1>1 DEF Ascending
    <2>1. CASE i < Len(s)
      BY <1>1, <1>2, <2>1 DEF Ascending
    <2>2. CASE i = Len(s)
      <3>1. s # << >> /\ s[i] <= n /\ s[i] \in Int /\ (s \o p)[i] = s[i]
        BY <1>1, <1>2, <2>2
      <3>2. (s \o p)[i + 1] = p[1] /\ n < p[1] /\ p[1] \in Int
        BY <1>1, <1>2, <2>2 DEF After
      <3> QED
        BY <3>1, <3>2
    <2>3. CASE i > Len(s)
      <3> DEFINE k == i - Len(s)
      <3>1. k \in 1 .. Len(p) - 1 /\ i = Len(s) + k /\ i + 1 = Len(s) + (k + 1)
        BY <1>1, <2>3
      <3>2. p[k] < p[k + 1]
        BY <3>1 DEF Ascending
      <3> HIDE DEF k
      <3>3. (s \o p)[i] = p[k] /\ (s \o p)[i + 1] = p[k + 1]
        BY <1>1, <1>2, <3>1
      <3> QED
        BY <3>2, <3>3
    <2> QED
      BY <1>1, <2>1, <2>2, <2>3
  <1>4. p # << >> => s \o p # << >> /\ (s \o p)[Len(s \o p)] = p[Len(p)]
    <2> SUFFICES ASSUME p # << >>
                 PROVE  s \o p # << >> /\ (s \o p)[Len(s \o p)] = p[Len(p)]
      OBVIOUS
    <2>1. Len(p) \in 1 .. Len(p) /\ Len(s \o p) = Len(s) + Len(p)
      BY <1>1 DEF Sent
    <2>2. (s \o p)[Len(s \o p)] = p[Len(p)]
      BY <1>2, <2>1
    <2>3. s \o p # << >>
      BY <1>1, <2>1
    <2> QED
      BY <2>2, <2>3
  <1>5. p = << >> => s \o p = s
    BY DEF Sent
  <1> QED
    BY <1>1, <1>3, <1>4, <1>5

(* A page of listEventsAfter is ascending and behind the cursor. *)
LEMMA PageOK ==
    ASSUME IInv, NEW c \in Clients, NEW p \in ListEventsAfter(c)
    PROVE  p \in Sent /\ Ascending(p) /\ After(p, client[c].cursor)
  <1> DEFINE R == Rows(c)
             n == Cardinality(R)
  <1>1. R \subseteq 1 .. MaxSeq /\ \A m \in R : client[c].cursor < m
    <2>1. stored \subseteq 1 .. MaxSeq
      BY DEF IInv, TablesOK
    <2>2. \A m \in R : m \in stored /\ m > client[c].cursor
      BY DEF Rows
    <2>3. client[c].cursor \in Nat /\ MaxSeq \in Nat
      BY StreamAssumption DEF IInv, StreamsOK, Stream
    <2> HIDE DEF R
    <2> QED
      BY <2>1, <2>2, <2>3
  <1>2. n \in Nat
    <2>1. IsFiniteSet(1 .. MaxSeq)
      BY StreamAssumption, FS_Interval
    <2>2. IsFiniteSet(R)
      BY <1>1, <2>1, FS_Subset
    <2> QED
      BY <2>2, FS_CardinalityType
  <1>3. p \in [1 .. n -> R] /\ \A i \in 1 .. n - 1 : p[i] < p[i + 1]
    BY DEF ListEventsAfter
  <1> HIDE DEF n, R
  <1>4. p \in [1 .. n -> 1 .. MaxSeq]
    BY <1>1, <1>3
  <1>5. p \in Sent /\ Len(p) = n
    <2>1. p \in Seq(1 .. MaxSeq)
      BY <1>2, <1>4, SeqDef
    <2> QED
      BY <1>2, <1>4, <2>1, LenProperties DEF Sent
  <1> QED
    BY <1>1, <1>3, <1>5 DEF Ascending, After

----------------------------------------------------------------------------
(* Steps *)

(* One client's stream changes. *)
LEMMA OneStream ==
    ASSUME IInv, NEW c \in Clients, NEW r \in Stream, StreamOK(r),
           client' = [client EXCEPT ![c] = r], failed' \in BOOLEAN,
           UNCHANGED <<nextSeq, open, stored, notices, listening>>
    PROVE  IInv'
  <1>1. client \in [Clients -> Stream]
    BY DEF IInv, StreamsOK
  <1>2. client' \in [Clients -> Stream]
    BY <1>1
  <1>3. \A d \in Clients : client'[d] = IF d = c THEN r ELSE client[d]
    BY <1>1
  <1>4. StreamsOK'
    BY <1>2, <1>3 DEF IInv, StreamsOK
  <1>5. TablesOK'
    BY DEF IInv, TablesOK
  <1> QED
    BY <1>4, <1>5 DEF IInv

(* The parts of a stream. *)
LEMMA PartsOf ==
    ASSUME IInv, NEW c \in Clients
    PROVE  /\ client \in [Clients -> Stream] /\ client[c] \in Stream
           /\ client[c].on \in BOOLEAN /\ client[c].cursor \in 0 .. MaxSeq
           /\ client[c].queue \in 0 .. MaxQueue /\ client[c].got \in Sent
           /\ client[c].reads \in SUBSET Sent /\ StreamOK(client[c])
  BY DEF IInv, StreamsOK, Stream

LEMMA ConnectStep ==
    ASSUME IInv, NEW c \in Clients, Connect(c)
    PROVE  IInv'
  <1> DEFINE q == client[c]
             n == IF q.got = << >> THEN 0 ELSE Last(q.got)
             o == TRUE
             e == {}
             r == [q EXCEPT !.on = o, !.queue = 1, !.reads = e, !.cursor = n]
  <1>1. client \in [Clients -> Stream] /\ q \in Stream /\ q.got \in Sent /\ StreamOK(q)
    BY PartsOf
  <1>2. n \in 0 .. MaxSeq /\ (q.got # << >> => q.got[Len(q.got)] = n)
    <2>1. CASE q.got # << >>
      <3>1. Len(q.got) \in 1 .. Len(q.got) /\ q.got \in Seq(1 .. MaxSeq)
        BY <1>1, <2>1 DEF Sent
      <3>2. q.got[Len(q.got)] \in 1 .. MaxSeq
        BY <3>1, ElementOfSeq
      <3> QED
        BY <2>1, <3>2, StreamAssumption DEF Last
    <2>2. CASE q.got = << >>
      BY <2>2, StreamAssumption
    <2> QED
      BY <2>1, <2>2
  <1>3. client' = [client EXCEPT ![c].on = TRUE, ![c].queue = 1, ![c].reads = {},
                                 ![c].cursor = n]
    BY DEF Connect
  <1> HIDE DEF n
  <1>4. client' = [client EXCEPT ![c] = r]
    BY <1>1, <1>3 DEF Stream
  <1>5. /\ r \in Stream /\ r.got = q.got /\ r.cursor = n /\ r.reads = e
    <2>1. 1 \in 0 .. MaxQueue /\ o \in BOOLEAN /\ e \in SUBSET Sent
      BY StreamAssumption
    <2> HIDE DEF o, e
    <2> QED
      BY <1>1, <1>2, <2>1 DEF Stream
  <1> HIDE DEF r
  <1>6. StreamOK(r)
    BY <1>1, <1>2, <1>5, StreamAssumption DEF StreamOK
  <1> QED
    BY <1>4, <1>5, <1>6, OneStream DEF Connect, IInv, TablesOK

LEMMA DisconnectStep ==
    ASSUME IInv, NEW c \in Clients, Disconnect(c)
    PROVE  IInv'
  <1> DEFINE q == client[c]
             o == FALSE
             e == {}
             r == [q EXCEPT !.on = o, !.queue = 0, !.reads = e]
  <1>1. client \in [Clients -> Stream] /\ q \in Stream /\ StreamOK(q)
    BY PartsOf
  <1>2. client' = [client EXCEPT ![c] = r]
    BY <1>1 DEF Disconnect, Stream
  <1>3. r \in Stream /\ r.got = q.got /\ r.cursor = q.cursor /\ r.reads = e
    <2>1. 0 \in 0 .. MaxQueue /\ o \in BOOLEAN /\ e \in SUBSET Sent /\ q.cursor \in 0 .. MaxSeq
      BY <1>1, StreamAssumption DEF Stream
    <2> HIDE DEF o, e
    <2> QED
      BY <1>1, <2>1 DEF Stream
  <1> HIDE DEF r
  <1>4. StreamOK(r)
    BY <1>1, <1>3 DEF StreamOK
  <1> QED
    BY <1>2, <1>3, <1>4, OneStream DEF Disconnect, IInv, TablesOK

LEMMA FlushReadStep ==
    ASSUME IInv, NEW c \in Clients, FlushRead(c)
    PROVE  IInv'
  <1>1. PICK p \in ListEventsAfter(c) : client' = [client EXCEPT ![c].reads = {p}]
    BY DEF FlushRead
  <1> DEFINE q == client[c]
             r == [q EXCEPT !.reads = {p}]
  <1>2. /\ client \in [Clients -> Stream] /\ q \in Stream /\ StreamOK(q)
        /\ q.queue \in 0 .. MaxQueue /\ q.queue # 0
    BY PartsOf DEF FlushRead
  <1>3. p \in Sent /\ Ascending(p) /\ After(p, q.cursor)
    BY PageOK
  <1>4. client' = [client EXCEPT ![c] = r]
    BY <1>1, <1>2 DEF Stream
  <1>5. /\ r \in Stream /\ r.got = q.got /\ r.cursor = q.cursor /\ r.reads = {p}
        /\ r.queue = q.queue
    BY <1>2, <1>3 DEF Stream
  <1> HIDE DEF r
  <1>6. StreamOK(r)
    BY <1>2, <1>3, <1>5 DEF StreamOK
  <1> QED
    BY <1>4, <1>5, <1>6, OneStream DEF FlushRead, IInv, TablesOK

LEMMA FlushWriteStep ==
    ASSUME IInv, NEW c \in Clients, FlushWrite(c)
    PROVE  IInv'
  <1> DEFINE q == client[c]
  <1>1. PICK p \in q.reads :
            client' = [client EXCEPT ![c].reads = @ \ {p}, ![c].queue = @ - 1,
                                     ![c].got = @ \o p,
                                     ![c].cursor = IF p = << >> THEN @ ELSE Last(p)]
    BY DEF FlushWrite
  <1> DEFINE n == IF p = << >> THEN q.cursor ELSE Last(p)
             g == q.got \o p
             k == q.queue - 1
             e == q.reads \ {p}
             r == [q EXCEPT !.reads = e, !.queue = k, !.got = g, !.cursor = n]
  <1>2. /\ client \in [Clients -> Stream] /\ q \in Stream /\ q.got \in Sent
        /\ q.queue \in 0 .. MaxQueue
        /\ q.cursor \in 0 .. MaxSeq /\ q.reads \in SUBSET Sent /\ StreamOK(q)
    BY PartsOf
  <1>3. p \in Sent /\ Ascending(p) /\ After(p, q.cursor) /\ e = {}
    BY <1>2 DEF StreamOK
  <1>4. /\ q.cursor \in Nat /\ Ascending(q.got) /\ q.queue # 0
        /\ q.got # << >> => q.got[Len(q.got)] <= q.cursor
    BY <1>1, <1>2, StreamAssumption DEF StreamOK
  <1>5. /\ g \in Sent /\ Ascending(g)
        /\ p # << >> => g # << >> /\ g[Len(g)] = p[Len(p)]
        /\ p = << >> => g = q.got
    BY <1>2, <1>3, <1>4, AppendAscending
  <1>6. n \in 0 .. MaxSeq
    <2>1. CASE p # << >>
      <3>1. Len(p) \in 1 .. Len(p) /\ p \in Seq(1 .. MaxSeq)
        BY <1>3, <2>1 DEF Sent
      <3>2. p[Len(p)] \in 1 .. MaxSeq
        BY <3>1, ElementOfSeq
      <3> QED
        BY <2>1, <3>2, StreamAssumption DEF Last
    <2>2. CASE p = << >>
      BY <1>2, <2>2
    <2> QED
      BY <2>1, <2>2
  <1>7. k \in 0 .. MaxQueue
    BY <1>2, <1>4, StreamAssumption
  <1>8. g # << >> => g[Len(g)] <= n
    <2>1. CASE p # << >>
      <3>1. n \in Int /\ n = p[Len(p)]
        BY <1>6, <2>1 DEF Last
      <3> QED
        BY <1>5, <2>1, <3>1
    <2>2. CASE p = << >>
      BY <1>4, <1>5, <2>2
    <2> QED
      BY <2>1, <2>2
  <1>9. client' = [client EXCEPT ![c].reads = e, ![c].queue = k, ![c].got = g,
                                 ![c].cursor = n]
    BY <1>1
  <1> HIDE DEF n, g, k, e
  <1>10. client' = [client EXCEPT ![c] = r]
    BY <1>2, <1>9 DEF Stream
  <1>11. r \in Stream /\ r.got = g /\ r.cursor = n /\ r.reads = {}
    BY <1>2, <1>3, <1>5, <1>6, <1>7 DEF Stream
  <1> HIDE DEF r
  <1>12. StreamOK(r)
    BY <1>5, <1>8, <1>11 DEF StreamOK
  <1> QED
    BY <1>10, <1>11, <1>12, OneStream DEF FlushWrite, IInv, TablesOK

LEMMA FlushFailsStep ==
    ASSUME IInv, NEW c \in Clients, FlushFails(c)
    PROVE  IInv'
  <1> DEFINE q == client[c]
             k == q.queue - 1
             r == [q EXCEPT !.reads = {}, !.queue = k]
  <1>1. /\ client \in [Clients -> Stream] /\ q \in Stream
        /\ q.queue \in 0 .. MaxQueue /\ q.queue # 0 /\ StreamOK(q)
    BY PartsOf DEF FlushFails, StreamOK
  <1>2. client' = [client EXCEPT ![c].reads = {}, ![c].queue = k]
    BY DEF FlushFails
  <1>3. k \in 0 .. MaxQueue
    BY <1>1, StreamAssumption
  <1> HIDE DEF k
  <1>4. client' = [client EXCEPT ![c] = r]
    BY <1>1, <1>2 DEF Stream
  <1>5. r \in Stream /\ r.got = q.got /\ r.cursor = q.cursor /\ r.reads = {}
    BY <1>1, <1>3 DEF Stream
  <1> HIDE DEF r
  <1>6. StreamOK(r)
    BY <1>1, <1>5 DEF StreamOK
  <1> QED
    BY <1>4, <1>5, <1>6, OneStream DEF FlushFails, IInv, TablesOK

(* A flush is queued for every client. *)
LEMMA BroadcastSteps ==
    ASSUME IInv, BroadcastNewEvents \/ RequestBroadcasts
    PROVE  IInv'
  <1>1. /\ client' = [c \in Clients |-> Queued(client[c])]
        /\ notices' \in BOOLEAN /\ UNCHANGED <<nextSeq, open, stored, listening, failed>>
    BY DEF BroadcastNewEvents, RequestBroadcasts, IInv, TablesOK
  <1>2. ASSUME NEW c \in Clients
        PROVE  Queued(client[c]) \in Stream /\ StreamOK(Queued(client[c]))
    <2> DEFINE q == client[c]
               k == q.queue + 1
               r == [q EXCEPT !.queue = k]
    <2>1. q \in Stream /\ StreamOK(q) /\ q.queue \in 0 .. MaxQueue
      BY PartsOf
    <2>2. CASE q.on /\ q.queue < MaxQueue
      <3>1. k \in 0 .. MaxQueue /\ k # 0 /\ Queued(q) = r
        BY <2>1, <2>2, StreamAssumption DEF Queued
      <3> HIDE DEF k
      <3>2. /\ r \in Stream /\ r.got = q.got /\ r.cursor = q.cursor
            /\ r.reads = q.reads /\ r.queue = k
        BY <2>1, <3>1 DEF Stream
      <3>3. StreamOK(r)
        BY <2>1, <3>1, <3>2 DEF StreamOK
      <3> QED
        BY <3>1, <3>2, <3>3
    <2>3. CASE ~(q.on /\ q.queue < MaxQueue)
      BY <2>1, <2>3 DEF Queued
    <2> QED
      BY <2>2, <2>3
  <1>3. StreamsOK'
    BY <1>1, <1>2 DEF StreamsOK
  <1>4. TablesOK'
    BY <1>1 DEF IInv, TablesOK
  <1> QED
    BY <1>3, <1>4 DEF IInv

(* Writers and the listener leave the streams alone. *)
LEMMA WriterSteps ==
    ASSUME IInv, AppendEvent \/ (\E t \in open : Commit(t) \/ Rollback(t)) \/ ListenerFails
    PROVE  IInv'
  <1>1. StreamsOK'
    BY DEF AppendEvent, Commit, Rollback, ListenerFails, IInv, StreamsOK
  <1>2. CASE AppendEvent
    <2> DEFINE D == {m \in stored : m <= Max(stored \cup {nextSeq}) - Retain}
               u == [seq |-> nextSeq, dropped |-> D]
    <2>1. /\ nextSeq <= MaxSeq /\ open' = open \cup {u} /\ nextSeq' = nextSeq + 1
          /\ UNCHANGED <<stored, notices, listening, failed>>
      BY <1>2 DEF AppendEvent
    <2>2. D \subseteq stored
      OBVIOUS
    <2> HIDE DEF D
    <2>3. u.seq = nextSeq /\ u.dropped = D
      OBVIOUS
    <2> HIDE DEF u
    <2>4. nextSeq \in 1 .. MaxSeq /\ nextSeq' \in 1 .. MaxSeq + 1
      BY <2>1, StreamAssumption DEF IInv, TablesOK
    <2>5. \A t \in open' : t.seq \in 1 .. MaxSeq /\ t.dropped \subseteq 1 .. MaxSeq
      <3>1. \A t \in open : t.seq \in 1 .. MaxSeq /\ t.dropped \subseteq 1 .. MaxSeq
        BY DEF IInv, TablesOK
      <3>2. u.seq \in 1 .. MaxSeq /\ u.dropped \subseteq 1 .. MaxSeq
        BY <2>2, <2>3, <2>4 DEF IInv, TablesOK
      <3> QED
        BY <2>1, <3>1, <3>2
    <2>6. TablesOK'
      BY <2>1, <2>4, <2>5 DEF IInv, TablesOK
    <2> QED
      BY <1>1, <2>6 DEF IInv
  <1>3. CASE (\E t \in open : Commit(t) \/ Rollback(t)) \/ ListenerFails
    <2>1. TablesOK'
      BY <1>3 DEF Commit, Rollback, ListenerFails, IInv, TablesOK
    <2> QED
      BY <1>1, <2>1 DEF IInv
  <1> QED
    BY <1>2, <1>3

----------------------------------------------------------------------------
(* The theorems *)

LEMMA InitInv == Init => IInv
  <1> SUFFICES ASSUME Init PROVE IInv
    OBVIOUS
  <1>1. << >> \in Sent /\ Ascending(<< >>)
    BY DEF Sent, Ascending
  <1>2. Closed \in Stream /\ StreamOK(Closed)
    BY <1>1, StreamAssumption DEF Closed, Stream, StreamOK
  <1>3. StreamsOK
    BY <1>2 DEF Init, StreamsOK
  <1>4. TablesOK
    <2>1. nextSeq \in 1 .. MaxSeq + 1
      BY StreamAssumption DEF Init
    <2>2. open = {} /\ stored = {} /\ notices = FALSE /\ listening = TRUE /\ failed = FALSE
      BY DEF Init
    <2> QED
      BY <2>1, <2>2 DEF TablesOK
  <1> QED
    BY <1>3, <1>4 DEF IInv

LEMMA StepInv == IInv /\ [Next]_vars => IInv'
  <1> SUFFICES ASSUME IInv, [Next]_vars PROVE IInv'
    OBVIOUS
  <1>1. CASE \E c \in Clients : Connect(c) \/ Disconnect(c) \/ StreamNext(c) \/ FlushFails(c)
    BY <1>1, ConnectStep, DisconnectStep, FlushReadStep, FlushWriteStep, FlushFailsStep
    DEF StreamNext
  <1>2. CASE BroadcastNewEvents \/ RequestBroadcasts
    BY <1>2, BroadcastSteps
  <1>3. CASE AppendEvent \/ (\E t \in open : Commit(t) \/ Rollback(t)) \/ ListenerFails
    BY <1>3, WriterSteps
  <1>4. CASE UNCHANGED vars
    BY <1>4 DEF vars, IInv, TablesOK, StreamsOK
  <1> QED
    BY <1>1, <1>2, <1>3, <1>4 DEF Next

(* The invariant: the page a flush of http-server.mjs has read and not yet   *)
(* written is ascending and comes after everything its client was sent.       *)
THEOREM Inductive == Spec => []IInv
  BY InitInv, StepInv, PTL DEF Spec

(* TypeOK: the table and the streams keep their types. *)
THEOREM TypeCorrect == Spec => []TypeOK
  <1>1. IInv => TypeOK
    BY DEF IInv, TablesOK, StreamsOK, Stream, Sent, TypeOK
  <1> QED
    BY <1>1, Inductive, PTL

(* InOrderOnce: flushTail of http-server.mjs is enough for a client to get   *)
(* every event at most once and in order, for any number of clients, events, *)
(* overlapping broadcasts, failed queries and reconnections.                 *)
THEOREM SentInOrderOnce == Spec => []InOrderOnce
  <1>1. IInv => InOrderOnce
    BY DEF IInv, StreamsOK, StreamOK, Ascending, InOrderOnce
  <1> QED
    BY <1>1, Inductive, PTL
=============================================================================

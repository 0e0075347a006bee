---------------------------- MODULE EventStream -----------------------------
(***************************************************************************)
(* The events table and the server-sent event stream of one replica.       *)
(* A transaction takes the next sequence number when it inserts its event  *)
(* and makes it visible when it commits; transactions of other requests    *)
(* and replicas run meanwhile.  A commit notifies the subscribers, a       *)
(* notification or a request of the replica queues a flush for every       *)
(* client, and a flush reads what is committed after its client's cursor.  *)
(***************************************************************************)
EXTENDS Integers, FiniteSets, FiniteSetsExt, Sequences, SequencesExt

CONSTANTS
    Clients,   \* administrators' event streams
    Page,      \* limit of listEventsAfter, 500
    Retain,    \* events kept, 10000
    MaxSeq,    \* bound: events inserted
    MaxQueue   \* bound: flushes queued for one client

ASSUME StreamAssumption ==
    /\ Page \in Nat \ {0} /\ Retain \in Nat \ {0}
    /\ MaxSeq \in Nat /\ MaxQueue \in Nat \ {0}

VARIABLES
    nextSeq,    \* the sequence of the events table
    open,       \* transactions that have inserted: seq, and the rows they delete
    stored,     \* sequence numbers of the committed, retained events
    notices,    \* a notification is on its way
    listening,  \* the LISTEN connection is alive
    client,     \* streams: cursor, queued flushes, reads under way, what was sent
    failed      \* history: a connection or a query has failed

vars == <<nextSeq, open, stored, notices, listening, client, failed>>

Closed == [on |-> FALSE, cursor |-> 0, queue |-> 0, reads |-> {}, got |-> << >>]

Init ==
    /\ nextSeq = 1
    /\ open = {}
    /\ stored = {}
    /\ notices = FALSE
    /\ listening = TRUE
    /\ client = [c \in Clients |-> Closed]
    /\ failed = FALSE

----------------------------------------------------------------------------
(* Writers *)

(* appendEvent inside a transaction: INSERT and the retention DELETE. *)
AppendEvent ==
    /\ nextSeq <= MaxSeq
    /\ open' = open \cup {[seq |-> nextSeq, dropped |->
                    {m \in stored : m <= Max(stored \cup {nextSeq}) - Retain}]}
    /\ nextSeq' = nextSeq + 1
    /\ UNCHANGED <<stored, notices, listening, client, failed>>

(* COMMIT: the event appears, the notification leaves. *)
Commit(t) ==
    /\ t \in open
    /\ open' = open \ {t}
    /\ stored' = (stored \cup {t.seq}) \ t.dropped
    /\ notices' = TRUE
    /\ UNCHANGED <<nextSeq, listening, client, failed>>

(* ROLLBACK: the sequence keeps its gap. *)
Rollback(t) ==
    /\ t \in open
    /\ open' = open \ {t}
    /\ UNCHANGED <<nextSeq, stored, notices, listening, client, failed>>

----------------------------------------------------------------------------
(* Streams *)

(* openEventStream: the client is listed before its first flush is queued. *)
Connect(c) ==
    /\ ~client[c].on
    /\ client' = [client EXCEPT ![c].on = TRUE, ![c].queue = 1, ![c].reads = {},
                    ![c].cursor = IF client[c].got = << >> THEN 0 ELSE Last(client[c].got)]
    /\ UNCHANGED <<nextSeq, open, stored, notices, listening, failed>>

(* The response is gone: what a flush still writes reaches nobody. *)
Disconnect(c) ==
    /\ client[c].on
    /\ client' = [client EXCEPT ![c].on = FALSE, ![c].queue = 0, ![c].reads = {}]
    /\ UNCHANGED <<nextSeq, open, stored, notices, listening, failed>>

Queued(r) == IF r.on /\ r.queue < MaxQueue THEN [r EXCEPT !.queue = r.queue + 1] ELSE r

(* Mutation: a client whose flush is under way is skipped. *)
MutBroadcastNewEvents ==
    /\ notices /\ listening
    /\ notices' = FALSE
    /\ client' = [c \in Clients |->
            IF client[c].queue > 0 THEN client[c] ELSE Queued(client[c])]
    /\ UNCHANGED <<nextSeq, open, stored, listening, failed>>

(* broadcastNewEvents on a notification.  A flush beyond MaxQueue would find *)
(* nothing: one that has not read yet is queued already.                     *)
BroadcastNewEvents ==
    /\ notices /\ listening
    /\ notices' = FALSE
    /\ client' = [c \in Clients |-> Queued(client[c])]
    /\ UNCHANGED <<nextSeq, open, stored, listening, failed>>

(* Every request that may change rows broadcasts before it is answered,      *)
(* whether or not its events were announced.                                 *)
RequestBroadcasts ==
    /\ client' = [c \in Clients |-> Queued(client[c])]
    /\ UNCHANGED <<nextSeq, open, stored, notices, listening, failed>>

(* The connection of the listener fails: logged, and never opened again. *)
ListenerFails ==
    /\ listening
    /\ listening' = FALSE
    /\ failed' = TRUE
    /\ UNCHANGED <<nextSeq, open, stored, notices, client>>

(* The rows behind the cursor that are in the first page. *)
Rows(c) ==
    {m \in stored : /\ m > client[c].cursor
                    /\ Cardinality({k \in stored : client[c].cursor < k /\ k < m}) < Page}

(* listEventsAfter returns them ORDER BY sequence ASC: there is one such page. *)
ListEventsAfter(c) ==
    LET n == Cardinality(Rows(c))
    IN  {page \in [1 .. n -> Rows(c)] : \A i \in 1 .. n - 1 : page[i] < page[i + 1]}

(* Mutation: flushes are not chained by flushTail. *)
MutFlushRead(c) ==
    /\ Cardinality(client[c].reads) < client[c].queue
    /\ \E page \in ListEventsAfter(c) :
            client' = [client EXCEPT ![c].reads = @ \cup {page}]
    /\ UNCHANGED <<nextSeq, open, stored, notices, listening, failed>>

(* flushClient up to its await, once the flush before it has settled. *)
FlushRead(c) ==
    /\ client[c].queue > 0 /\ client[c].reads = {}
    /\ \E page \in ListEventsAfter(c) :
            client' = [client EXCEPT ![c].reads = {page}]
    /\ UNCHANGED <<nextSeq, open, stored, notices, listening, failed>>

(* The rows are written one after the other and the cursor follows them. *)
FlushWrite(c) ==
    \E page \in client[c].reads :
        /\ client' = [client EXCEPT
                ![c].reads = @ \ {page},
                ![c].queue = @ - 1,
                ![c].got = @ \o page,
                ![c].cursor = IF page = << >> THEN @ ELSE Last(page)]
        /\ UNCHANGED <<nextSeq, open, stored, notices, listening, failed>>

(* The query fails: flushTail swallows it and the next flush starts. *)
FlushFails(c) ==
    /\ client[c].reads # {}
    /\ client' = [client EXCEPT ![c].reads = {}, ![c].queue = @ - 1]
    /\ failed' = TRUE
    /\ UNCHANGED <<nextSeq, open, stored, notices, listening>>

----------------------------------------------------------------------------
StreamNext(c) == FlushRead(c) \/ FlushWrite(c)

Next ==
    \/ AppendEvent
    \/ \E t \in open : Commit(t) \/ Rollback(t)
    \/ \E c \in Clients : Connect(c) \/ Disconnect(c) \/ StreamNext(c) \/ FlushFails(c)
    \/ BroadcastNewEvents \/ RequestBroadcasts \/ ListenerFails

Spec == Init /\ [][Next]_vars

(* Notifications arrive and queries are answered; clients and requests owe *)
(* nothing.                                                                *)
FairSpec ==
    /\ Spec
    /\ WF_vars(BroadcastNewEvents)
    /\ \A c \in Clients : WF_vars(StreamNext(c))

----------------------------------------------------------------------------
(* Properties *)

(* Types of the table and of the streams. *)
TypeOK ==
    /\ nextSeq \in 1 .. MaxSeq + 1
    /\ \A t \in open : t.seq \in 1 .. MaxSeq /\ t.dropped \subseteq 1 .. MaxSeq
    /\ stored \subseteq 1 .. MaxSeq
    /\ notices \in BOOLEAN /\ listening \in BOOLEAN /\ failed \in BOOLEAN
    /\ \A c \in Clients :
        /\ client[c].on \in BOOLEAN
        /\ client[c].cursor \in 0 .. MaxSeq
        /\ client[c].queue \in 0 .. MaxQueue
        /\ client[c].reads \subseteq Seq(1 .. MaxSeq)
        /\ client[c].got \in Seq(1 .. MaxSeq)

(* A client gets every event at most once and in the order of the sequence, *)
(* also when notifications arrive during a flush and over reconnections.    *)
InOrderOnce ==
    \A c \in Clients : \A i \in 1 .. Len(client[c].got) - 1 :
        client[c].got[i] < client[c].got[i + 1]

Behind(c) == {m \in stored : m > client[c].cursor}

(* An event committed behind the cursor of an open stream reaches it without *)
(* the help of a later event or request, also when its notification comes    *)
(* during a flush.  Two limits of the code are premises: nothing repeats a   *)
(* failed query or opens a lost listener again, and a flush reads one page,  *)
(* so a client further behind waits for an unrelated event.                  *)
EventReachesStream ==
    \A c \in Clients, n \in 1 .. MaxSeq :
        [](~failed /\ Cardinality(Behind(c)) <= Page) =>
            ((client[c].on /\ n \in Behind(c)) ~> (~client[c].on \/ n \notin Behind(c)))

(* docs/API.md: with Last-Event-ID the retained events are replayed.  Fails: *)
(* an event may commit after one with a higher sequence number was sent, and *)
(* the cursor has passed it.                                                 *)
NoEventIsSkipped ==
    \A c \in Clients : \A n \in stored :
        n <= client[c].cursor => n \in ToSet(client[c].got)
=============================================================================

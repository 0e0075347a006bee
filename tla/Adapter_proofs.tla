--------------------------- MODULE Adapter_proofs ---------------------------
(***************************************************************************)
(* Proofs about a subprocess adapter's session, for any number of client   *)
(* messages and frames and any size of the pipes.                          *)
(*                                                                         *)
(* That an acknowledged session is done needs three counts to agree: every *)
(* frame of the process is in its pipe, was forwarded, or was one of the   *)
(* two frames of the handshake and of END (CountOK); what was written to   *)
(* it is the front of what was accepted, and END can only be the last of   *)
(* it (WrittenOK); and an aborted bridge has a terminated process, so      *)
(* neither count goes on behind its back (BridgeOK).                       *)
(***************************************************************************)
EXTENDS Adapter, SequenceTheorems, TLAPS

Acked == \E i \in DOMAIN forwarded : forwarded[i] = "completed"

(* The process and its supervisor. *)
ChildOK ==
    /\ child.mode = "none" => child.proc = "none" /\ ~child.stopped /\ outPipe = <<>>
    /\ child.proc = "none" => child.mode = "none"
    /\ child.mode = "closed" => child.proc = "exited" /\ outPipe = <<>>
    /\ child.done # "pending" => child.mode = "closed"
    /\ child.done = "resolved" => Completed(child)
    /\ child.stopped => child.mode \in {"stopping", "closed"}
    /\ child.mode = "stopping" => child.stopped
    /\ child.endAck => child.mode \in {"acknowledged", "stopping", "closed"}

(* The bridge and its process. *)
BridgeOK ==
    /\ bridge.pc = "verify" => child.mode = "none"
    /\ child.mode = "none" => bridge.pc \in {"verify", "returned"}
    /\ bridge.pc \in {"leave", "returned"} => bridge.aborted
    /\ bridge.pc = "returned" => child.mode \in {"none", "closed"}
    /\ bridge.aborted => child.stopped \/ child.mode \in {"none", "closed"}

(* Where the frames of the process are. *)
CountOK ==
    ~child.stopped /\ ~Acked =>
        /\ child.mode \in {"none", "starting"} =>
                emitted = Len(outPipe) /\ forwarded = <<>>
        /\ child.mode \in {"running", "ending"} =>
                emitted = Len(outPipe) + 1 + Len(forwarded)
        /\ child.mode \in {"acknowledged", "closed"} /\ child.endAck =>
                emitted = Len(outPipe) + 2 + Len(forwarded)

(* Where the messages of the client are. *)
WrittenOK ==
    /\ Len(written) + InHand <= Len(accepted)
    /\ \A i \in 1 .. Len(written) : written[i] = accepted[i]
    /\ \A i \in 1 .. Len(accepted) : accepted[i] = END =>
            i = Len(accepted) /\ bridge.endRequested
    /\ bridge.pump = "ending" => accepted[Len(written) + 1] = END
    /\ bridge.pump \in {"awaitDone", "acking"} =>
            written # <<>> /\ written[Len(written)] = END

(* What an acknowledgement has found and leaves as it is. *)
AckOK ==
    \A i \in DOMAIN forwarded : forwarded[i] = "completed" =>
        /\ i = Len(forwarded) /\ i = emitted - 1
        /\ written = accepted /\ written # <<>> /\ written[Len(written)] = END
        /\ child.mode = "closed" /\ child.endAck /\ child.code = 0
        /\ bridge.pump \in {"idle", "acking"} /\ bridge.endRequested

IInv == TypeOK /\ ChildOK /\ BridgeOK /\ CountOK /\ WrittenOK /\ AckOK
----------------------------------------------------------------------------
(* terminate() and abort() *)

(* What terminate() makes of a process. *)
Ended(c, d) ==
    /\ d \in Child
    /\ d.endAck = c.endAck /\ d.done = c.done /\ d.proc = c.proc /\ d.code = c.code
    /\ d.truncated = c.truncated
    /\ d.mode \in {"stopping"} /\ d.stopped

Modes    == {"none", "starting", "running", "ending", "acknowledged", "stopping", "closed"}
Promises == {"pending", "resolved", "rejected"}
Procs    == {"none", "running", "exited"}
Signals  == {"none", "TERM", "KILL"}
Inputs   == {"open", "ended", "destroyed"}

LEMMA ChildIs ==
    Child = [mode : Modes, stopped : BOOLEAN, endAck : BOOLEAN, ready : Promises,
             done : Promises, proc : Procs, code : {0, 1}, truncated : BOOLEAN,
             signal : Signals, stdin : Inputs, inPipe : 0 .. PipeRoom]
  BY DEF Child, Modes, Promises, Procs, Signals, Inputs

LEMMA TerminateIs ==
    ASSUME NEW c \in Child
    PROVE  /\ c.stopped \/ c.mode \in {"none", "closed"} => Terminate(c) = c
           /\ ~(c.stopped \/ c.mode \in {"none", "closed"}) => Ended(c, Terminate(c))
           /\ Terminate(c) \in Child
           /\ Terminate(c).stopped \/ Terminate(c).mode \in {"none", "closed"}
  <1>1. CASE c.stopped \/ c.mode \in {"none", "closed"}
    BY <1>1 DEF Terminate
  <1>2. CASE ~(c.stopped \/ c.mode \in {"none", "closed"})
    <2> DEFINE s == TRUE
               m == "stopping"
               r == IF c.ready = "pending" THEN "rejected" ELSE c.ready
               i == "destroyed"
               g == "TERM"
               d == [c EXCEPT !.stopped = s, !.mode = m, !.ready = r, !.stdin = i,
                              !.signal = g]
    <2>1. Terminate(c) = d
      BY <1>2 DEF Terminate
    <2>2. /\ s \in BOOLEAN /\ s = TRUE /\ m = "stopping"
          /\ m \in Modes /\ r \in Promises /\ i \in Inputs /\ g \in Signals
      <3>1. c.ready \in Promises
        BY ChildIs
      <3> QED
        BY <3>1 DEF Modes, Promises, Inputs, Signals
    <2> HIDE DEF s, m, r, i, g
    <2>3. /\ d \in Child /\ d.endAck = c.endAck /\ d.done = c.done /\ d.proc = c.proc
          /\ d.code = c.code /\ d.truncated = c.truncated /\ d.mode = m /\ d.stopped = s
      BY <2>2, ChildIs
    <2> HIDE DEF d
    <2>4. Ended(c, d)
      BY <2>2, <2>3 DEF Ended
    <2> QED
      BY <1>2, <2>1, <2>4 DEF Ended
  <1> QED
    BY <1>1, <1>2

(* The process is left as it is, or terminated. *)
Kept(c, d) == d = c \/ (~c.stopped /\ c.mode \notin {"none", "closed"} /\ Ended(c, d))

LEMMA TerminateKeeps ==
    ASSUME NEW c \in Child, NEW d \in Child, Kept(c, d)
    PROVE  /\ Kept(c, Terminate(d)) /\ Terminate(d) \in Child
           /\ Terminate(d).stopped \/ Terminate(d).mode \in {"none", "closed"}
  <1>1. CASE d = c
    BY <1>1, TerminateIs DEF Kept
  <1>2. CASE d # c
    BY <1>2, TerminateIs DEF Kept, Ended
  <1> QED
    BY <1>1, <1>2

(* The bridge changes no count and hears of no new message. *)
Same(b, e) ==
    /\ e \in Bridge
    /\ e.endRequested = b.endRequested
    /\ e.pump = b.pump \/ e.pump = "idle"

LEMMA AbortIs ==
    ASSUME TypeOK, NEW b \in Bridge, NEW c \in Child, Same(bridge, b), Kept(child, c),
           Abort(b, c)
    PROVE  /\ Same(bridge, bridge') /\ bridge'.aborted /\ bridge'.pc = b.pc
           /\ bridge'.pump = b.pump
           /\ child' \in Child /\ Kept(child, child')
           /\ b.aborted => child' = c
           /\ ~b.aborted => child'.stopped \/ child'.mode \in {"none", "closed"}
  <1> DEFINE a == TRUE
             e == [b EXCEPT !.aborted = a]
  <1>1. bridge' = e /\ child' = IF b.aborted THEN c ELSE Terminate(c)
    BY DEF Abort
  <1>2. a \in BOOLEAN /\ a = TRUE
    OBVIOUS
  <1> HIDE DEF a
  <1>3. /\ e \in Bridge /\ e.endRequested = b.endRequested /\ e.pump = b.pump
        /\ e.pc = b.pc /\ e.aborted = a
    BY <1>2 DEF Bridge
  <1> HIDE DEF e
  <1>4. Same(bridge, bridge') /\ bridge'.aborted /\ bridge'.pc = b.pc /\ bridge'.pump = b.pump
    BY <1>1, <1>2, <1>3 DEF Same
  <1>5. child \in Child
    BY DEF TypeOK
  <1> QED
    BY <1>1, <1>4, <1>5, TerminateKeeps

LEMMA FailIs ==
    ASSUME TypeOK, NEW b \in Bridge, NEW c \in Child, Same(bridge, b), Kept(child, c),
           Fail(b, c)
    PROVE  /\ Same(bridge, bridge') /\ bridge'.aborted /\ bridge'.pc = b.pc
           /\ bridge'.pump = b.pump
           /\ child' \in Child /\ Kept(child, child')
           /\ b.aborted => child' = c
           /\ ~b.aborted => child'.stopped \/ child'.mode \in {"none", "closed"}
  <1> DEFINE f == b.failure \/ ~b.aborted
             e == [b EXCEPT !.failure = f]
  <1>1. Abort(e, c)
    BY DEF Fail
  <1>2. f \in BOOLEAN
    BY DEF Bridge
  <1> HIDE DEF f
  <1>3. /\ e \in Bridge /\ e.endRequested = b.endRequested /\ e.pump = b.pump
        /\ e.pc = b.pc /\ e.aborted = b.aborted
    BY <1>2 DEF Bridge
  <1> HIDE DEF e
  <1>4. Same(bridge, e)
    BY <1>3 DEF Same
  <1> QED
    BY <1>1, <1>3, <1>4, AbortIs

----------------------------------------------------------------------------
(* A step that moves no message and no frame *)

Counts == <<outPipe, explicit, accepted, written, emitted, forwarded>>

LEMMA QuietStep ==
    ASSUME IInv, Same(bridge, bridge'), child' \in Child, Kept(child, child'), BridgeOK',
           UNCHANGED Counts, sent' \in 0 .. MaxMessages, parent' \in BOOLEAN,
           socket' \in {"open", "closing", "closed"}
    PROVE  IInv'
  <1>1. TypeOK'
    BY DEF IInv, TypeOK, Same, Counts
  <1>2. ChildOK'
    <2>1. CASE child' = child
      BY <2>1 DEF IInv, ChildOK, Counts, Completed
    <2>2. CASE child' # child
      BY <2>2 DEF IInv, ChildOK, Counts, Completed, Kept, Ended
    <2> QED
      BY <2>1, <2>2
  <1>3. CountOK'
    <2>1. CASE child' = child
      BY <2>1 DEF IInv, CountOK, Counts, Acked
    <2>2. CASE child' # child
      BY <2>2 DEF CountOK, Kept, Ended
    <2> QED
      BY <2>1, <2>2
  <1>4. WrittenOK'
    <2>1. InHand' <= InHand /\ InHand \in Nat /\ InHand' \in Nat
      BY DEF InHand, Same
    <2>2. Len(written) \in Nat /\ Len(accepted) \in Nat
      BY DEF IInv, TypeOK
    <2> QED
      BY <2>1, <2>2 DEF IInv, WrittenOK, Same, Counts
  <1>5. AckOK'
    BY DEF IInv, AckOK, Same, Counts, Kept
  <1> QED
    BY <1>1, <1>2, <1>3, <1>4, <1>5 DEF IInv
Pcs   == {"verify", "awaitReady", "race", "leave", "returned"}
Pumps == {"idle", "writing", "ending", "awaitDone", "acking"}

LEMMA BridgeIs ==
    Bridge = [pc : Pcs, ready : BOOLEAN, aborted : BOOLEAN, endRequested : BOOLEAN,
              graceful : BOOLEAN, failure : BOOLEAN, noticed : BOOLEAN, pump : Pumps]
  BY DEF Bridge, Pcs, Pumps

LEMMA TypesOf ==
    ASSUME IInv
    PROVE  /\ TypeOK /\ bridge \in Bridge /\ child \in Child /\ parent \in BOOLEAN
           /\ sent \in 0 .. MaxMessages /\ socket \in {"open", "closing", "closed"}
           /\ Same(bridge, bridge) /\ Kept(child, child)
  BY DEF IInv, TypeOK, Same, Kept

(* The place the bridge awaits at does not change. *)
LEMMA SamePlace ==
    ASSUME IInv, Kept(child, child'), bridge'.pc = bridge.pc,
           bridge.aborted => bridge'.aborted,
           bridge'.aborted =>
                bridge.aborted \/ child'.stopped \/ child'.mode \in {"none", "closed"}
    PROVE  BridgeOK'
  <1>1. CASE child' = child
    BY <1>1 DEF IInv, BridgeOK
  <1>2. CASE child' # child
    BY <1>2 DEF IInv, BridgeOK, Kept, Ended
  <1> QED
    BY <1>1, <1>2

(* Whatever aborts the bridge, without moving a message or a frame. *)
LEMMA AbortStep ==
    ASSUME IInv, NEW b \in Bridge, NEW c \in Child, Same(bridge, b), Kept(child, c),
           b.pc = bridge.pc, b.aborted = bridge.aborted, Abort(b, c) \/ Fail(b, c),
           UNCHANGED Counts, sent' \in 0 .. MaxMessages, parent' \in BOOLEAN,
           socket' \in {"open", "closing", "closed"}
    PROVE  IInv'
  <1>1. TypeOK
    BY TypesOf
  <1>2. /\ Same(bridge, bridge') /\ bridge'.aborted /\ bridge'.pc = b.pc
        /\ child' \in Child /\ Kept(child, child')
        /\ ~b.aborted => child'.stopped \/ child'.mode \in {"none", "closed"}
    BY <1>1, AbortIs, FailIs
  <1>3. BridgeOK'
    BY <1>2, SamePlace
  <1> QED
    BY <1>2, <1>3, QuietStep

(* The bridge's own steps. *)
LEMMA NotStartedStep == ASSUME IInv, NotStarted PROVE IInv'
  <1>1. PICK v \in BOOLEAN : bridge' = [bridge EXCEPT !.pc = "returned", !.aborted = TRUE,
                                    !.failure = ~v /\ ~bridge.aborted]
    BY DEF NotStarted
  <1> DEFINE p == "returned"
             a == TRUE
             f == ~v /\ ~bridge.aborted
             e == [bridge EXCEPT !.pc = p, !.aborted = a, !.failure = f]
  <1>2. /\ p \in Pcs /\ a \in BOOLEAN /\ f \in BOOLEAN /\ bridge' = e
    BY <1>1 DEF Pcs
  <1>3. bridge \in Bridge
    BY TypesOf
  <1> HIDE DEF p, a, f
  <1>4. /\ e \in Bridge /\ e.pc = p /\ e.aborted = a /\ e.endRequested = bridge.endRequested
        /\ e.pump = bridge.pump
    BY <1>2, <1>3, BridgeIs
  <1> HIDE DEF e
  <1>5. Same(bridge, bridge') /\ bridge'.pc = "returned" /\ bridge'.aborted
    BY <1>2, <1>4 DEF Same, p, a
  <1>6. child' = child /\ child.mode = "none"
    BY DEF NotStarted, IInv, BridgeOK
  <1>7. BridgeOK'
    BY <1>5, <1>6 DEF BridgeOK
  <1> QED
    BY <1>5, <1>6, <1>7, TypesOf, QuietStep DEF NotStarted, history, Counts

LEMMA BecomeReadyStep == ASSUME IInv, BecomeReady PROVE IInv'
  <1> DEFINE p == "race"
             a == TRUE
             e == [bridge EXCEPT !.pc = p, !.ready = a]
  <1>1. bridge' = e /\ p \in Pcs /\ a \in BOOLEAN /\ child' = child
    BY DEF BecomeReady, Pcs
  <1>2. bridge \in Bridge
    BY TypesOf
  <1> HIDE DEF p, a
  <1>3. /\ e \in Bridge /\ e.pc = p /\ e.aborted = bridge.aborted
        /\ e.endRequested = bridge.endRequested /\ e.pump = bridge.pump
    BY <1>1, <1>2, BridgeIs
  <1> HIDE DEF e
  <1>4. Same(bridge, bridge') /\ bridge'.pc = "race" /\ bridge'.aborted = bridge.aborted
    BY <1>1, <1>3 DEF Same, p
  <1>5. BridgeOK'
    BY <1>1, <1>4 DEF BridgeOK, BecomeReady, IInv
  <1> QED
    BY <1>1, <1>4, <1>5, TypesOf, QuietStep DEF BecomeReady, history, Counts

LEMMA FinallyStep ==
    ASSUME IInv, NEW b \in Bridge, Same(bridge, b), b.aborted = bridge.aborted,
           bridge.pc \in {"awaitReady", "race"}, Finally(b), UNCHANGED <<history, outPipe>>
    PROVE  IInv'
  <1> DEFINE p == "leave"
             a == TRUE
             e == [b EXCEPT !.pc = p, !.aborted = a]
             c == IF b.aborted THEN child ELSE Terminate(child)
  <1>1. bridge' = e /\ p \in Pcs /\ a \in BOOLEAN
    BY DEF Finally, Pcs
  <1>2. child' = IF b.graceful THEN c ELSE Terminate(c)
    BY DEF Finally
  <1> HIDE DEF p, a
  <1>3. /\ e \in Bridge /\ e.pc = p /\ e.aborted = a
        /\ e.endRequested = b.endRequested /\ e.pump = b.pump
    BY <1>1, BridgeIs
  <1> HIDE DEF e
  <1>4. Same(bridge, bridge') /\ bridge'.pc = "leave" /\ bridge'.aborted
    BY <1>1, <1>3 DEF Same, p, a
  <1>5. /\ c \in Child /\ Kept(child, c)
        /\ c.stopped \/ c.mode \in {"none", "closed"}
    <2>1. CASE b.aborted
      BY <2>1, TypesOf DEF IInv, BridgeOK
    <2>2. CASE ~b.aborted
      BY <2>2, TypesOf, TerminateKeeps
    <2> QED
      BY <2>1, <2>2
  <1> HIDE DEF c
  <1>6. /\ child' \in Child /\ Kept(child, child')
        /\ child'.stopped \/ child'.mode \in {"none", "closed"}
    BY <1>2, <1>5, TypesOf, TerminateKeeps
  <1>7. child.mode # "none"
    BY DEF IInv, BridgeOK
  <1>8. child'.mode # "none"
    BY <1>6, <1>7 DEF Kept, Ended
  <1>9. BridgeOK'
    BY <1>4, <1>6, <1>8 DEF BridgeOK
  <1> QED
    BY <1>4, <1>6, <1>9, TypesOf, QuietStep DEF history, Counts

LEMMA NotReadyStep == ASSUME IInv, NotReady PROVE IInv'
  <1> DEFINE f == bridge.failure \/ ~bridge.aborted
             b == [bridge EXCEPT !.failure = f]
  <1>1. Finally(b) /\ bridge.pc = "awaitReady" /\ UNCHANGED <<history, outPipe>>
    BY DEF NotReady
  <1>2. bridge \in Bridge
    BY TypesOf
  <1>3. f \in BOOLEAN
    BY <1>2, BridgeIs
  <1> HIDE DEF f
  <1>4. /\ b \in Bridge /\ b.aborted = bridge.aborted
        /\ b.endRequested = bridge.endRequested /\ b.pump = bridge.pump
    BY <1>2, <1>3, BridgeIs
  <1> HIDE DEF b
  <1> QED
    BY <1>1, <1>4, FinallyStep DEF Same

LEMMA LeaveStep == ASSUME IInv, Leave PROVE IInv'
  BY TypesOf, FinallyStep DEF Leave

LEMMA ReturnStep == ASSUME IInv, Return PROVE IInv'
  <1> DEFINE p == "returned"
             e == [bridge EXCEPT !.pc = p]
  <1>1. bridge' = e /\ p \in Pcs /\ child' = child /\ bridge.pc = "leave"
    BY DEF Return, Pcs
  <1>2. bridge \in Bridge
    BY TypesOf
  <1> HIDE DEF p
  <1>3. /\ e \in Bridge /\ e.pc = p /\ e.aborted = bridge.aborted
        /\ e.endRequested = bridge.endRequested /\ e.pump = bridge.pump
    BY <1>1, <1>2, BridgeIs
  <1> HIDE DEF e
  <1>4. Same(bridge, bridge') /\ bridge'.pc = "returned" /\ bridge'.aborted = bridge.aborted
    BY <1>1, <1>3 DEF Same, p
  <1>5. child.mode = "closed"
    BY DEF Return, MayReturn, IInv, ChildOK
  <1>6. BridgeOK'
    BY <1>1, <1>4, <1>5 DEF BridgeOK, IInv
  <1> QED
    BY <1>1, <1>4, <1>6, TypesOf, QuietStep DEF Return, history, Counts

LEMMA NoticeExitStep == ASSUME IInv, NoticeExit PROVE IInv'
  <1> DEFINE a == TRUE
             e == [bridge EXCEPT !.noticed = a]
  <1>1. /\ UNCHANGED <<history, outPipe>>
        /\ (bridge.aborted /\ bridge' = e /\ child' = child) \/ Fail(e, child)
    BY DEF NoticeExit
  <1>2. bridge \in Bridge /\ a \in BOOLEAN
    BY TypesOf
  <1> HIDE DEF a
  <1>3. /\ e \in Bridge /\ e.pc = bridge.pc /\ e.aborted = bridge.aborted
        /\ e.endRequested = bridge.endRequested /\ e.pump = bridge.pump
    BY <1>2, BridgeIs
  <1> HIDE DEF e
  <1>4. Same(bridge, e)
    BY <1>3 DEF Same
  <1>5. CASE Fail(e, child)
    BY <1>1, <1>3, <1>4, <1>5, TypesOf, AbortStep DEF history, Counts
  <1>6. CASE bridge' = e /\ child' = child
    <2>1. BridgeOK'
      BY <1>3, <1>6, SamePlace DEF Kept
    <2> QED
      BY <1>1, <1>4, <1>6, <2>1, TypesOf, QuietStep DEF history, Counts
  <1> QED
    BY <1>1, <1>5, <1>6

(* The client's socket and the session's signal. *)
LEMMA SocketSteps ==
    ASSUME IInv, SocketClosing \/ SocketClose \/ ParentAbort
    PROVE  IInv'
  <1>1. /\ UNCHANGED Counts /\ sent' = sent
        /\ socket' \in {"open", "closing", "closed"} /\ parent' \in BOOLEAN
        /\ Abort(bridge, child) \/ UNCHANGED <<bridge, child>>
    BY TypesOf DEF SocketClosing, SocketClose, ParentAbort, Counts
  <1>2. CASE Abort(bridge, child)
    BY <1>1, <1>2, TypesOf, AbortStep
  <1>3. CASE UNCHANGED <<bridge, child>>
    <2>1. BridgeOK'
      BY <1>3 DEF IInv, BridgeOK
    <2> QED
      BY <1>1, <1>3, <2>1, TypesOf, QuietStep
  <1> QED
    BY <1>1, <1>2, <1>3

(* The deadlines and the errors of the pipes. *)
LEMMA TerminateSteps ==
    ASSUME IInv, StreamFails \/ StartupDeadline \/ LifetimeDeadline
    PROVE  IInv'
  <1>1. child' = Terminate(child) /\ bridge' = bridge /\ UNCHANGED <<history, outPipe>>
    BY DEF StreamFails, StartupDeadline, LifetimeDeadline
  <1>2. /\ child' \in Child /\ Kept(child, child')
        /\ child'.stopped \/ child'.mode \in {"none", "closed"}
    BY <1>1, TypesOf, TerminateKeeps
  <1>3. BridgeOK'
    BY <1>1, <1>2, SamePlace
  <1> QED
    BY <1>1, <1>2, <1>3, TypesOf, QuietStep DEF history, Counts
----------------------------------------------------------------------------
(* pump() *)

LEMMA PumpIs ==
    ASSUME IInv, NEW p \in Pumps
    PROVE  /\ [bridge EXCEPT !.pump = p] \in Bridge
           /\ [bridge EXCEPT !.pump = p].pump = p
           /\ [bridge EXCEPT !.pump = p].pc = bridge.pc
           /\ [bridge EXCEPT !.pump = p].aborted = bridge.aborted
           /\ [bridge EXCEPT !.pump = p].endRequested = bridge.endRequested
  BY TypesOf, BridgeIs

(* An acknowledgement finds its process closed. *)
LEMMA AckedIsClosed ==
    ASSUME IInv, Acked
    PROVE  /\ child.mode = "closed" /\ child.proc = "exited"
           /\ bridge.pump \in {"idle", "acking"} /\ bridge.endRequested
  BY DEF IInv, ChildOK, AckOK, Acked

LEMMA NoAck ==
    ASSUME ~Acked'
    PROVE  AckOK'
  BY DEF Acked, AckOK

LEMMA Lengths ==
    ASSUME IInv
    PROVE  /\ Len(written) \in Nat /\ Len(accepted) \in Nat /\ Len(outPipe) \in Nat
           /\ Len(forwarded) \in Nat /\ emitted \in Nat
           /\ written \in Seq(0 .. MaxMessages) /\ accepted \in Seq(0 .. MaxMessages)
           /\ outPipe \in Seq(Frames) /\ forwarded \in Seq({"reply", "forged", "completed"})
  BY DEF IInv, TypeOK

(* pump() is done with its message, or aborts. *)
LEMMA PumpFails ==
    ASSUME IInv, PumpWriteFails \/ PumpIncomplete \/ AckFails
    PROVE  IInv'
  <1> DEFINE p == "idle"
             b == [bridge EXCEPT !.pump = p]
             c == IF child.mode = "acknowledged" THEN child ELSE Terminate(child)
  <1>1. UNCHANGED <<history, outPipe>> /\ (Fail(b, c) \/ Fail(b, child))
    BY DEF PumpWriteFails, PumpIncomplete, AckFails
  <1>2. /\ b \in Bridge /\ b.pump = p /\ b.pc = bridge.pc /\ b.aborted = bridge.aborted
        /\ b.endRequested = bridge.endRequested
    BY PumpIs DEF Pumps
  <1> HIDE DEF b
  <1>3. Same(bridge, b)
    BY <1>2 DEF Same
  <1>4. c \in Child /\ Kept(child, c)
    BY TypesOf, TerminateKeeps
  <1> HIDE DEF c, p
  <1> QED
    BY <1>1, <1>2, <1>3, <1>4, TypesOf, AbortStep DEF history, Counts

LEMMA AckSettlesStep == ASSUME IInv, AckSettles PROVE IInv'
  <1> DEFINE p == "idle"
             g == ~bridge.aborted
             b == [bridge EXCEPT !.pump = p, !.graceful = g]
  <1>1. bridge' = b /\ child' = child /\ UNCHANGED <<history, outPipe>>
    BY DEF AckSettles
  <1>2. p \in Pumps /\ g \in BOOLEAN /\ bridge \in Bridge
    BY TypesOf DEF Pumps
  <1> HIDE DEF p, g
  <1>3. /\ b \in Bridge /\ b.pump = p /\ b.pc = bridge.pc /\ b.aborted = bridge.aborted
        /\ b.endRequested = bridge.endRequested
    BY <1>2, BridgeIs
  <1> HIDE DEF b
  <1>4. Same(bridge, bridge')
    BY <1>1, <1>3 DEF Same, p
  <1>5. BridgeOK'
    BY <1>1, <1>3, SamePlace DEF Kept
  <1> QED
    BY <1>1, <1>4, <1>5, TypesOf, QuietStep DEF history, Counts

LEMMA PumpTakesStep == ASSUME IInv, PumpTakes PROVE IInv'
  <1>0. /\ bridge.pump = "idle" /\ ~bridge.aborted /\ Queue # <<>>
        /\ UNCHANGED <<history, outPipe>>
    BY DEF PumpTakes
  <1>1. CASE child.mode # "running"
    BY <1>0, <1>1, TypesOf, AbortStep DEF PumpTakes, history, Counts
  <1>2. CASE child.mode = "running"
    <2> DEFINE end == Head(Queue) = END
               p == IF end THEN "ending" ELSE "writing"
               m == IF end THEN "ending" ELSE child.mode
               d == [child EXCEPT !.mode = m]
    <2>1. bridge' = [bridge EXCEPT !.pump = p] /\ child' = d
      BY <1>2 DEF PumpTakes
    <2>2. p \in Pumps /\ m \in Modes /\ p \in {"ending", "writing"}
                /\ m \in {"running", "ending"}
      BY <1>2 DEF Pumps, Modes
    <2>3. InHand = 0 /\ Len(written) < Len(accepted)
      <3>1. InHand = 0
        BY <1>0 DEF InHand
      <3>2. Queue = SubSeq(accepted, Len(written) + 1, Len(accepted))
        BY <3>1, Lengths DEF Queue
      <3>3. Len(Queue) # 0
        BY <1>0, <3>2, Lengths
      <3> QED
        BY <3>1, <3>2, <3>3, Lengths
    <2>4. p = "ending" => accepted[Len(written) + 1] = END
      <3>1. Queue = SubSeq(accepted, Len(written) + 1, Len(accepted))
        BY <2>3, Lengths DEF Queue
      <3>2. Head(Queue) = accepted[Len(written) + 1]
        BY <2>3, <3>1, Lengths
      <3> QED
        BY <3>2
    <2> HIDE DEF p, m, end
    <2>5. /\ bridge' \in Bridge /\ bridge'.pump = p /\ bridge'.pc = bridge.pc
          /\ bridge'.aborted = bridge.aborted
          /\ bridge'.endRequested = bridge.endRequested
      BY <2>1, <2>2, PumpIs
    <2>6. /\ d \in Child /\ d.mode = m /\ d.stopped = child.stopped /\ d.endAck = child.endAck
          /\ d.done = child.done /\ d.proc = child.proc /\ d.code = child.code
          /\ d.truncated = child.truncated
      BY <2>2, TypesOf, ChildIs
    <2> HIDE DEF d
    <2>7. TypeOK'
      BY <1>0, <2>1, <2>5, <2>6 DEF IInv, TypeOK, history
    <2>8. ~Acked /\ ~Acked'
      BY <1>0, <1>2, AckedIsClosed DEF Acked, history
    <2>9. ChildOK'
      BY <1>0, <1>2, <2>1, <2>2, <2>6 DEF IInv, ChildOK, history
    <2>10. BridgeOK'
      BY <1>2, <2>1, <2>2, <2>5, <2>6 DEF IInv, BridgeOK
    <2>11. CountOK'
      BY <1>0, <1>2, <2>1, <2>2, <2>6, <2>8 DEF IInv, CountOK, history
    <2>12. WrittenOK'
      <3>1. InHand' = 1
        BY <2>2, <2>5 DEF InHand
      <3>2. /\ \A i \in 1 .. Len(written) : written[i] = accepted[i]
            /\ \A i \in 1 .. Len(accepted) : accepted[i] = END =>
                    i = Len(accepted) /\ bridge.endRequested
        BY DEF IInv, WrittenOK
      <3>3. Len(written) + 1 <= Len(accepted)
        BY <2>3, Lengths
      <3> QED
        BY <1>0, <2>2, <2>4, <2>5, <3>1, <3>2, <3>3 DEF WrittenOK, history
    <2> QED
      BY <2>7, <2>8, <2>9, <2>10, <2>11, <2>12, NoAck DEF IInv
  <1> QED
    BY <1>1, <1>2

LEMMA PumpWroteStep == ASSUME IInv, PumpWrote PROVE IInv'
  <1> DEFINE n == Len(written)
             v == accepted[n + 1]
             p == IF bridge.pump = "ending" THEN "awaitDone" ELSE "idle"
             k == child.inPipe + 1
             i == IF bridge.pump = "ending" THEN "ended" ELSE child.stdin
             d == [child EXCEPT !.inPipe = k, !.stdin = i]
  <1>0. /\ bridge.pump \in {"writing", "ending"} /\ child.inPipe < PipeRoom
        /\ written' = Append(written, v)
        /\ bridge' = [bridge EXCEPT !.pump = p] /\ child' = d
        /\ UNCHANGED <<explicit, socket, parent, sent, accepted, emitted, outPipe, forwarded>>
    BY DEF PumpWrote
  <1>1. p \in Pumps /\ p \in {"idle", "awaitDone"} /\ (p = "awaitDone" => bridge.pump = "ending")
    BY DEF Pumps
  <1>2. k \in 0 .. PipeRoom /\ i \in Inputs
    <2>1. child.inPipe \in 0 .. PipeRoom /\ child.stdin \in Inputs
      BY TypesOf, ChildIs
    <2> QED
      BY <1>0, <2>1, BoundsAssumption DEF Inputs
  <1> HIDE DEF p, k, i
  <1>3. /\ bridge' \in Bridge /\ bridge'.pump = p /\ bridge'.pc = bridge.pc
        /\ bridge'.aborted = bridge.aborted
        /\ bridge'.endRequested = bridge.endRequested
    BY <1>0, <1>1, PumpIs
  <1>4. /\ d \in Child /\ d.mode = child.mode /\ d.stopped = child.stopped
        /\ d.endAck = child.endAck /\ d.done = child.done /\ d.proc = child.proc
        /\ d.code = child.code /\ d.truncated = child.truncated
    BY <1>2, TypesOf, ChildIs
  <1> HIDE DEF d
  <1>5. n \in Nat /\ n + 1 <= Len(accepted) /\ v \in 0 .. MaxMessages
    <2>1. InHand = 1
      BY <1>0 DEF InHand
    <2>2. n \in Nat /\ n + 1 <= Len(accepted)
      BY <2>1, Lengths DEF IInv, WrittenOK
    <2>3. n + 1 \in 1 .. Len(accepted)
      BY <2>2, Lengths
    <2>4. v \in 0 .. MaxMessages
      BY <2>3, Lengths, ElementOfSeq
    <2> QED
      BY <2>2, <2>4
  <1>6. bridge.pump = "ending" => v = END
    BY DEF IInv, WrittenOK
  <1> HIDE DEF v
  <1>7. /\ written' \in Seq(0 .. MaxMessages) /\ Len(written') = n + 1
        /\ written'[n + 1] = v /\ \A j \in 1 .. n : written'[j] = written[j]
    BY <1>0, <1>5, Lengths
  <1>8. TypeOK'
    BY <1>0, <1>3, <1>4, <1>7 DEF IInv, TypeOK
  <1>9. ~Acked /\ ~Acked'
    BY <1>0, AckedIsClosed DEF Acked
  <1>10. ChildOK'
    BY <1>0, <1>4 DEF IInv, ChildOK, Completed
  <1>11. BridgeOK'
    BY <1>0, <1>3, <1>4 DEF IInv, BridgeOK
  <1>12. CountOK'
    BY <1>0, <1>4, <1>9 DEF IInv, CountOK
  <1>13. WrittenOK'
    <2>1. InHand' = 0
      BY <1>1, <1>3 DEF InHand
    <2>2. Len(written') + InHand' <= Len(accepted')
      BY <1>0, <1>5, <1>7, <2>1
    <2>3. \A j \in 1 .. Len(written') : written'[j] = accepted'[j]
      <3>1. \A j \in 1 .. n : written[j] = accepted[j]
        BY DEF IInv, WrittenOK
      <3> QED
        BY <1>0, <1>5, <1>7, <3>1 DEF v
    <2>4. \A j \in 1 .. Len(accepted') : accepted'[j] = END =>
                    j = Len(accepted') /\ bridge'.endRequested
      BY <1>0, <1>3 DEF IInv, WrittenOK
    <2>5. bridge'.pump \in {"awaitDone", "acking"} =>
                written' # <<>> /\ written'[Len(written')] = END
      BY <1>1, <1>3, <1>5, <1>6, <1>7
    <2>6. bridge'.pump # "ending"
      BY <1>1, <1>3
    <2> QED
      BY <2>2, <2>3, <2>4, <2>5, <2>6 DEF WrittenOK
  <1> QED
    BY <1>8, <1>9, <1>10, <1>11, <1>12, <1>13, NoAck DEF IInv
(* The completion is acknowledged to the client, or not. *)
LEMMA PumpCompletesStep == ASSUME IInv, PumpCompletes PROVE IInv'
  <1> DEFINE p == "idle"
             b == [bridge EXCEPT !.pump = p]
  <1>0. /\ bridge.pump = "awaitDone" /\ child.done = "resolved"
        /\ UNCHANGED <<explicit, socket, parent, sent, accepted, written, emitted, outPipe>>
    BY DEF PumpCompletes
  <1>1. /\ b \in Bridge /\ b.pump = p /\ b.pc = bridge.pc /\ b.aborted = bridge.aborted
        /\ b.endRequested = bridge.endRequested
    BY PumpIs DEF Pumps
  <1>2. Same(bridge, b)
    BY <1>1 DEF Same
  <1>3. CASE bridge.aborted
    <2>1. bridge' = b /\ child' = child /\ forwarded' = forwarded
      BY <1>3 DEF PumpCompletes
    <2> HIDE DEF b
    <2>2. BridgeOK'
      BY <1>1, <2>1, SamePlace DEF Kept
    <2> QED
      BY <1>0, <1>2, <2>1, <2>2, TypesOf, QuietStep DEF Counts
  <1>4. CASE ~bridge.aborted /\ socket # "open"
    <2>1. Fail(b, child) /\ forwarded' = forwarded
      BY <1>4 DEF PumpCompletes
    <2> HIDE DEF b
    <2> QED
      BY <1>0, <1>1, <1>2, <2>1, TypesOf, AbortStep DEF Counts
  <1>5. CASE ~bridge.aborted /\ socket = "open"
    <2> DEFINE a == "acking"
    <2>1. /\ bridge' = [bridge EXCEPT !.pump = a] /\ child' = child
          /\ forwarded' = Append(forwarded, "completed")
      BY <1>5 DEF PumpCompletes
    <2>2. a \in Pumps /\ a = "acking"
      BY DEF Pumps
    <2> HIDE DEF a, b
    <2>3. /\ bridge' \in Bridge /\ bridge'.pump = a /\ bridge'.pc = bridge.pc
          /\ bridge'.aborted = bridge.aborted
          /\ bridge'.endRequested = bridge.endRequested
      BY <2>1, <2>2, PumpIs
    <2>4. /\ child.mode = "closed" /\ outPipe = <<>> /\ ~child.stopped /\ child.endAck
          /\ child.code = 0
      BY <1>0 DEF IInv, ChildOK, Completed
    <2>5. ~Acked
      BY <1>0, AckedIsClosed
    <2>6. emitted = 2 + Len(forwarded)
      BY <2>4, <2>5, Lengths DEF IInv, CountOK
    <2>7. written # <<>> /\ written[Len(written)] = END
      BY <1>0 DEF IInv, WrittenOK
    <2>8. written = accepted /\ bridge.endRequested
      <3>1. /\ Len(written) <= Len(accepted)
            /\ \A i \in 1 .. Len(written) : written[i] = accepted[i]
            /\ \A i \in 1 .. Len(accepted) : accepted[i] = END =>
                    i = Len(accepted) /\ bridge.endRequested
        BY <1>0, Lengths DEF IInv, WrittenOK, InHand
      <3>2. Len(written) \in 1 .. Len(written) /\ Len(written) \in 1 .. Len(accepted)
        BY <2>7, <3>1, Lengths
      <3>3. Len(written) = Len(accepted) /\ bridge.endRequested
        BY <2>7, <3>1, <3>2
      <3> QED
        BY <3>1, <3>3, Lengths, SeqEqual
    <2>9. /\ forwarded' \in Seq({"reply", "forged", "completed"})
          /\ Len(forwarded') = Len(forwarded) + 1
          /\ DOMAIN forwarded' = 1 .. Len(forwarded) + 1
          /\ forwarded'[Len(forwarded) + 1] = "completed"
          /\ \A i \in 1 .. Len(forwarded) : forwarded'[i] = forwarded[i]
      BY <2>1, Lengths
    <2>10. Acked'
      <3>1. Len(forwarded) + 1 \in DOMAIN forwarded'
        BY <2>9, Lengths
      <3> QED
        BY <2>9, <3>1 DEF Acked
    <2>11. TypeOK'
      BY <1>0, <2>1, <2>3, <2>9 DEF IInv, TypeOK
    <2>12. ChildOK' /\ BridgeOK'
      BY <1>0, <2>1, <2>3 DEF IInv, ChildOK, BridgeOK, Completed
    <2>13. CountOK'
      BY <2>10 DEF CountOK
    <2>14. WrittenOK'
      <3>1. InHand' = 0 /\ InHand = 0
        BY <1>0, <2>2, <2>3 DEF InHand
      <3> QED
        BY <1>0, <2>2, <2>3, <2>7, <3>1 DEF IInv, WrittenOK
    <2>15. AckOK'
      <3> SUFFICES ASSUME NEW i \in DOMAIN forwarded', forwarded'[i] = "completed"
                   PROVE  i = Len(forwarded) + 1
        BY <1>0, <2>1, <2>2, <2>3, <2>4, <2>6, <2>7, <2>8, <2>9, Lengths DEF AckOK
      <3>1. i \in 1 .. Len(forwarded) => forwarded[i] = "completed" /\ i \in DOMAIN forwarded
        BY <2>9, Lengths
      <3> QED
        BY <2>5, <2>9, <3>1, Lengths DEF Acked
    <2> QED
      BY <2>11, <2>12, <2>13, <2>14, <2>15 DEF IInv
  <1> QED
    BY <1>3, <1>4, <1>5

----------------------------------------------------------------------------
(* The client's messages *)

LEMMA OnMessageStep ==
    ASSUME IInv, NEW end \in BOOLEAN, NEW refused \in BOOLEAN, OnMessage(end, refused)
    PROVE  IInv'
  <1>0. /\ socket = "open" /\ sent < MaxMessages /\ sent' = sent + 1
        /\ UNCHANGED <<explicit, socket, parent, written, emitted, outPipe, forwarded>>
    BY DEF OnMessage
  <1>1. sent' \in 0 .. MaxMessages /\ sent + 1 \in 0 .. MaxMessages /\ sent + 1 # 0
    BY <1>0, TypesOf, BoundsAssumption
  <1>2. CASE bridge.endRequested \/ refused
    BY <1>0, <1>1, <1>2, TypesOf, AbortStep DEF OnMessage, Counts
  <1>3. CASE ~(bridge.endRequested \/ refused)
    <2> DEFINE e == end /\ explicit
               v == IF e THEN END ELSE sent + 1
               n == Len(accepted)
               b == [bridge EXCEPT !.endRequested = e]
    <2>1. accepted' = Append(accepted, v) /\ bridge' = b /\ child' = child
      BY <1>3 DEF OnMessage
    <2>2. e \in BOOLEAN /\ v \in 0 .. MaxMessages /\ (v = END => e)
      BY <1>1, BoundsAssumption DEF END, IInv, TypeOK
    <2>3. bridge \in Bridge
      BY TypesOf
    <2> HIDE DEF e, v
    <2>4. /\ b \in Bridge /\ b.pump = bridge.pump /\ b.pc = bridge.pc
          /\ b.aborted = bridge.aborted /\ b.endRequested = e
      BY <2>2, <2>3, BridgeIs
    <2> HIDE DEF b
    <2>5. /\ accepted' \in Seq(0 .. MaxMessages) /\ Len(accepted') = n + 1 /\ n \in Nat
          /\ accepted'[n + 1] = v /\ \A j \in 1 .. n : accepted'[j] = accepted[j]
      BY <2>1, <2>2, Lengths
    <2>6. ~Acked /\ ~Acked'
      BY <1>0, <1>3, AckedIsClosed DEF Acked
    <2>7. TypeOK'
      BY <1>0, <1>1, <2>1, <2>4, <2>5 DEF IInv, TypeOK
    <2>8. ChildOK' /\ BridgeOK'
      BY <1>0, <2>1, <2>4 DEF IInv, ChildOK, BridgeOK, Completed
    <2>9. CountOK'
      BY <1>0, <2>1, <2>6 DEF IInv, CountOK
    <2>10. WrittenOK'
      <3>1. InHand' = InHand /\ InHand \in {0, 1}
        BY <2>1, <2>4 DEF InHand
      <3>2. Len(written) + InHand <= n /\ Len(written) \in Nat
        BY Lengths DEF IInv, WrittenOK
      <3>3. \A j \in 1 .. n : accepted[j] # END
        BY <1>3 DEF IInv, WrittenOK
      <3>4. Len(written') + InHand' <= Len(accepted')
        BY <1>0, <2>5, <3>1, <3>2
      <3>5. \A j \in 1 .. Len(written') : written'[j] = accepted'[j]
        BY <1>0, <2>5, <3>1, <3>2 DEF IInv, WrittenOK
      <3>6. \A j \in 1 .. Len(accepted') : accepted'[j] = END =>
                    j = Len(accepted') /\ bridge'.endRequested
        <4> SUFFICES ASSUME NEW j \in 1 .. n + 1, accepted'[j] = END
                     PROVE  j = n + 1 /\ e
          BY <2>1, <2>4, <2>5
        <4>1. j \notin 1 .. n
          BY <2>5, <3>3
        <4>2. j = n + 1
          BY <2>5, <4>1
        <4> QED
          BY <2>2, <2>5, <4>2
      <3>7. bridge'.pump # "ending"
        <4>1. ASSUME bridge.pump = "ending" PROVE FALSE
          <5>1. InHand = 1 /\ accepted[Len(written) + 1] = END
            BY <4>1 DEF InHand, IInv, WrittenOK
          <5> QED
            BY <2>5, <3>2, <3>3, <5>1
        <4> QED
          BY <2>1, <2>4, <4>1
      <3>8. bridge'.pump \in {"awaitDone", "acking"} =>
                written' # <<>> /\ written'[Len(written')] = END
        BY <1>0, <2>1, <2>4 DEF IInv, WrittenOK
      <3> QED
        BY <3>4, <3>5, <3>6, <3>7, <3>8 DEF WrittenOK
    <2> QED
      BY <2>6, <2>7, <2>8, <2>9, <2>10, NoAck DEF IInv
  <1> QED
    BY <1>2, <1>3

----------------------------------------------------------------------------
(* The process goes on without its supervisor noticing *)

LEMMA ProcessStep ==
    ASSUME IInv, child' \in Child, child'.mode = child.mode, child'.stopped = child.stopped,
           child'.endAck = child.endAck, child'.done = child.done,
           \/ /\ child'.proc = child.proc /\ child'.code = child.code
              /\ child'.truncated = child.truncated
           \/ child.proc = "running" /\ child'.proc = "exited",
           UNCHANGED <<bridge, history, outPipe>>
    PROVE  IInv'
  <1>1. TypeOK'
    BY DEF IInv, TypeOK, history
  <1>2. ChildOK'
    <2>1. CASE child.proc = "running" /\ child'.proc = "exited"
      BY <2>1 DEF IInv, ChildOK
    <2>2. CASE /\ child'.proc = child.proc /\ child'.code = child.code
               /\ child'.truncated = child.truncated
      BY <2>2 DEF IInv, ChildOK, Completed
    <2> QED
      BY <2>1, <2>2
  <1>3. BridgeOK'
    BY DEF IInv, BridgeOK
  <1>4. CountOK'
    BY DEF IInv, CountOK, Acked, history
  <1>5. WrittenOK'
    BY DEF IInv, WrittenOK, InHand, history
  <1>6. AckOK'
    <2>1. CASE child.proc = "running" /\ child'.proc = "exited"
      <3>1. ~Acked'
        BY <2>1, AckedIsClosed DEF Acked, history
      <3> QED
        BY <3>1, NoAck
    <2>2. CASE /\ child'.proc = child.proc /\ child'.code = child.code
               /\ child'.truncated = child.truncated
      BY <2>2 DEF IInv, AckOK, history
    <2> QED
      BY <2>1, <2>2
  <1> QED
    BY <1>1, <1>2, <1>3, <1>4, <1>5, <1>6 DEF IInv

LEMMA ProcessSteps ==
    ASSUME IInv, \/ KillTimer \/ ChildReads \/ Killed
                 \/ \E code \in {0, 1}, truncated \in BOOLEAN : ChildExits(code, truncated)
    PROVE  IInv'
  <1>0. child \in Child
    BY TypesOf
  <1>1. CASE KillTimer
    <2> DEFINE g == "KILL"
               d == [child EXCEPT !.signal = g]
    <2>1. child' = d /\ UNCHANGED <<bridge, history, outPipe>> /\ g \in Signals
      BY <1>1 DEF KillTimer, Signals
    <2> HIDE DEF g
    <2>2. /\ d \in Child /\ d.mode = child.mode /\ d.stopped = child.stopped
          /\ d.endAck = child.endAck /\ d.done = child.done /\ d.proc = child.proc
          /\ d.code = child.code /\ d.truncated = child.truncated
      BY <1>0, <2>1, ChildIs
    <2> HIDE DEF d
    <2> QED
      BY <2>1, <2>2, ProcessStep
  <1>2. CASE ChildReads
    <2> DEFINE k == child.inPipe - 1
               d == [child EXCEPT !.inPipe = k]
    <2>1. child' = d /\ UNCHANGED <<bridge, history, outPipe>> /\ child.inPipe > 0
      BY <1>2 DEF ChildReads
    <2>2. k \in 0 .. PipeRoom
      <3>1. child.inPipe \in 0 .. PipeRoom
        BY <1>0, ChildIs
      <3> QED
        BY <2>1, <3>1, BoundsAssumption
    <2> HIDE DEF k
    <2>3. /\ d \in Child /\ d.mode = child.mode /\ d.stopped = child.stopped
          /\ d.endAck = child.endAck /\ d.done = child.done /\ d.proc = child.proc
          /\ d.code = child.code /\ d.truncated = child.truncated
      BY <1>0, <2>2, ChildIs
    <2> HIDE DEF d
    <2> QED
      BY <2>1, <2>3, ProcessStep
  <1>3. ASSUME NEW code \in {0, 1}, NEW truncated \in BOOLEAN, ChildExits(code, truncated)
        PROVE  IInv'
    <2> DEFINE x == "exited"
               d == [child EXCEPT !.proc = x, !.code = code, !.truncated = truncated]
    <2>1. /\ child' = d /\ UNCHANGED <<bridge, history, outPipe>>
          /\ child.proc = "running" /\ x \in Procs /\ x = "exited"
      BY <1>3 DEF ChildExits, Procs
    <2> HIDE DEF x
    <2>2. /\ d \in Child /\ d.mode = child.mode /\ d.stopped = child.stopped
          /\ d.endAck = child.endAck /\ d.done = child.done /\ d.proc = x
      BY <1>0, <2>1, ChildIs
    <2> HIDE DEF d
    <2> QED
      BY <2>1, <2>2, ProcessStep
  <1>4. CASE Killed
    <2> DEFINE x == "exited"
               o == 1
               d == [child EXCEPT !.proc = x, !.code = o]
    <2>1. /\ child' = d /\ UNCHANGED <<bridge, history, outPipe>>
          /\ child.proc = "running" /\ x \in Procs /\ x = "exited" /\ o \in {0, 1}
      BY <1>4 DEF Killed, Procs
    <2> HIDE DEF x, o
    <2>2. /\ d \in Child /\ d.mode = child.mode /\ d.stopped = child.stopped
          /\ d.endAck = child.endAck /\ d.done = child.done /\ d.proc = x
      BY <1>0, <2>1, ChildIs
    <2> HIDE DEF d
    <2> QED
      BY <2>1, <2>2, ProcessStep
  <1> QED
    BY <1>1, <1>2, <1>3, <1>4
LEMMA ChildWritesStep ==
    ASSUME IInv, NEW frame \in Frames, ChildWrites(frame)
    PROVE  IInv'
  <1>0. /\ child.proc = "running" /\ emitted < MaxFrames /\ outPipe' = Append(outPipe, frame)
        /\ emitted' = emitted + 1
        /\ UNCHANGED <<bridge, child, explicit, socket, parent, sent, accepted, written,
                       forwarded>>
    BY DEF ChildWrites
  <1>1. /\ outPipe' \in Seq(Frames) /\ Len(outPipe') = Len(outPipe) + 1
        /\ emitted' \in 0 .. MaxFrames
    BY <1>0, Lengths, BoundsAssumption
  <1>2. child.mode \notin {"none", "closed"} /\ ~Acked /\ ~Acked'
    BY <1>0, AckedIsClosed DEF IInv, ChildOK, Acked
  <1>3. TypeOK'
    BY <1>0, <1>1 DEF IInv, TypeOK
  <1>4. ChildOK' /\ BridgeOK'
    BY <1>0, <1>2 DEF IInv, ChildOK, BridgeOK, Completed
  <1>5. CountOK'
    <2>1. /\ child.mode = "starting" /\ ~child.stopped =>
                emitted = Len(outPipe) /\ forwarded = <<>>
          /\ child.mode \in {"running", "ending"} /\ ~child.stopped =>
                emitted = Len(outPipe) + 1 + Len(forwarded)
          /\ child.mode = "acknowledged" /\ child.endAck /\ ~child.stopped =>
                emitted = Len(outPipe) + 2 + Len(forwarded)
      BY <1>2 DEF IInv, CountOK
    <2> QED
      BY <1>0, <1>1, <1>2, <2>1, Lengths DEF CountOK
  <1>6. WrittenOK'
    BY <1>0 DEF IInv, WrittenOK, InHand
  <1> QED
    BY <1>2, <1>3, <1>4, <1>5, <1>6, NoAck DEF IInv

----------------------------------------------------------------------------
(* The process is started *)

LEMMA NoChildIs ==
    /\ NoChild \in Child /\ ~NoChild.stopped /\ ~NoChild.endAck /\ NoChild.done = "pending"
    /\ NoChild.mode = "none" /\ NoChild.proc = "none"
  <1> DEFINE m == "none"
             s == FALSE
             r == "pending"
             o == 0
             i == "open"
  <1>1. NoChild = [mode |-> m, stopped |-> s, endAck |-> s, ready |-> r,
                   done |-> r, proc |-> m, code |-> o, truncated |-> s,
                   signal |-> m, stdin |-> i, inPipe |-> o]
    BY DEF NoChild
  <1>2. /\ m \in Modes /\ s \in BOOLEAN /\ r \in Promises /\ m \in Procs /\ o \in {0, 1}
        /\ m \in Signals /\ i \in Inputs /\ o \in 0 .. PipeRoom
    BY BoundsAssumption DEF Modes, Promises, Procs, Signals, Inputs
  <1> HIDE DEF m, s, r, o, i
  <1>3. /\ NoChild \in Child /\ NoChild.stopped = s /\ NoChild.endAck = s
        /\ NoChild.done = r /\ NoChild.mode = m /\ NoChild.proc = m
    BY <1>1, <1>2, ChildIs
  <1> QED
    BY <1>3 DEF s, r, m

(* Whether it runs or was terminated at once. *)
LEMMA StartSteps == ASSUME IInv, Start \/ SpawnFails PROVE IInv'
  <1> DEFINE p == "awaitReady"
             b == [bridge EXCEPT !.pc = p]
  <1>0. /\ bridge.pc = "verify" /\ ~bridge.aborted /\ bridge' = b /\ p \in Pcs
        /\ UNCHANGED <<history, outPipe>>
    BY DEF Start, SpawnFails, Pcs
  <1>1. bridge \in Bridge
    BY TypesOf
  <1> HIDE DEF p
  <1>2. /\ b \in Bridge /\ b.pc = p /\ b.aborted = bridge.aborted /\ b.pump = bridge.pump
        /\ b.endRequested = bridge.endRequested
    BY <1>0, <1>1, BridgeIs
  <1> HIDE DEF b
  <1>3. /\ child' \in Child /\ ~child'.endAck /\ child'.done = "pending"
        /\ \/ child'.mode = "starting" /\ ~child'.stopped /\ child'.proc = "running"
           \/ child'.mode = "stopping" /\ child'.stopped /\ child'.proc = "exited"
    <2> DEFINE m == "starting"
    <2>1. CASE Start
      <3> DEFINE r == "running"
                 k == 1
                 d == [NoChild EXCEPT !.mode = m, !.proc = r, !.inPipe = k]
      <3>1. child' = d
        BY <2>1 DEF Start
      <3>2. m \in Modes /\ r \in Procs /\ k \in 0 .. PipeRoom
        BY BoundsAssumption DEF Modes, Procs
      <3> HIDE DEF m, r, k
      <3>3. /\ d \in Child /\ d.mode = m /\ d.stopped = NoChild.stopped
            /\ d.endAck = NoChild.endAck /\ d.done = NoChild.done /\ d.proc = r
        BY <3>2, NoChildIs, ChildIs
      <3> HIDE DEF d
      <3> QED
        BY <3>1, <3>3, NoChildIs DEF m, r
    <2>2. CASE SpawnFails
      <3> DEFINE r == "exited"
                 k == 1
                 d == [NoChild EXCEPT !.mode = m, !.proc = r, !.code = k]
      <3>1. child' = Terminate(d)
        BY <2>2 DEF SpawnFails
      <3>2. m \in Modes /\ r \in Procs /\ k \in {0, 1}
        BY DEF Modes, Procs
      <3> HIDE DEF m, r, k
      <3>3. /\ d \in Child /\ d.mode = m /\ d.stopped = NoChild.stopped
            /\ d.endAck = NoChild.endAck /\ d.done = NoChild.done /\ d.proc = r
        BY <3>2, NoChildIs, ChildIs
      <3> HIDE DEF d
      <3>4. ~(d.stopped \/ d.mode \in {"none", "closed"})
        BY <3>3, NoChildIs DEF m
      <3>5. Ended(d, Terminate(d))
        BY <3>3, <3>4, TerminateIs
      <3> QED
        BY <3>1, <3>3, <3>5, NoChildIs DEF Ended, r
    <2> QED
      BY <1>0, <2>1, <2>2
  <1>4. child.mode = "none" /\ outPipe = <<>> /\ ~child.stopped
    BY <1>0 DEF IInv, BridgeOK, ChildOK
  <1>5. ~Acked /\ ~Acked'
    BY <1>0, <1>4, AckedIsClosed DEF Acked, history
  <1>6. emitted = Len(outPipe) /\ forwarded = <<>>
    BY <1>4, <1>5 DEF IInv, CountOK
  <1>7. TypeOK'
    BY <1>0, <1>2, <1>3 DEF IInv, TypeOK, history
  <1>8. ChildOK'
    BY <1>0, <1>3 DEF ChildOK
  <1>9. BridgeOK'
    BY <1>0, <1>2, <1>3 DEF BridgeOK, p
  <1>10. CountOK'
    BY <1>0, <1>3, <1>6 DEF CountOK, history
  <1>11. WrittenOK'
    BY <1>0, <1>2 DEF IInv, WrittenOK, InHand, history
  <1> QED
    BY <1>5, <1>7, <1>8, <1>9, <1>10, <1>11, NoAck DEF IInv

----------------------------------------------------------------------------
(* The supervisor reads what the process has written *)

LEMMA TailIs ==
    ASSUME IInv, outPipe # <<>>, outPipe' = Tail(outPipe)
    PROVE  /\ outPipe' \in Seq(Frames) /\ Len(outPipe') = Len(outPipe) - 1
           /\ Len(outPipe) # 0 /\ Len(outPipe') \in Nat /\ Len(outPipe) = Len(outPipe') + 1
           /\ child.mode \notin {"none", "closed"} /\ ~Acked
  <1>1. child.mode \notin {"none", "closed"}
    BY DEF IInv, ChildOK
  <1>2. ~Acked
    BY <1>1, AckedIsClosed
  <1> QED
    BY <1>1, <1>2, Lengths

(* A frame is read, and nothing was forwarded: the process is terminated, or *)
(* its place has changed.                                                    *)
LEMMA ReadStep ==
    ASSUME IInv, outPipe # <<>>, outPipe' = Tail(outPipe), child' \in Child,
           child'.proc = child.proc, child'.done = child.done,
           child'.stopped => child'.mode = "stopping", child'.mode = "stopping" => child'.stopped,
           child'.mode \notin {"none", "closed"}, CountOK',
           child'.endAck => child'.mode \in {"acknowledged", "stopping"},
           bridge' \in Bridge, bridge'.pc = bridge.pc, bridge'.pump = bridge.pump,
           bridge'.endRequested = bridge.endRequested, bridge.aborted => bridge'.aborted,
           bridge'.aborted => child'.stopped,
           UNCHANGED history
    PROVE  IInv'
  <1>1. /\ outPipe' \in Seq(Frames) /\ child.mode \notin {"none", "closed"}
        /\ ~Acked /\ ~Acked'
    BY TailIs DEF Acked, history
  <1>2. TypeOK'
    BY <1>1 DEF IInv, TypeOK, history
  <1>3. ChildOK'
    BY <1>1 DEF IInv, ChildOK
  <1>4. BridgeOK'
    BY <1>1 DEF IInv, BridgeOK
  <1>5. WrittenOK'
    BY DEF IInv, WrittenOK, InHand, history
  <1> QED
    BY <1>1, <1>2, <1>3, <1>4, <1>5, NoAck DEF IInv

LEMMA DropOutputStep == ASSUME IInv, DropOutput PROVE IInv'
  <1>0. /\ outPipe # <<>> /\ child.stopped /\ outPipe' = Tail(outPipe)
        /\ UNCHANGED <<bridge, child, history>>
    BY DEF DropOutput
  <1>1. child.mode = "stopping" /\ child \in Child /\ bridge \in Bridge
    BY <1>0, TailIs, TypesOf DEF IInv, ChildOK
  <1>2. CountOK'
    BY <1>0 DEF CountOK
  <1> QED
    BY <1>0, <1>1, <1>2, ReadStep

LEMMA ReceiveStep == ASSUME IInv, Receive PROVE IInv'
  <1>0. /\ outPipe # <<>> /\ ~child.stopped /\ outPipe' = Tail(outPipe)
        /\ UNCHANGED <<bridge, history>>
    BY DEF Receive
  <1>1. /\ child \in Child /\ bridge \in Bridge /\ child.mode \notin {"none", "closed"}
        /\ Len(outPipe) = Len(outPipe') + 1 /\ Len(outPipe') \in Nat /\ ~Acked
    BY <1>0, TailIs, TypesOf
  <1>2. ~bridge.aborted
    BY <1>0, <1>1 DEF IInv, BridgeOK
  <1>3. child.mode # "stopping" /\ child.done = "pending"
    <2>1. child.done \in Promises
      BY <1>1, ChildIs
    <2> QED
      BY <1>0, <1>1, <2>1 DEF IInv, ChildOK, Promises
  <1>4. CASE child.mode = "starting" /\ Head(outPipe) = "ready"
    <2> DEFINE m == "running"
               r == "resolved"
               d == [child EXCEPT !.mode = m, !.ready = r]
    <2>1. child' = d
      BY <1>4 DEF Receive
    <2>2. m \in Modes /\ r \in Promises /\ m = "running"
      BY DEF Modes, Promises
    <2> HIDE DEF m, r
    <2>3. /\ d \in Child /\ d.mode = m /\ d.stopped = child.stopped
          /\ d.endAck = child.endAck /\ d.done = child.done /\ d.proc = child.proc
      BY <1>1, <2>2, ChildIs
    <2> HIDE DEF d
    <2>4. emitted = Len(outPipe) /\ forwarded = <<>> /\ ~child.endAck
      BY <1>0, <1>1, <1>4 DEF IInv, CountOK, ChildOK
    <2>5. CountOK'
      BY <1>0, <1>1, <2>1, <2>2, <2>3, <2>4 DEF CountOK, history
    <2> QED
      BY <1>0, <1>1, <1>2, <2>1, <2>2, <2>3, <2>4, <2>5, ReadStep
  <1>5. CASE child.mode = "ending" /\ Head(outPipe) = "end"
    <2> DEFINE m == "acknowledged"
               a == TRUE
               d == [child EXCEPT !.mode = m, !.endAck = a]
    <2>1. child' = d
      BY <1>5 DEF Receive
    <2>2. m \in Modes /\ a \in BOOLEAN /\ m = "acknowledged"
      BY DEF Modes
    <2> HIDE DEF m, a
    <2>3. /\ d \in Child /\ d.mode = m /\ d.stopped = child.stopped
          /\ d.endAck = a /\ d.done = child.done /\ d.proc = child.proc
      BY <1>1, <2>2, ChildIs
    <2> HIDE DEF d
    <2>4. emitted = Len(outPipe) + 1 + Len(forwarded)
      BY <1>0, <1>1, <1>5 DEF IInv, CountOK
    <2>5. CountOK'
      <3>1. emitted = Len(outPipe') + 2 + Len(forwarded)
        BY <1>1, <2>4, Lengths
      <3> QED
        BY <1>0, <2>1, <2>2, <2>3, <3>1 DEF CountOK, history
    <2> QED
      BY <1>0, <1>1, <1>2, <2>1, <2>2, <2>3, <2>5, ReadStep
  <1>6. CASE /\ ~(child.mode = "starting" /\ Head(outPipe) = "ready")
             /\ ~(child.mode = "ending" /\ Head(outPipe) = "end")
    <2>1. child' = Terminate(child)
      BY <1>6 DEF Receive
    <2>2. Ended(child, child')
      BY <1>0, <1>1, <2>1, TerminateIs
    <2>3. CountOK'
      BY <2>2 DEF CountOK, Ended
    <2> QED
      BY <1>0, <1>1, <1>2, <2>2, <2>3, ReadStep DEF Ended
  <1> QED
    BY <1>4, <1>5, <1>6

LEMMA OnFrameStep == ASSUME IInv, NEW blocked \in BOOLEAN, OnFrame(blocked) PROVE IInv'
  <1> DEFINE frame == Head(outPipe)
  <1>0. /\ outPipe # <<>> /\ ~child.stopped /\ child.mode \in {"running", "ending"}
        /\ frame \in {"reply", "forged"} /\ outPipe' = Tail(outPipe)
        /\ UNCHANGED <<explicit, socket, parent, sent, accepted, written, emitted>>
    BY DEF OnFrame
  <1>1. /\ child \in Child /\ bridge \in Bridge /\ outPipe' \in Seq(Frames)
        /\ Len(outPipe) = Len(outPipe') + 1 /\ Len(outPipe') \in Nat /\ ~Acked
    BY <1>0, TailIs, TypesOf
  <1>2. ~bridge.aborted
    BY <1>0 DEF IInv, BridgeOK
  <1>3. CASE Refused(frame, blocked)
    <2>1. Abort(bridge, child) /\ forwarded' = forwarded
      BY <1>3 DEF OnFrame
    <2>2. /\ Same(bridge, bridge') /\ bridge'.aborted /\ bridge'.pc = bridge.pc
          /\ bridge'.pump = bridge.pump
      BY <2>1, TypesOf, AbortIs
    <2>3. child' = Terminate(child)
      BY <1>2, <2>1 DEF Abort
    <2>4. Ended(child, child')
      BY <1>0, <1>1, <2>3, TerminateIs
    <2>5. CountOK'
      BY <2>4 DEF CountOK, Ended
    <2> QED
      BY <1>0, <2>1, <2>2, <2>4, <2>5, ReadStep DEF Ended, Same, history, IInv, ChildOK
  <1>4. CASE ~Refused(frame, blocked)
    <2>1. forwarded' = Append(forwarded, frame) /\ UNCHANGED <<bridge, child>>
      BY <1>4 DEF OnFrame
    <2> HIDE DEF frame
    <2>2. /\ forwarded' \in Seq({"reply", "forged", "completed"})
          /\ Len(forwarded') = Len(forwarded) + 1
          /\ DOMAIN forwarded' = 1 .. Len(forwarded) + 1
          /\ forwarded'[Len(forwarded) + 1] = frame
          /\ \A i \in 1 .. Len(forwarded) : forwarded'[i] = forwarded[i]
      BY <1>0, <2>1, Lengths
    <2>3. ~Acked'
      <3> SUFFICES ASSUME NEW i \in DOMAIN forwarded', forwarded'[i] = "completed"
                   PROVE  FALSE
        BY DEF Acked
      <3>1. i \in 1 .. Len(forwarded) => forwarded[i] = "completed" /\ i \in DOMAIN forwarded
        BY <2>2, Lengths
      <3>2. i = Len(forwarded) + 1
        BY <1>1, <2>2, <3>1, Lengths DEF Acked
      <3> QED
        BY <1>0, <2>2, <3>2
    <2>4. emitted = Len(outPipe) + 1 + Len(forwarded)
      BY <1>0, <1>1 DEF IInv, CountOK
    <2>5. CountOK'
      <3>1. emitted' = Len(outPipe') + 1 + Len(forwarded')
        BY <1>0, <1>1, <2>2, <2>4, Lengths
      <3>2. child'.mode \in {"running", "ending"}
        BY <1>0, <2>1
      <3> QED
        BY <3>1, <3>2 DEF CountOK
    <2>6. TypeOK'
      BY <1>0, <1>1, <2>1, <2>2 DEF IInv, TypeOK
    <2>7. ChildOK' /\ BridgeOK'
      BY <1>0, <2>1 DEF IInv, ChildOK, BridgeOK, Completed
    <2>8. WrittenOK'
      BY <1>0, <2>1 DEF IInv, WrittenOK, InHand
    <2> QED
      BY <2>3, <2>5, <2>6, <2>7, <2>8, NoAck DEF IInv
  <1> QED
    BY <1>3, <1>4

(* The close event. *)
LEMMA CloseStep == ASSUME IInv, Close PROVE IInv'
  <1> DEFINE m == "closed"
             r == IF child.ready = "pending" THEN "rejected" ELSE child.ready
             f == IF Completed(child) THEN "resolved" ELSE "rejected"
             d == [child EXCEPT !.mode = m, !.ready = r, !.done = f]
  <1>0. /\ child.proc = "exited" /\ outPipe = <<>> /\ child.mode # "closed" /\ child' = d
        /\ UNCHANGED <<bridge, history, outPipe>>
    BY DEF Close
  <1>1. /\ m \in Modes /\ r \in Promises /\ f \in Promises /\ m = "closed"
        /\ f = "resolved" => Completed(child)
    <2>1. child.ready \in Promises
      BY TypesOf, ChildIs
    <2> QED
      BY <2>1 DEF Modes, Promises
  <1> HIDE DEF m, r, f
  <1>2. /\ d \in Child /\ d.mode = m /\ d.stopped = child.stopped
        /\ d.endAck = child.endAck /\ d.done = f /\ d.proc = child.proc
        /\ d.code = child.code /\ d.truncated = child.truncated
    BY <1>1, TypesOf, ChildIs
  <1> HIDE DEF d
  <1>3. ~Acked /\ ~Acked' /\ child.mode # "none"
    BY <1>0, AckedIsClosed DEF Acked, history, IInv, ChildOK
  <1>4. TypeOK'
    BY <1>0, <1>2 DEF IInv, TypeOK, history
  <1>5. ChildOK'
    BY <1>0, <1>1, <1>2 DEF ChildOK, Completed
  <1>6. BridgeOK'
    BY <1>0, <1>1, <1>2, <1>3 DEF IInv, BridgeOK
  <1>7. CountOK'
    <2>1. ~child.stopped /\ child.endAck => child.mode = "acknowledged"
      BY <1>0 DEF IInv, ChildOK
    <2>2. ~child.stopped /\ child.endAck => emitted = Len(outPipe) + 2 + Len(forwarded)
      BY <1>3, <2>1 DEF IInv, CountOK
    <2> QED
      BY <1>0, <1>1, <1>2, <2>2 DEF CountOK, history
  <1>8. WrittenOK'
    BY <1>0 DEF IInv, WrittenOK, InHand, history
  <1> QED
    BY <1>3, <1>4, <1>5, <1>6, <1>7, <1>8, NoAck DEF IInv
----------------------------------------------------------------------------
(* The theorems *)

LEMMA InitInv == Init => IInv
  <1> SUFFICES ASSUME Init PROVE IInv
    OBVIOUS
  <1> DEFINE p == "verify"
             f == FALSE
             i == "idle"
  <1>1. /\ bridge = [pc |-> p, ready |-> f, aborted |-> f, endRequested |-> f,
                     graceful |-> f, failure |-> f, noticed |-> f, pump |-> i]
        /\ p \in Pcs /\ f \in BOOLEAN /\ i \in Pumps /\ ~f
    BY DEF Init, Pcs, Pumps
  <1> HIDE DEF p, f, i
  <1>2. bridge \in Bridge /\ bridge.pc = p /\ bridge.aborted = f /\ bridge.pump = i
    BY <1>1, BridgeIs
  <1>3. /\ child = NoChild /\ explicit \in BOOLEAN /\ socket = "open" /\ parent = FALSE
        /\ sent = 0 /\ emitted = 0 /\ accepted = <<>> /\ written = <<>> /\ outPipe = <<>>
        /\ forwarded = <<>>
    BY DEF Init
  <1>4. TypeOK
    <2>1. child \in Child /\ sent \in 0 .. MaxMessages /\ emitted \in 0 .. MaxFrames
      BY <1>3, NoChildIs, BoundsAssumption
    <2>2. /\ accepted \in Seq(0 .. MaxMessages) /\ written \in Seq(0 .. MaxMessages)
          /\ outPipe \in Seq(Frames) /\ forwarded \in Seq({"reply", "forged", "completed"})
      BY <1>3
    <2>3. parent \in BOOLEAN
      BY <1>3
    <2> QED
      BY <1>2, <1>3, <2>1, <2>2, <2>3 DEF TypeOK
  <1>5. ~Acked
    BY <1>3 DEF Acked
  <1>6. ChildOK
    BY <1>3, NoChildIs DEF ChildOK
  <1>7. BridgeOK
    BY <1>1, <1>2, <1>3, NoChildIs DEF BridgeOK, p
  <1>8. CountOK
    BY <1>3, NoChildIs DEF CountOK
  <1>9. WrittenOK
    BY <1>2, <1>3 DEF WrittenOK, InHand, i
  <1>10. AckOK
    BY <1>5 DEF Acked, AckOK
  <1> QED
    BY <1>4, <1>6, <1>7, <1>8, <1>9, <1>10 DEF IInv

LEMMA StepInv == IInv /\ [Next]_vars => IInv'
  <1> SUFFICES ASSUME IInv, [Next]_vars PROVE IInv'
    OBVIOUS
  <1>1. CASE BridgeStep
    BY <1>1, StartSteps, NotStartedStep, BecomeReadyStep, NotReadyStep, LeaveStep,
       ReturnStep, NoticeExitStep, PumpTakesStep, PumpWroteStep, PumpFails,
       PumpCompletesStep, AckSettlesStep
    DEF BridgeStep
  <1>2. CASE SupervisorStep
    BY <1>2, DropOutputStep, ReceiveStep, OnFrameStep DEF SupervisorStep
  <1>3. CASE Environment
    BY <1>3, OnMessageStep, SocketSteps, TerminateSteps, ProcessSteps, ChildWritesStep
    DEF Environment
  <1>4. CASE StartupDeadline \/ LifetimeDeadline \/ KillTimer \/ Close \/ Killed
    BY <1>4, TerminateSteps, ProcessSteps, CloseStep
  <1>5. CASE UNCHANGED vars
    BY <1>5 DEF vars, IInv, TypeOK, ChildOK, BridgeOK, CountOK, WrittenOK, AckOK, Acked,
                InHand, Completed
  <1> QED
    BY <1>1, <1>2, <1>3, <1>4, <1>5 DEF Next

(* The invariant: every frame and every message has one place, and an        *)
(* aborted bridge has a terminated process.                                  *)
THEOREM Inductive == Spec => []IInv
  BY InitInv, StepInv, PTL DEF Spec

(* TypeOK: the locals of bridgeSubprocessSession and startAdapterSubprocess  *)
(* and the two pipes keep their types.                                       *)
THEOREM TypeCorrect == Spec => []TypeOK
  BY Inductive, PTL DEF IInv

(* AckMeansDone: whatever the process, the client and the timers do, a       *)
(* client of approved-subprocess-adapters.mjs that sees the completion has   *)
(* had every message delivered and every reply before it.                    *)
THEOREM CompletionIsHonest == Spec => []AckMeansDone
  <1>1. IInv => AckMeansDone
    BY DEF IInv, AckOK, AckMeansDone
  <1> QED
    BY <1>1, Inductive, PTL

(* ReturnsAlone: the session handler never returns before its process is     *)
(* gone, and nothing reaches the client afterwards.                          *)
THEOREM ReturnsWhenAlone == Spec => ReturnsAlone
  <1> DEFINE Alone == bridge.pc = "returned" =>
                        /\ child.mode \in {"none", "closed"} /\ child.proc # "running"
                        /\ forwarded' = forwarded
  <1>1. ASSUME IInv, [Next]_vars PROVE Alone
    <2> SUFFICES ASSUME bridge.pc = "returned"
                 PROVE  /\ child.mode \in {"none", "closed"} /\ child.proc # "running"
                        /\ forwarded' = forwarded
      OBVIOUS
    <2>1. child.mode \in {"none", "closed"} /\ child.proc # "running" /\ bridge.aborted
      BY <1>1 DEF IInv, BridgeOK, ChildOK
    <2>2. CASE BridgeStep
      BY <2>1, <2>2 DEF BridgeStep, Start, SpawnFails, NotStarted, BecomeReady, NotReady,
         Leave, Return, NoticeExit, PumpTakes, PumpWrote, PumpWriteFails, PumpCompletes,
         PumpIncomplete, AckSettles, AckFails, history
    <2>3. CASE SupervisorStep
      BY <2>1, <2>3 DEF SupervisorStep, DropOutput, Receive, OnFrame, history
    <2>4. CASE Environment
      <3>1. ASSUME NEW end \in BOOLEAN, NEW refused \in BOOLEAN, OnMessage(end, refused)
            PROVE  forwarded' = forwarded
        BY <3>1 DEF OnMessage
      <3>2. CASE SocketClosing \/ SocketClose
        BY <2>1, <3>2 DEF SocketClosing, SocketClose
      <3>3. CASE ParentAbort
        BY <2>1, <3>3 DEF ParentAbort
      <3>4. CASE StreamFails \/ ChildReads
        BY <2>1, <3>4 DEF StreamFails, ChildReads, history
      <3>5. ASSUME NEW frame \in Frames, ChildWrites(frame) PROVE forwarded' = forwarded
        BY <3>5 DEF ChildWrites
      <3>6. ASSUME NEW code \in {0, 1}, NEW truncated \in BOOLEAN,
                   ChildExits(code, truncated)
            PROVE  forwarded' = forwarded
        BY <3>6 DEF ChildExits, history
      <3> QED
        BY <2>1, <2>4, <3>1, <3>2, <3>3, <3>4, <3>5, <3>6 DEF Environment
    <2>5. CASE \/ StartupDeadline \/ LifetimeDeadline \/ KillTimer \/ Close \/ Killed
               \/ UNCHANGED vars
      <3>1. CASE StartupDeadline \/ LifetimeDeadline
        BY <2>1, <3>1 DEF StartupDeadline, LifetimeDeadline, history
      <3>2. CASE KillTimer
        BY <2>1, <3>2 DEF KillTimer, history
      <3>3. CASE Close
        BY <2>1, <3>3 DEF Close, history
      <3>4. CASE Killed
        BY <2>1, <3>4 DEF Killed, history
      <3>5. CASE UNCHANGED vars
        BY <2>1, <3>5 DEF vars
      <3> QED
        BY <2>5, <3>1, <3>2, <3>3, <3>4, <3>5
    <2> QED
      BY <1>1, <2>1, <2>2, <2>3, <2>4, <2>5 DEF Next
  <1>2. IInv /\ [Next]_vars => [Alone]_vars
    BY <1>1
  <1> QED
    BY <1>2, Inductive, PTL DEF Spec, ReturnsAlone
=============================================================================

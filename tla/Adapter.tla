------------------------------ MODULE Adapter ------------------------------
(***************************************************************************)
(* One session of an approved subprocess adapter: the bridge between the   *)
(* session's data-plane socket and the adapter process                     *)
(* (worker/approved-subprocess-adapters.mjs), the supervisor of that       *)
(* process (worker/adapter-subprocess-supervisor.mjs) and the process.     *)
(*                                                                         *)
(* The worker is one JavaScript thread, so every event handler and every   *)
(* stretch of code between two awaits is one step; the steps of different  *)
(* promises interleave, and between any two of them the client may send or *)
(* hang up, the lease may be cancelled, a timer may fire and the process   *)
(* may write or exit.  The process is whatever program the operator        *)
(* approved: it may write any frame, stop reading, ignore SIGTERM and exit *)
(* at any moment with any code; it starts no process of its own that keeps *)
(* its output open.                                                        *)
(*                                                                         *)
(* Bytes are abstracted: a client message is numbered, END is the reserved *)
(* end-of-stream text, and a frame of the process is one of Frames.        *)
(***************************************************************************)
EXTENDS Naturals, Sequences

CONSTANTS
    MaxMessages,  \* messages the client sends
    MaxFrames,    \* frames the process writes
    PipeRoom      \* frames a pipe of the process holds

ASSUME BoundsAssumption ==
    /\ MaxMessages \in Nat /\ MaxFrames \in Nat
    /\ PipeRoom \in Nat \ {0}

END == 0

\* What the process may write.  "forged" is the text that only the worker may
\* send, "bad" whatever the decoder, the frame budget or a state refuses.
Frames == {"ready", "reply", "forged", "end", "bad"}

VARIABLES
    bridge,     \* bridgeSubprocessSession: its locals, pump() and the place it awaits at
    child,      \* startAdapterSubprocess: its locals, the process and its input
    outPipe,    \* output of the process that is not yet read
    explicit,   \* completionMode is explicit-text-v1
    socket,     \* the data-plane socket: "open", "closing" or "closed"
    parent,     \* the session's signal (lease lost, cancelled, stopping) is aborted
    sent,       \* messages the client has sent
    accepted,   \* what the bridge has queued, in order
    written,    \* what was written to the process, in order
    emitted,    \* frames the process has written
    forwarded   \* what was handed to the client's socket, in order

vars == <<bridge, child, outPipe, explicit, socket, parent, sent, accepted, written,
          emitted, forwarded>>

history == <<explicit, socket, parent, sent, accepted, written, emitted, forwarded>>

Bridge ==
    [pc : {"verify", "awaitReady", "race", "leave", "returned"},
     ready : BOOLEAN, aborted : BOOLEAN, endRequested : BOOLEAN,
     graceful : BOOLEAN, failure : BOOLEAN, noticed : BOOLEAN,
     pump : {"idle", "writing", "ending", "awaitDone", "acking"}]

Child ==
    [mode : {"none", "starting", "running", "ending", "acknowledged",
             "stopping", "closed"},
     stopped : BOOLEAN, endAck : BOOLEAN,
     ready : {"pending", "resolved", "rejected"},
     done : {"pending", "resolved", "rejected"},
     proc : {"none", "running", "exited"}, code : {0, 1}, truncated : BOOLEAN,
     signal : {"none", "TERM", "KILL"}, stdin : {"open", "ended", "destroyed"},
     inPipe : 0 .. PipeRoom]

\* The queue is what was accepted and not yet taken by pump(); the message
\* pump() is writing was taken and is not yet written.
InHand == IF bridge.pump \in {"writing", "ending"} THEN 1 ELSE 0
Queue == SubSeq(accepted, Len(written) + InHand + 1, Len(accepted))

\* The type invariant.
TypeOK ==
    /\ bridge \in Bridge /\ child \in Child
    /\ explicit \in BOOLEAN /\ socket \in {"open", "closing", "closed"} /\ parent \in BOOLEAN
    /\ sent \in 0 .. MaxMessages /\ emitted \in 0 .. MaxFrames
    /\ accepted \in Seq(0 .. MaxMessages) /\ written \in Seq(0 .. MaxMessages)
    /\ outPipe \in Seq(Frames) /\ forwarded \in Seq({"reply", "forged", "completed"})

NoChild ==
    [mode |-> "none", stopped |-> FALSE, endAck |-> FALSE, ready |-> "pending",
     done |-> "pending", proc |-> "none", code |-> 0, truncated |-> FALSE,
     signal |-> "none", stdin |-> "open", inPipe |-> 0]

\* The session is connected and its signal is not aborted, or the bridge refuses it.
Init ==
    /\ bridge = [pc |-> "verify", ready |-> FALSE, aborted |-> FALSE,
                 endRequested |-> FALSE, graceful |-> FALSE, failure |-> FALSE,
                 noticed |-> FALSE, pump |-> "idle"]
    /\ child = NoChild
    /\ explicit \in BOOLEAN
    /\ socket = "open" /\ parent = FALSE
    /\ sent = 0 /\ emitted = 0
    /\ accepted = <<>> /\ written = <<>> /\ outPipe = <<>> /\ forwarded = <<>>

----------------------------------------------------------------------------
(***************************************************************************)
(* terminate() and abort().                                                *)
(***************************************************************************)

\* terminate(): only the first reason counts.  It rejects `ready`, closes the
\* input of the process, sends SIGTERM and arms the timer of SIGKILL.
Terminate(c) ==
    IF c.stopped \/ c.mode \in {"none", "closed"} THEN c
    ELSE [c EXCEPT !.stopped = TRUE, !.mode = "stopping",
                   !.ready = IF @ = "pending" THEN "rejected" ELSE @,
                   !.stdin = "destroyed", !.signal = "TERM"]

\* abort(): the abort of the bridge's own signal cancels the process at once.
Abort(b, c) ==
    /\ bridge' = [b EXCEPT !.aborted = TRUE]
    /\ child' = IF b.aborted THEN c ELSE Terminate(c)

\* A caught error is the session's failure unless the bridge was already aborted.
Fail(b, c) == Abort([b EXCEPT !.failure = @ \/ ~b.aborted], c)

\* Listeners are on the socket and on the session's signal until `finally`.
Listening == bridge.pc \notin {"leave", "returned"}

----------------------------------------------------------------------------
(***************************************************************************)
(* The bridge: the body of bridgeSubprocessSession.                        *)
(***************************************************************************)

\* The approved files are unchanged and the session still wanted: the process
\* is spawned and HELLO written to it.
Start ==
    /\ bridge.pc = "verify" /\ ~bridge.aborted
    /\ bridge' = [bridge EXCEPT !.pc = "awaitReady"]
    /\ child' = [NoChild EXCEPT !.mode = "starting", !.proc = "running", !.inPipe = 1]
    /\ UNCHANGED <<history, outPipe>>

\* The spawn fails: the error event terminates what never ran.
SpawnFails ==
    /\ bridge.pc = "verify" /\ ~bridge.aborted
    /\ bridge' = [bridge EXCEPT !.pc = "awaitReady"]
    /\ child' = Terminate([NoChild EXCEPT !.mode = "starting", !.proc = "exited", !.code = 1])
    /\ UNCHANGED <<history, outPipe>>

\* Verification fails, or the session was aborted during it: no process.
NotStarted ==
    /\ bridge.pc = "verify"
    /\ \E verified \in BOOLEAN :
        /\ ~verified \/ bridge.aborted
        /\ bridge' = [bridge EXCEPT !.pc = "returned", !.aborted = TRUE,
                                    !.failure = ~verified /\ ~bridge.aborted]
    /\ UNCHANGED <<child, history, outPipe>>

\* `await child.ready` resolves.
BecomeReady ==
    /\ bridge.pc = "awaitReady" /\ child.ready = "resolved"
    /\ bridge' = [bridge EXCEPT !.pc = "race", !.ready = TRUE]
    /\ UNCHANGED <<child, history, outPipe>>

\* `finally`: abort, cancel the process unless it completed gracefully, take
\* the listeners off, and wait for the process to be closed.
Finally(b) ==
    LET c == IF b.aborted THEN child ELSE Terminate(child) IN
    /\ bridge' = [b EXCEPT !.pc = "leave", !.aborted = TRUE]
    /\ child' = IF b.graceful THEN c ELSE Terminate(c)

\* `await child.ready` rejects.
NotReady ==
    /\ bridge.pc = "awaitReady" /\ child.ready = "rejected"
    /\ Finally([bridge EXCEPT !.failure = @ \/ ~bridge.aborted])
    /\ UNCHANGED <<history, outPipe>>

\* The race of `closed` and `finished` is over.
Leave ==
    /\ bridge.pc = "race" /\ (bridge.aborted \/ bridge.graceful)
    /\ Finally(bridge)
    /\ UNCHANGED <<history, outPipe>>

(* Mutation: `finally` does not wait for the process. *)
MutMayReturn == TRUE

\* `await child.completed` at the end of `finally`.
MayReturn == child.done # "pending"

Return ==
    /\ bridge.pc = "leave" /\ MayReturn
    /\ bridge' = [bridge EXCEPT !.pc = "returned"]
    /\ UNCHANGED <<child, history, outPipe>>

\* The reaction on child.completed: a process that ends by itself ends the
\* session.  (That it also completed without a client's END cannot happen.)
NoticeExit ==
    /\ child.done = "rejected" /\ ~bridge.noticed
    /\ IF bridge.aborted
       THEN bridge' = [bridge EXCEPT !.noticed = TRUE] /\ UNCHANGED child
       ELSE Fail([bridge EXCEPT !.noticed = TRUE], child)
    /\ UNCHANGED <<history, outPipe>>

----------------------------------------------------------------------------
(***************************************************************************)
(* The bridge: the client's side.                                          *)
(***************************************************************************)

\* onMessage: queued, unless the client has asked for the end already or the
\* message is refused (too large, beyond the backlog, the reserved answer).
OnMessage(end, refused) ==
    /\ socket = "open" /\ Listening /\ ~bridge.aborted /\ sent < MaxMessages
    /\ sent' = sent + 1
    /\ IF bridge.endRequested \/ refused
       THEN Abort(bridge, child) /\ UNCHANGED accepted
       ELSE /\ accepted' = Append(accepted, IF end /\ explicit THEN END ELSE sent + 1)
            /\ bridge' = [bridge EXCEPT !.endRequested = end /\ explicit]
            /\ UNCHANGED child
    /\ UNCHANGED <<explicit, socket, parent, written, emitted, outPipe, forwarded>>

\* The socket is closing before its close event comes.
SocketClosing ==
    /\ socket = "open"
    /\ socket' = "closing"
    /\ UNCHANGED <<bridge, child, explicit, parent, sent, accepted, written, emitted,
                   outPipe, forwarded>>

SocketClose ==
    /\ socket # "closed"
    /\ socket' = "closed"
    /\ IF Listening THEN Abort(bridge, child) ELSE UNCHANGED <<bridge, child>>
    /\ UNCHANGED <<explicit, parent, sent, accepted, written, emitted, outPipe, forwarded>>

ParentAbort ==
    /\ ~parent
    /\ parent' = TRUE
    /\ IF Listening THEN Abort(bridge, child) ELSE UNCHANGED <<bridge, child>>
    /\ UNCHANGED <<explicit, socket, sent, accepted, written, emitted, outPipe, forwarded>>

----------------------------------------------------------------------------
(***************************************************************************)
(* The bridge: pump().                                                     *)
(***************************************************************************)

\* pump() takes the next message: writeFrame() or end() refuse it unless the
\* process is running.
PumpTakes ==
    /\ bridge.ready /\ bridge.pump = "idle" /\ ~bridge.aborted /\ Queue # <<>>
    /\ IF child.mode # "running" THEN Fail(bridge, child)
       ELSE LET end == Head(Queue) = END IN
            /\ bridge' = [bridge EXCEPT !.pump = IF end THEN "ending" ELSE "writing"]
            /\ child' = [child EXCEPT !.mode = IF end THEN "ending" ELSE @]
    /\ UNCHANGED <<history, outPipe>>

\* The write is done; end() closes the input and waits for `completed`.
PumpWrote ==
    /\ bridge.pump \in {"writing", "ending"}
    /\ child.stdin = "open" /\ child.proc = "running" /\ child.inPipe < PipeRoom
    /\ written' = Append(written, accepted[Len(written) + 1])
    /\ LET end == bridge.pump = "ending" IN
        /\ bridge' = [bridge EXCEPT !.pump = IF end THEN "awaitDone" ELSE "idle"]
        /\ child' = [child EXCEPT !.inPipe = @ + 1, !.stdin = IF end THEN "ended" ELSE @]
    /\ UNCHANGED <<explicit, socket, parent, sent, accepted, emitted, outPipe, forwarded>>

\* The write fails: the input is destroyed, or the process has gone; the error
\* event of stdin terminates too, unless END was acknowledged.
PumpWriteFails ==
    /\ bridge.pump \in {"writing", "ending"}
    /\ child.stdin = "destroyed" \/ child.proc = "exited"
    /\ Fail([bridge EXCEPT !.pump = "idle"],
            IF child.mode = "acknowledged" THEN child ELSE Terminate(child))
    /\ UNCHANGED <<history, outPipe>>

\* `await child.end()`: the completion is acknowledged to the client only if
\* the process completed and nothing aborted the session meanwhile.
PumpCompletes ==
    /\ bridge.pump = "awaitDone" /\ child.done = "resolved"
    /\ IF bridge.aborted
       THEN /\ bridge' = [bridge EXCEPT !.pump = "idle"]
            /\ UNCHANGED <<child, forwarded>>
       ELSE IF socket # "open"
       THEN /\ Fail([bridge EXCEPT !.pump = "idle"], child)
            /\ UNCHANGED forwarded
       ELSE /\ bridge' = [bridge EXCEPT !.pump = "acking"]
            /\ forwarded' = Append(forwarded, "completed")
            /\ UNCHANGED child
    /\ UNCHANGED <<explicit, socket, parent, sent, accepted, written, emitted, outPipe>>

PumpIncomplete ==
    /\ bridge.pump = "awaitDone" /\ child.done = "rejected"
    /\ Fail([bridge EXCEPT !.pump = "idle"], child)
    /\ UNCHANGED <<history, outPipe>>

\* sendCompletionAck settles: the send is done, the bridge was aborted, ...
AckSettles ==
    /\ bridge.pump = "acking"
    /\ bridge' = [bridge EXCEPT !.pump = "idle", !.graceful = ~bridge.aborted]
    /\ UNCHANGED <<child, history, outPipe>>

\* ... the send failed, or two seconds have passed.
AckFails ==
    /\ bridge.pump = "acking"
    /\ Fail([bridge EXCEPT !.pump = "idle"], child)
    /\ UNCHANGED <<history, outPipe>>

----------------------------------------------------------------------------
(***************************************************************************)
(* The supervisor: the handlers of startAdapterSubprocess.                 *)
(***************************************************************************)

\* A terminated process's output is read and dropped.
DropOutput ==
    /\ outPipe # <<>> /\ child.stopped
    /\ outPipe' = Tail(outPipe)
    /\ UNCHANGED <<bridge, child, history>>

\* receive(): the handshake, the acknowledged END, and what no state allows.
Receive ==
    LET frame == Head(outPipe) IN
    /\ outPipe # <<>> /\ ~child.stopped
    /\ outPipe' = Tail(outPipe)
    /\ child.mode \notin {"running", "ending"} \/ frame \notin {"reply", "forged"}
    /\ child' =
        IF child.mode = "starting" /\ frame = "ready"
        THEN [child EXCEPT !.mode = "running", !.ready = "resolved"]
        ELSE IF child.mode = "ending" /\ frame = "end"
             THEN [child EXCEPT !.mode = "acknowledged", !.endAck = TRUE]
             ELSE Terminate(child)
    /\ UNCHANGED <<bridge, history>>

\* onFrame: only the worker may send the completion, and a client that does
\* not read (`blocked`) or has gone ends the session.
Refused(frame, blocked) ==
    bridge.aborted \/ socket # "open" \/ (explicit /\ frame = "forged") \/ blocked

OnFrame(blocked) ==
    LET frame == Head(outPipe) IN
    /\ outPipe # <<>> /\ ~child.stopped
    /\ child.mode \in {"running", "ending"} /\ frame \in {"reply", "forged"}
    /\ outPipe' = Tail(outPipe)
    /\ IF Refused(frame, blocked)
       THEN Abort(bridge, child) /\ UNCHANGED forwarded
       ELSE /\ forwarded' = Append(forwarded, frame)
            /\ UNCHANGED <<bridge, child>>
    /\ UNCHANGED <<explicit, socket, parent, sent, accepted, written, emitted>>

\* The output budgets and the errors of the three pipes.
StreamFails ==
    /\ child.mode \notin {"none", "closed"} /\ ~child.stopped
    /\ child' = Terminate(child)
    /\ UNCHANGED <<bridge, history, outPipe>>

StartupDeadline ==
    /\ child.mode = "starting"
    /\ child' = Terminate(child)
    /\ UNCHANGED <<bridge, history, outPipe>>

LifetimeDeadline ==
    /\ child.mode \notin {"none", "closed"} /\ ~child.stopped
    /\ child' = Terminate(child)
    /\ UNCHANGED <<bridge, history, outPipe>>

(* Mutation: SIGKILL follows only for a process that had become ready. *)
MutKillTimer ==
    /\ child.mode = "stopping" /\ child.signal = "TERM" /\ child.ready = "resolved"
    /\ child' = [child EXCEPT !.signal = "KILL"]
    /\ UNCHANGED <<bridge, history, outPipe>>

KillTimer ==
    /\ child.mode = "stopping" /\ child.signal = "TERM"
    /\ child' = [child EXCEPT !.signal = "KILL"]
    /\ UNCHANGED <<bridge, history, outPipe>>

(* Mutation: the close handler looks at the exit code only. *)
MutCompleted(c) == ~c.stopped /\ ~c.truncated /\ c.code = 0

\* What the close handler calls a completed process.
Completed(c) == ~c.stopped /\ ~c.truncated /\ c.endAck /\ c.code = 0

\* The close event comes once the process has exited and its output is read.
Close ==
    /\ child.proc = "exited" /\ outPipe = <<>> /\ child.mode # "closed"
    /\ child' = [child EXCEPT !.mode = "closed",
                              !.ready = IF @ = "pending" THEN "rejected" ELSE @,
                              !.done = IF Completed(child) THEN "resolved" ELSE "rejected"]
    /\ UNCHANGED <<bridge, history, outPipe>>

----------------------------------------------------------------------------
(***************************************************************************)
(* The adapter process.                                                    *)
(***************************************************************************)

ChildReads ==
    /\ child.proc = "running" /\ child.inPipe > 0
    /\ child' = [child EXCEPT !.inPipe = @ - 1]
    /\ UNCHANGED <<bridge, history, outPipe>>

ChildWrites(frame) ==
    /\ child.proc = "running" /\ emitted < MaxFrames /\ Len(outPipe) < PipeRoom
    /\ outPipe' = Append(outPipe, frame)
    /\ emitted' = emitted + 1
    /\ UNCHANGED <<bridge, child, explicit, socket, parent, sent, accepted, written, forwarded>>

\* It exits when it likes, or of SIGTERM; a last frame may be cut short.
ChildExits(code, truncated) ==
    /\ child.proc = "running"
    /\ child' = [child EXCEPT !.proc = "exited", !.code = code, !.truncated = truncated]
    /\ UNCHANGED <<bridge, history, outPipe>>

\* Nothing survives SIGKILL.
Killed ==
    /\ child.proc = "running" /\ child.signal = "KILL"
    /\ child' = [child EXCEPT !.proc = "exited", !.code = 1]
    /\ UNCHANGED <<bridge, history, outPipe>>

----------------------------------------------------------------------------
BridgeStep ==
    \/ Start \/ SpawnFails \/ NotStarted \/ BecomeReady \/ NotReady \/ Leave
    \/ Return \/ NoticeExit
    \/ PumpTakes \/ PumpWrote \/ PumpWriteFails \/ PumpCompletes \/ PumpIncomplete
    \/ AckSettles \/ AckFails

SupervisorStep ==
    DropOutput \/ Receive \/ \E blocked \in BOOLEAN : OnFrame(blocked)

Environment ==
    \/ \E end, refused \in BOOLEAN : OnMessage(end, refused)
    \/ SocketClosing \/ SocketClose \/ ParentAbort \/ StreamFails \/ ChildReads
    \/ \E frame \in Frames : ChildWrites(frame)
    \/ \E code \in {0, 1}, truncated \in BOOLEAN : ChildExits(code, truncated)

Next ==
    \/ BridgeStep \/ SupervisorStep \/ Environment
    \/ StartupDeadline \/ LifetimeDeadline \/ KillTimer \/ Close \/ Killed

Spec == Init /\ [][Next]_vars

\* What the event loop, the timers and the kernel guarantee: a runnable handler
\* runs, a timer that stays armed fires, SIGKILL kills, and an exited process
\* whose output is read is reported closed.  Nothing is asked of the adapter,
\* of the client or of the parent.
FairSpec ==
    /\ Spec
    /\ WF_vars(BridgeStep) /\ WF_vars(SupervisorStep)
    /\ WF_vars(LifetimeDeadline) /\ WF_vars(KillTimer)
    /\ WF_vars(Killed) /\ WF_vars(Close)

----------------------------------------------------------------------------
(***************************************************************************)
(* Properties.                                                             *)
(***************************************************************************)

\* The client of a session with an explicit end sees the completion only if
\* every message it sent reached the process in order with END last, the
\* process acknowledged END and exited with 0, every reply it ever wrote went
\* to the client first, and nothing follows (approved-subprocess-adapters.mjs,
\* pump and sendCompletionAck; supervisor, receive and close).
AckMeansDone ==
    \A i \in DOMAIN forwarded :
        explicit /\ forwarded[i] = "completed" =>
            /\ i = Len(forwarded) /\ i = emitted - 1
            /\ written = accepted /\ accepted[Len(accepted)] = END
            /\ child.mode = "closed" /\ child.endAck /\ child.code = 0

\* The session handler returns only when its process is gone and its timers
\* are cleared, and nothing is sent to the client after it has returned, so
\* that the lease it ran under can be given up (the finally of
\* bridgeSubprocessSession).
ReturnsAlone ==
    [][bridge.pc = "returned" =>
        /\ child.mode \in {"none", "closed"} /\ child.proc # "running"
        /\ forwarded' = forwarded]_vars

\* Whatever the adapter, the client and the control plane do, the handler
\* returns: the lifetime timer, SIGKILL and the close event see to it.
BridgeReturns == <>(bridge.pc = "returned")
============================================================================

---------------------------- MODULE SessionWorker ----------------------------
(***************************************************************************)
(* One reusable session (SessionWorker.cxx, createSession): host threads   *)
(* admit connects, disconnects, commands and closes under commandMutex and *)
(* finish what they started after releasing it; the worker thread runs one *)
(* connection attempt at a time; an observer thread watches the peer.      *)
(*                                                                         *)
(* An action is one critical section, one test of a shared atomic or one   *)
(* call into another object.  The event stream and the prompt bridge are   *)
(* those of SessionEvents and PromptAuthentication, reduced to what the    *)
(* worker uses of them.                                                    *)
(***************************************************************************)
EXTENDS Integers, Sequences, FiniteSets, SequencesExt

CONSTANTS
  Hosts,           \* host threads
  CommandKinds,    \* commands that hosts submit; Refresh stands for Encoding too
  CommandCapacity, \* commandCapacity
  MaxGeneration,   \* bound on attempts
  MaxOperation,    \* bound on operation ids
  MaxRevision,     \* bound on settings revisions
  MayOverflow      \* the event queue can run out of room or of stamps

ASSUME WorkerBounds ==
  /\ CommandKinds \subseteq {"Refresh", "DesktopLayout", "Clipboard"}
  /\ CommandCapacity \in Nat \ {0} /\ MaxGeneration \in Nat \ {0}
  /\ MaxOperation \in Nat \ {0} /\ MaxRevision \in Nat \ {0}
  /\ MayOverflow \in BOOLEAN

VARIABLES
  gate,     \* what commandMutex guards
  events,   \* SessionEvents: operations and the published state
  auth,     \* PromptAuthentication
  control,  \* WorkerControl and the controls behind it, per attempt
  router,   \* WakeRouter: the attempt whose control it wakes, or 0
  pc,       \* where the worker thread is
  worker,   \* its transport, protocol and local variables
  watch,    \* the observer thread and the flags it sets
  host,     \* per host thread: what it still does after its critical section
  history   \* what the properties need to remember

vars == <<gate, events, auth, control, router, pc, worker, watch, host, history>>

Ids == 1 .. MaxOperation
Generations == 1 .. MaxGeneration
Exclusive == {"DesktopLayout", "Clipboard"}  \* at most one of each is queued
Orderly == {"Cancelled", "PeerClosed"}       \* results that are not failures

Gate == [stopping : BOOLEAN, attemptActive : BOOLEAN, pendingAttempt : BOOLEAN,
         generation : 0 .. MaxGeneration, connectOperation : 0 .. MaxOperation,
         disconnectOperation : 0 .. MaxOperation, commandsClosed : BOOLEAN,
         finishing : BOOLEAN, cancelled : BOOLEAN, revision : 1 .. MaxRevision,
         commands : Seq(Ids), queued : [Exclusive -> 0 .. MaxOperation]]

Operation == [kind : {"none", "connect", "disconnect"} \cup CommandKinds,
              generation : 0 .. MaxGeneration,
              result : {"none", "pending", "Succeeded", "Failed", "Cancelled"}]

Events == [op : [Ids -> Operation], issued : 0 .. MaxOperation, sealed : BOOLEAN,
           state : {"Idle", "Connecting", "Negotiating", "Connected", "Disconnecting",
                    "Closed", "Failed"},
           generation : 0 .. MaxGeneration]

Auth == [accepting : BOOLEAN, generation : 0 .. MaxGeneration,
         status : {"Waiting", "Cancelled", "PeerClosed"}]

\* woken and stopped are the transport's, setupCancelled the connection's.
Control == [connecting : BOOLEAN, closing : BOOLEAN, setupCancelled : BOOLEAN,
            woken : BOOLEAN, stopped : BOOLEAN]

Worker == [executing : 0 .. MaxOperation, drained : 0 .. CommandCapacity,
           progressed : BOOLEAN, transport : BOOLEAN, ready : BOOLEAN,
           resizeOperation : 0 .. MaxOperation, resizePending : BOOLEAN,
           unanswered : Nat,  \* layout requests on the wire without a reply
           result : {"None", "Cancelled", "PeerClosed", "EventOverflow", "Failure"}]

Watch == [observer : {"none", "watching", "auth", "wake", "done"},
          peerClosed : BOOLEAN, failed : BOOLEAN]

\* then: the steps a host has left; scope: the attempt whose prompt it cancels, 0
\* for any; gen: the control it captured; target and how: the signal it sends.
Idle == [then |-> <<>>, scope |-> 0, gen |-> 0, target |-> "setup", how |-> "wake"]

\* A control nobody reads: of no attempt yet, or dropped by run().
NoControl == [connecting |-> FALSE, closing |-> FALSE, setupCancelled |-> FALSE,
              woken |-> FALSE, stopped |-> FALSE]

generation == gate.generation
cancelled == gate.cancelled

----------------------------------------------------------------------------
(* The event stream, the prompt bridge and the protocol, as the worker uses them *)

Pending(e) == {id \in Ids : e.op[id].result = "pending"}

\* complete(): only of an operation that is still pending.
Completed(e, S, r) ==
  [e EXCEPT !.op = [id \in Ids |-> IF id \in S \cap Pending(e) THEN [@[id] EXCEPT !.result = r]
                                   ELSE @[id]]]

CanReserve == ~events.sealed /\ events.issued < MaxOperation
NextId == events.issued + 1

\* reserve() and reserveAttempt(), when there is room.
Reserved(e, kind, g) ==
  [e EXCEPT !.issued = NextId,
            !.op[NextId] = [kind |-> kind, generation |-> g, result |-> "pending"]]

\* overflow(): a publication without room, or an exhausted stamp counter.
Overflowed(e) == [Completed(e, Ids, "Failed") EXCEPT !.sealed = TRUE, !.state = "Failed"]

CanOverflow == MayOverflow /\ ~events.sealed

\* publish() of a state of the current attempt; ignored once sealed.
Published(e, state) ==
  IF e.sealed THEN e ELSE [e EXCEPT !.state = state, !.generation = generation]

Interrupted(a, why) == [a EXCEPT !.accepting = FALSE, !.status = why]

\* ProtocolSession::finish().
Finished(w) == [w EXCEPT !.ready = FALSE, !.resizeOperation = 0, !.resizePending = FALSE,
                         !.unanswered = 0]
Ended_Early(e, failed) ==  \* mutant: the disconnect succeeds when the protocol is closed
  Completed(e, {worker.resizeOperation, gate.disconnectOperation}, "Succeeded")
Ended(e, failed) ==
  Completed(e, {worker.resizeOperation}, IF failed THEN "Failed" ELSE "Cancelled")

----------------------------------------------------------------------------
(* Host threads: the critical sections.  A refused call changes nothing. *)

Ready(h) == host[h] = Idle
Continue(h, record) == host' = [host EXCEPT ![h] = IF record.then = <<>> THEN Idle ELSE record]

\* What is left to do once the mutex is released.
AfterConnect == [Idle EXCEPT !.then = <<"notify">>]
AfterClose_PromptOnly(g) ==  \* mutant: the transport is not told
  [Idle EXCEPT !.then = <<"auth">>, !.scope = g]
AfterClose(g) == [Idle EXCEPT !.then = <<"auth", "request", "deliver">>, !.scope = g, !.gen = g]
AfterCancel_PromptOnly(g) == [Idle EXCEPT !.then = <<"auth", "notify">>]  \* mutant: likewise
AfterCancel(g) ==
  [Idle EXCEPT !.then = IF g = 0 THEN <<"auth", "notify">>
                        ELSE <<"auth", "request", "deliver", "notify">>, !.gen = g]
AfterWake_NotifyOnly == [Idle EXCEPT !.then = <<"notify">>]  \* mutant: no wakeup->wake()
AfterWake == [Idle EXCEPT !.then = <<"wake", "deliver", "notify">>]

\* finishQueued(): its effect on the ledger and on the gate.
QueueFinished(e, r) == Completed(e, ToSet(gate.commands), r)
QueueCleared(g) == [g EXCEPT !.commands = <<>>, !.queued = [kind \in Exclusive |-> 0]]

\* A cancellation is accepted for the current attempt.
Closed(g) == [QueueCleared(g) EXCEPT !.commandsClosed = TRUE, !.cancelled = TRUE]
RecordClosed == history' = [history EXCEPT !.closed = @ \cup {generation}]

ConnectAllowed ==
  /\ ~gate.stopping /\ ~events.sealed
  /\ ~gate.attemptActive
  /\ Pending(events) = {}

\* The flags of the previous attempt are reset when the next one is admitted.
Admitted(g) ==
  [g EXCEPT !.connectOperation = NextId, !.generation = @ + 1, !.cancelled = FALSE,
            !.finishing = FALSE, !.commandsClosed = FALSE,
            !.attemptActive = TRUE, !.pendingAttempt = TRUE]

Connect(h) ==
  /\ Ready(h)
  /\ ConnectAllowed /\ CanReserve /\ generation < MaxGeneration
  /\ events' = Reserved(events, "connect", generation + 1)
  /\ gate' = Admitted(gate)
  /\ control' = [control EXCEPT ![generation + 1].connecting = TRUE]
  /\ watch' = [watch EXCEPT !.peerClosed = FALSE, !.failed = FALSE]
  /\ worker' = [worker EXCEPT !.result = "None"]
  /\ Continue(h, AfterConnect)
  /\ UNCHANGED <<auth, router, pc, history>>

DisconnectAllowed(g) ==
  /\ ~gate.stopping /\ ~events.sealed
  /\ g = generation /\ gate.attemptActive
  /\ ~gate.finishing /\ ~cancelled

Disconnect(h, g) ==
  /\ Ready(h)
  /\ DisconnectAllowed(g) /\ CanReserve
  /\ events' = QueueFinished(Reserved(events, "disconnect", g), "Cancelled")
  /\ gate' = [Closed(gate) EXCEPT !.disconnectOperation = NextId]
  /\ RecordClosed
  /\ Continue(h, AfterClose(g))
  /\ UNCHANGED <<auth, control, router, pc, worker, watch>>

\* cancelCommand() of the connect in progress.
CancelConnect(h, g, id) ==
  /\ Ready(h)
  /\ gate.attemptActive /\ g = generation /\ id = gate.connectOperation
  /\ ~gate.finishing /\ ~cancelled /\ id \in Pending(events)
  /\ events' = QueueFinished(events, "Cancelled")
  /\ gate' = Closed(gate)
  /\ history' = [history EXCEPT !.closed = @ \cup {generation}, !.revoked = @ \cup {id}]
  /\ Continue(h, AfterClose(g))
  /\ UNCHANGED <<auth, control, router, pc, worker, watch>>

CurrentGeneration == IF gate.attemptActive THEN generation ELSE events.generation
Unqueued(id) == [kind \in Exclusive |-> IF gate.queued[kind] = id THEN 0 ELSE gate.queued[kind]]

\* cancelCommand() of a queued command.
CancelQueued(h, g, id) ==
  /\ Ready(h)
  /\ g = CurrentGeneration /\ id \in ToSet(gate.commands)
  /\ events' = Completed(events, {id}, "Cancelled")
  /\ gate' = [gate EXCEPT !.commands = RemoveFirst(@, id), !.queued = Unqueued(id)]
  /\ UNCHANGED <<auth, control, router, pc, worker, watch, host, history>>

SubmitAllowed(kind, g) ==
  /\ ~gate.commandsClosed /\ ~events.sealed
  /\ g = CurrentGeneration
  /\ events.state = "Connected"
  /\ kind \in Exclusive => gate.queued[kind] = 0
  /\ kind = "DesktopLayout" => ~worker.resizePending
  /\ Len(gate.commands) < CommandCapacity

\* submit(), and the wake() its callers add.
Submit(h, kind, g) ==
  /\ Ready(h)
  /\ SubmitAllowed(kind, g) /\ CanReserve
  /\ events' = Reserved(events, kind, g)
  /\ gate' = [gate EXCEPT !.commands = Append(@, NextId),
                !.queued = [k \in Exclusive |-> IF k = kind THEN NextId ELSE @[k]]]
  /\ Continue(h, AfterWake)
  /\ UNCHANGED <<auth, control, router, pc, worker, watch, history>>

\* A reservation found the stamp counter exhausted: EventCapacity, then wake().
ReserveOverflows(h) ==
  /\ Ready(h) /\ CanOverflow
  /\ \/ ConnectAllowed
     \/ DisconnectAllowed(generation)
     \/ \E kind \in CommandKinds : SubmitAllowed(kind, CurrentGeneration)
  /\ events' = Overflowed(events)
  /\ Continue(h, AfterWake)
  /\ UNCHANGED <<gate, auth, control, router, pc, worker, watch, history>>

SettingsOpen == ~gate.stopping /\ ~events.sealed /\ ~gate.attemptActive

\* setSecurity() and setShared(), which have the same gate.
SetSecurity(h, g, revision) ==
  /\ Ready(h)
  /\ SettingsOpen /\ g = generation
  /\ revision = gate.revision /\ revision < MaxRevision
  /\ gate' = [gate EXCEPT !.revision = @ + 1]
  /\ UNCHANGED <<events, auth, control, router, pc, worker, watch, host, history>>

\* State::cancel(): closeAndDrain(), the destructor of the handle, shutdown().
\* It takes hold of the control only before the terminal-reason boundary.
Cancel(h) ==
  /\ Ready(h)
  /\ IF gate.finishing
       THEN /\ gate' = [gate EXCEPT !.stopping = TRUE]
            /\ Continue(h, AfterCancel(0))
            /\ UNCHANGED <<events, history>>
       ELSE /\ gate' = [Closed(gate) EXCEPT !.stopping = TRUE]
            /\ events' = QueueFinished(events, "Cancelled")
            /\ RecordClosed
            /\ Continue(h, AfterCancel(IF gate.attemptActive THEN generation ELSE 0))
  /\ UNCHANGED <<auth, control, router, pc, worker, watch>>

----------------------------------------------------------------------------
(* Host threads: what they do unlocked *)

Doing(h, step) == host[h].then # <<>> /\ Head(host[h].then) = step
Rest(h) == [host[h] EXCEPT !.then = Tail(@)]


\* cancelAttempt(generation) ignores another attempt; cancelPending() does not.
InScope(scope) == scope \in {0, auth.generation}

HostAuth(h) ==
  /\ Doing(h, "auth")
  /\ auth' = IF InScope(host[h].scope) THEN Interrupted(auth, "Cancelled") ELSE auth
  /\ Continue(h, Rest(h))
  /\ UNCHANGED <<gate, events, control, router, pc, worker, watch, history>>

Target(g) == IF control[g].connecting THEN "setup" ELSE "transport"

\* WorkerControl::requestClose(), its locked half.
HostRequest(h) ==
  /\ Doing(h, "request")
  /\ LET g == host[h].gen IN
       /\ control' = [control EXCEPT ![g].closing = TRUE]
       /\ Continue(h, [Rest(h) EXCEPT !.target = Target(g),
                         !.how = IF control[g].connecting THEN "cancel" ELSE "wake"])
  /\ UNCHANGED <<gate, events, auth, router, pc, worker, watch, history>>

\* WakeRouter::wake() and WorkerControl::wake(): finding the current target.
HostWake(h) ==
  /\ Doing(h, "wake")
  /\ IF router = 0 THEN Continue(h, [Rest(h) EXCEPT !.then = Tail(@)])
     ELSE Continue(h, [Rest(h) EXCEPT !.gen = router, !.target = Target(router)])
  /\ UNCHANGED <<gate, events, auth, control, router, pc, worker, watch, history>>

\* Signals are sticky; waking a connection that is being set up has no effect.
Signalled(c, target, how) ==
  [c EXCEPT !.setupCancelled = @ \/ (target = "setup" /\ how = "cancel"),
            !.woken = @ \/ target = "transport",
            !.stopped = @ \/ (target = "transport" /\ how = "cancel")]

HostDeliver(h) ==
  /\ Doing(h, "deliver")
  /\ control' = [control EXCEPT ![host[h].gen] = Signalled(@, host[h].target, host[h].how)]
  /\ Continue(h, Rest(h))
  /\ UNCHANGED <<gate, events, auth, router, pc, worker, watch, history>>

\* changed.notify_one(): heard only by a worker that is asleep.
HostNotify(h) ==
  /\ Doing(h, "notify")
  /\ pc' = IF pc = "asleep" THEN "idle" ELSE pc
  /\ Continue(h, Rest(h))
  /\ UNCHANGED <<gate, events, auth, control, router, worker, watch, history>>

----------------------------------------------------------------------------
(* Worker thread: run() and the connection's setup *)

Wakeable == gate.pendingAttempt \/ gate.stopping \/ events.sealed

\* The condition variable of run(); once there is nothing to run, the end.
WaitForAttempt ==
  /\ pc = "idle"
  /\ pc' = IF ~Wakeable THEN "asleep" ELSE IF gate.pendingAttempt THEN "prepare" ELSE "exit"
  /\ gate' = [gate EXCEPT !.pendingAttempt = FALSE]
  /\ UNCHANGED <<events, auth, control, router, worker, watch, host, history>>

Unless(next) == IF cancelled THEN "finish" ELSE next

\* wakeup->install(), the settings, prepareAttempt() and the first test.
PrepareAttempt ==
  /\ pc = "prepare"
  /\ router' = generation
  /\ events' = Published(events, "Idle")
  /\ pc' = Unless("connecting")
  /\ UNCHANGED <<gate, auth, control, worker, watch, host, history>>

\* connection->run() reports a phase: Resolving or Connecting.
ConnectPhase ==
  /\ pc = "connecting"
  /\ ~cancelled /\ ~events.sealed
  /\ events' = Published(events, "Connecting")
  /\ UNCHANGED <<gate, auth, control, router, pc, worker, watch, host, history>>

\* connection->run() threw, because its control was cancelled or on its own.
ConnectFails(code) ==
  /\ pc = "connecting"
  /\ code = "Cancelled" => control[generation].setupCancelled
  /\ worker' = [worker EXCEPT !.result = code]
  /\ pc' = "finish"
  /\ UNCHANGED <<gate, events, auth, control, router, watch, host, history>>

\* WorkerControl::install(): a close that came during the setup is passed on.
Installed(c) == [c EXCEPT !.connecting = FALSE, !.woken = @ \/ c.closing]

ConnectReturns ==
  /\ pc = "connecting"
  /\ worker' = [worker EXCEPT !.transport = TRUE]
  /\ control' = [control EXCEPT ![generation] = Installed(@)]
  /\ pc' = "starting"
  /\ UNCHANGED <<gate, events, auth, router, watch, host, history>>

StartCheck ==
  /\ pc = "starting"
  /\ pc' = Unless("start")
  /\ UNCHANGED <<gate, events, auth, control, router, worker, watch, host, history>>

\* ProtocolSession::start() opens the prompt bridge for this attempt.
Start ==
  /\ pc = "start"
  /\ auth' = [auth EXCEPT !.accepting = TRUE, !.generation = generation]
  /\ events' = Published(events, "Negotiating")
  /\ pc' = "started"
  /\ UNCHANGED <<gate, control, router, worker, watch, host, history>>

\* "close-before-start must never be lost": the test after start().
Started ==
  /\ pc = "started"
  /\ pc' = Unless("loop")
  /\ watch' = [watch EXCEPT !.observer = IF cancelled THEN "none" ELSE "watching"]
  /\ UNCHANGED <<gate, events, auth, control, router, worker, host, history>>

----------------------------------------------------------------------------
(* Worker thread: the session loop *)

\* The tests at the head of the loop, in the code's order.
LoopHead ==
  /\ pc = "loop"
  /\ LET code == IF cancelled THEN worker.result
                 ELSE IF events.sealed THEN "EventOverflow"
                 ELSE IF watch.failed THEN "Failure" ELSE worker.result IN
       worker' = [worker EXCEPT !.result = code, !.progressed = FALSE]
  /\ pc' = IF cancelled \/ events.sealed \/ watch.failed THEN "finish" ELSE "drain"
  /\ UNCHANGED <<gate, events, auth, control, router, watch, host, history>>

Dequeued_Peek(g) == g  \* mutant: the command stays queued while it is executed
Dequeued(g) == [g EXCEPT !.commands = Tail(@)]
MayDequeue ==
  worker.drained < CommandCapacity /\ ~gate.commandsClosed /\ gate.commands # <<>>

\* drainCommands(): at most commandCapacity commands a round.
Dequeue ==
  /\ pc = "drain"
  /\ IF MayDequeue
       THEN /\ worker' = [worker EXCEPT !.executing = Head(gate.commands), !.drained = @ + 1]
            /\ gate' = Dequeued(gate)
            /\ pc' = "execute"
       ELSE /\ worker' = [worker EXCEPT !.drained = 0]
            /\ pc' = "dispatch"
            /\ UNCHANGED gate
  /\ UNCHANGED <<events, auth, control, router, watch, host, history>>


\* The slot of an exclusive command is given back after it was executed.
SlotReleased(id) == [gate EXCEPT !.queued = Unqueued(id)]

\* The protocol carried the command out; a layout stays pending with it.
ExecuteOk ==
  LET id == worker.executing
      layout == events.op[id].kind = "DesktopLayout" IN
  /\ pc = "execute"
  /\ ~events.sealed
  /\ layout => ~worker.resizePending
  /\ worker' = [worker EXCEPT !.executing = 0, !.resizePending = @ \/ layout,
                  !.resizeOperation = IF layout THEN id ELSE @,
                  !.unanswered = IF layout THEN @ + 1 ELSE @]
  /\ events' = IF layout THEN events ELSE Completed(events, {id}, "Succeeded")
  /\ gate' = SlotReleased(id)
  /\ history' = [history EXCEPT !.executed = @ \cup {id}]
  /\ pc' = "drain"
  /\ UNCHANGED <<auth, control, router, watch, host>>

\* The protocol returned 0: sealed, view only, a stale clipboard route...
ExecuteRefused ==
  LET id == worker.executing IN
  /\ pc = "execute"
  /\ events.sealed \/ events.op[id].kind \in Exclusive
  /\ worker' = [worker EXCEPT !.executing = 0]
  /\ events' = Completed(events, {id}, "Failed")
  /\ gate' = SlotReleased(id)
  /\ pc' = "drain"
  /\ UNCHANGED <<auth, control, router, watch, host, history>>

\* An exception out of the protocol, after its own clean-up: finish(true).
Thrown(code, e) ==
  /\ worker' = [Finished(worker) EXCEPT !.result = code, !.executing = 0]
  /\ auth' = [Interrupted(auth, "Cancelled") EXCEPT !.generation = generation]
  /\ events' = e
  /\ pc' = "finish"
  /\ UNCHANGED <<gate, control, router, watch, host>>

ExecuteThrows ==
  /\ pc = "execute"
  /\ ~events.sealed
  /\ Thrown("Failure", Completed(Ended(events, TRUE), {worker.executing}, "Failed"))
  /\ history' = [history EXCEPT !.executed = @ \cup {worker.executing}]

\* The test in front of each processMessage().
Processing == IF cancelled THEN "flush" ELSE "message"

TimedOut_FreesSlot(w) ==  \* mutant: the timer gives the wire slot back
  [w EXCEPT !.resizeOperation = 0, !.resizePending = FALSE]
TimedOut(w) == [w EXCEPT !.resizeOperation = 0]

\* dispatchScheduled(): the resize timer may fire; the reply is still awaited.
Dispatch(fires) ==
  /\ pc = "dispatch"
  /\ fires => worker.resizeOperation # 0
  /\ IF fires
       THEN /\ events' = Completed(events, {worker.resizeOperation}, "Failed")
            /\ worker' = TimedOut(worker)
       ELSE UNCHANGED <<events, worker>>
  /\ pc' = Processing
  /\ UNCHANGED <<gate, auth, control, router, watch, host, history>>

\* processMessage() that leads to nothing the worker acts on.
Message(progress) ==
  /\ pc = "message"
  /\ worker' = [worker EXCEPT !.progressed = progress]
  /\ pc' = "boundary"
  /\ UNCHANGED <<gate, events, auth, control, router, watch, host, history>>

\* initDone().
MessageConnects ==
  /\ pc = "message" /\ ~worker.ready
  /\ worker' = [worker EXCEPT !.ready = TRUE, !.progressed = TRUE]
  /\ events' = Published(events, "Connected")
  /\ pc' = "boundary"
  /\ UNCHANGED <<gate, auth, control, router, watch, host, history>>

\* setExtendedDesktopSize() in reply to this client.
MessageResizes(r) ==
  /\ pc = "message" /\ worker.resizePending
  /\ worker' = [worker EXCEPT !.resizePending = FALSE, !.resizeOperation = 0,
                  !.unanswered = @ - 1, !.progressed = TRUE]
  /\ events' = Completed(events, {worker.resizeOperation}, r)
  /\ pc' = "boundary"
  /\ UNCHANGED <<gate, auth, control, router, watch, host, history>>

\* Also drainInput() and dispatchScheduled().
MessageThrows(code) ==
  /\ pc \in {"dispatch", "message"}
  /\ Thrown(code, Ended(events, TRUE))
  /\ UNCHANGED history

\* PromptAuthentication::request(): refused, or the worker parks.
MessagePrompts ==
  /\ pc = "message" /\ ~worker.ready
  /\ IF auth.accepting
       THEN /\ auth' = [auth EXCEPT !.status = "Waiting"]
            /\ pc' = "prompt"
            /\ UNCHANGED <<gate, events, control, router, worker, watch, host>>
       ELSE Thrown(auth.status, Ended(events, TRUE))
  /\ UNCHANGED history

PromptInterrupted ==
  /\ pc = "prompt" /\ auth.status # "Waiting"
  /\ Thrown(auth.status, Ended(events, TRUE)) /\ UNCHANGED history

PromptTimesOut ==
  /\ pc = "prompt" /\ auth.status = "Waiting"
  /\ Thrown("Failure", Ended(events, TRUE)) /\ UNCHANGED history

PromptAnswered ==
  /\ pc = "prompt" /\ auth.status = "Waiting"
  /\ worker' = [worker EXCEPT !.progressed = TRUE]
  /\ pc' = "boundary"
  /\ UNCHANGED <<gate, events, auth, control, router, watch, host, history>>

ConnectSucceeds_Late == worker.ready /\ gate.connectOperation # 0  \* mutant
ConnectSucceeds == worker.ready /\ ~cancelled /\ gate.connectOperation # 0

\* "Cancellation and successful negotiation share this boundary."
ConnectBoundary ==
  /\ pc = "boundary"
  /\ IF ConnectSucceeds
       THEN /\ events' = Completed(events, {gate.connectOperation}, "Succeeded")
            /\ gate' = [gate EXCEPT !.connectOperation = 0]
       ELSE UNCHANGED <<events, gate>>
  /\ \/ pc' = "flush"
     \/ worker.progressed /\ pc' = Processing
  /\ UNCHANGED <<auth, control, router, worker, watch, host, history>>

\* transport->flush() and the tests after it.
Flush ==
  /\ pc = "flush"
  /\ LET closed == ~cancelled /\ ~worker.progressed /\ watch.peerClosed IN
       /\ worker' = [worker EXCEPT !.result = IF closed THEN "PeerClosed" ELSE @]
       /\ pc' = IF cancelled \/ closed THEN "finish"
                ELSE IF worker.progressed THEN "loop" ELSE "wait"
  /\ UNCHANGED <<gate, events, auth, control, router, watch, host, history>>

\* transport->wait(): woken...
WaitWoken ==
  /\ pc = "wait" /\ control[generation].woken
  /\ control' = [control EXCEPT ![generation].woken = FALSE]
  /\ pc' = "loop"
  /\ UNCHANGED <<gate, events, auth, router, worker, watch, host, history>>

\* ... or readable, writable, at a deadline, or with the peer's end of stream.
WaitReturns(fin) ==
  /\ pc = "wait"
  /\ watch' = [watch EXCEPT !.peerClosed = @ \/ fin]
  /\ pc' = "loop"
  /\ UNCHANGED <<gate, events, auth, control, router, worker, host, history>>

\* The start, the transport or a thread fails outside the protocol.
TransportThrows ==
  /\ pc \in {"start", "started", "flush", "wait"}
  /\ worker' = [worker EXCEPT !.result = "Failure"]
  /\ pc' = "finish"
  /\ UNCHANGED <<gate, events, auth, control, router, watch, host, history>>

\* A publication of the worker finds no room before there is a connection...
SetupOverflows ==
  /\ pc = "prepare" \/ (pc = "connecting" /\ ~cancelled)
  /\ CanOverflow
  /\ router' = generation
  /\ events' = Overflowed(events)
  /\ worker' = [worker EXCEPT !.result = "Failure"]
  /\ pc' = "finish"
  /\ UNCHANGED <<gate, auth, control, watch, host, history>>

\* ... or once there is one; a command publishes when it requests a layout.
PublishOverflows ==
  /\ pc \in {"start", "execute", "message"}
  /\ pc = "execute" => events.op[worker.executing].kind = "DesktopLayout"
  /\ CanOverflow
  /\ Thrown("Failure", Overflowed(events))
  /\ UNCHANGED history

----------------------------------------------------------------------------
(* Worker thread: the end of an attempt and of the session *)

FinalResult ==
  IF events.sealed THEN "EventOverflow"
  ELSE IF cancelled THEN "Cancelled"
  ELSE IF watch.failed THEN "Failure" ELSE worker.result

\* "This is the terminal-reason boundary."
TerminalBoundary ==
  /\ pc = "finish"
  /\ gate' = [QueueCleared(gate) EXCEPT !.finishing = TRUE, !.commandsClosed = TRUE]
  /\ worker' = [worker EXCEPT !.result = FinalResult, !.progressed = FALSE, !.drained = 0]
  /\ events' = QueueFinished(events, IF FinalResult \in Orderly THEN "Cancelled" ELSE "Failed")
  /\ pc' = "disconnecting"
  /\ UNCHANGED <<auth, control, router, watch, host, history>>

\* Mutant: the terminal state is announced before the clean-up.
PublishDisconnecting_Terminal ==
  /\ pc = "disconnecting"
  /\ events' = Published(events, "Closed")
  /\ pc' = "closing"
  /\ UNCHANGED <<gate, auth, control, router, worker, watch, host, history>>

PublishDisconnecting ==
  /\ pc = "disconnecting"
  /\ \/ events' = Published(events, "Disconnecting") /\ UNCHANGED worker
     \/ /\ CanOverflow /\ events' = Overflowed(events)
        /\ worker' = [worker EXCEPT !.result = "EventOverflow"]
  /\ pc' = "closing"
  /\ UNCHANGED <<gate, auth, control, router, watch, host, history>>

\* auth->cancelPending() and protocol->close().
CloseProtocol ==
  /\ pc = "closing"
  /\ auth' = Interrupted(auth, "Cancelled")
  /\ worker' = Finished(worker)
  /\ events' = Ended(events, worker.result \notin Orderly)
  /\ pc' = "cancelling"
  /\ UNCHANGED <<gate, control, router, watch, host, history>>

\* Mutant: wake() in place of cancel().
CancelControl_Wakes ==
  /\ pc = "cancelling"
  /\ control' = [control EXCEPT ![generation] = Signalled(@, Target(generation), "wake")]
  /\ pc' = "joining"
  /\ UNCHANGED <<gate, events, auth, router, worker, watch, host, history>>

\* control->cancel(), which makes waitPeerClosure() return.
CancelControl ==
  /\ pc = "cancelling"
  /\ control' = [control EXCEPT ![generation] = Signalled(@, Target(generation), "cancel")]
  /\ pc' = "joining"
  /\ UNCHANGED <<gate, events, auth, router, worker, watch, host, history>>

Joinable == watch.observer \in {"none", "done"}

\* observer.join(), transport.reset() and, in run(), wakeup->install(nullptr).
JoinObserver ==
  /\ pc = "joining"
  /\ Joinable
  /\ watch' = [watch EXCEPT !.observer = IF @ = "done" THEN "none" ELSE @]
  /\ worker' = [worker EXCEPT !.transport = FALSE]
  /\ router' = 0
  /\ pc' = "retire"
  /\ UNCHANGED <<gate, events, auth, control, host, history>>

TerminalState == IF worker.result \in Orderly THEN "Closed" ELSE "Failed"

\* Mutant: the disconnect is forgotten.
Settled_ConnectOnly(e) ==
  Completed(e, {gate.connectOperation},
            IF worker.result = "Cancelled" THEN "Cancelled" ELSE "Failed")

\* The connect's completion, unless it succeeded, and then the disconnect's.
Settled(e) ==
  Completed(Completed(e, {gate.connectOperation},
                      IF worker.result = "Cancelled" THEN "Cancelled" ELSE "Failed"),
            {gate.disconnectOperation}, "Succeeded")

Retired(g, sealed) ==
  [g EXCEPT !.attemptActive = FALSE, !.connectOperation = 0, !.disconnectOperation = 0,
            !.stopping = @ \/ sealed]

\* The terminal state is published under the admission gate, after the clean-up.
Retire ==
  /\ pc = "retire"
  /\ \/ events' = Settled(Published(events, TerminalState)) /\ UNCHANGED worker
     \/ /\ CanOverflow /\ events' = Overflowed(events)
        /\ worker' = [worker EXCEPT !.result = "EventOverflow"]
  /\ gate' = Retired(gate, events'.sealed)
  /\ control' = [control EXCEPT ![generation] = NoControl]
  /\ pc' = "idle"
  /\ UNCHANGED <<auth, router, watch, host, history>>

\* The end of run(): a session that never connected is reported Closed.
Exit ==
  /\ pc = "exit"
  /\ auth' = Interrupted(auth, "Cancelled")
  /\ events' = [Completed(events, Ids, "Cancelled") EXCEPT !.sealed = TRUE,
                  !.state = IF ~events.sealed /\ @ = "Idle" THEN "Closed" ELSE @]
  /\ pc' = "exited"
  /\ UNCHANGED <<gate, control, router, worker, watch, host, history>>

----------------------------------------------------------------------------
(* Observer thread: observe() *)

\* waitPeerClosure() reported the peer's end, or threw.
ObserverSees(failed) ==
  /\ watch.observer = "watching"
  /\ watch' = [watch EXCEPT !.observer = "auth", !.peerClosed = @ \/ ~failed,
                 !.failed = @ \/ failed]
  /\ UNCHANGED <<gate, events, auth, control, router, pc, worker, host, history>>

ObserverAuth ==
  /\ watch.observer = "auth"
  /\ auth' = Interrupted(auth, "PeerClosed")
  /\ watch' = [watch EXCEPT !.observer = "wake"]
  /\ UNCHANGED <<gate, events, control, router, pc, worker, host, history>>

ObserverWakes ==
  /\ watch.observer = "wake"
  /\ control' = [control EXCEPT ![generation] = Signalled(@, Target(generation), "wake")]
  /\ watch' = [watch EXCEPT !.observer = "done"]
  /\ UNCHANGED <<gate, events, auth, router, pc, worker, host, history>>

ObserverCancelled ==
  /\ watch.observer = "watching" /\ control[generation].stopped
  /\ watch' = [watch EXCEPT !.observer = "done"]
  /\ UNCHANGED <<gate, events, auth, control, router, pc, worker, host, history>>

----------------------------------------------------------------------------
Init ==
  /\ gate = [stopping |-> FALSE, attemptActive |-> FALSE, pendingAttempt |-> FALSE,
             generation |-> 0, connectOperation |-> 0, disconnectOperation |-> 0,
             commandsClosed |-> FALSE, finishing |-> FALSE, cancelled |-> FALSE,
             revision |-> 1, commands |-> <<>>, queued |-> [kind \in Exclusive |-> 0]]
  /\ events = [op |-> [id \in Ids |-> [kind |-> "none", generation |-> 0, result |-> "none"]],
               issued |-> 0, sealed |-> FALSE, state |-> "Idle", generation |-> 0]
  /\ auth = [accepting |-> FALSE, generation |-> 0, status |-> "Cancelled"]
  /\ control = [g \in Generations |-> NoControl]
  /\ router = 0
  /\ pc = "idle"
  /\ worker = [executing |-> 0, drained |-> 0, progressed |-> FALSE, transport |-> FALSE,
               ready |-> FALSE, resizeOperation |-> 0, resizePending |-> FALSE,
               unanswered |-> 0, result |-> "None"]
  /\ watch = [observer |-> "none", peerClosed |-> FALSE, failed |-> FALSE]
  /\ host = [h \in Hosts |-> Idle]
  /\ history = [revoked |-> {}, executed |-> {}, closed |-> {}]

HostCalls(h) ==
  \/ Connect(h) \/ Cancel(h) \/ ReserveOverflows(h)
  \/ \E g \in Generations :
       \/ Disconnect(h, g)
       \/ \E id \in Ids : CancelConnect(h, g, id) \/ CancelQueued(h, g, id)
       \/ \E kind \in CommandKinds : Submit(h, kind, g)
  \/ \E g \in 0 .. MaxGeneration, revision \in 1 .. MaxRevision : SetSecurity(h, g, revision)

HostRuns(h) ==
  HostAuth(h) \/ HostRequest(h) \/ HostWake(h) \/ HostDeliver(h) \/ HostNotify(h)

\* What the worker does without waiting for the peer, the user or the clock.
WorkerRuns ==
  \/ WaitForAttempt \/ PrepareAttempt \/ ConnectFails("Cancelled")
  \/ StartCheck \/ Start \/ Started
  \/ LoopHead \/ Dequeue \/ ExecuteOk \/ ExecuteRefused \/ Dispatch(FALSE)
  \/ Message(FALSE) \/ PromptInterrupted \/ ConnectBoundary \/ Flush \/ WaitWoken
  \/ TerminalBoundary \/ PublishDisconnecting \/ CloseProtocol \/ CancelControl
  \/ JoinObserver \/ Retire \/ Exit

\* What the network, the user and the clock make of it.
Environment ==
  \/ ConnectPhase \/ ConnectFails("Failure") \/ ConnectReturns
  \/ ExecuteThrows \/ Dispatch(TRUE)
  \/ Message(TRUE) \/ MessageConnects \/ MessagePrompts
  \/ \E r \in {"Succeeded", "Failed"} : MessageResizes(r)
  \/ \E code \in {"PeerClosed", "Failure"} : MessageThrows(code)
  \/ PromptAnswered \/ PromptTimesOut
  \/ \E fin \in BOOLEAN : WaitReturns(fin)
  \/ TransportThrows \/ SetupOverflows \/ PublishOverflows
  \/ \E failed \in BOOLEAN : ObserverSees(failed)

ObserverRuns == ObserverAuth \/ ObserverWakes \/ ObserverCancelled

Next ==
  \/ \E h \in Hosts : HostCalls(h) \/ HostRuns(h)
  \/ WorkerRuns \/ ObserverRuns \/ Environment

Spec == Init /\ [][Next]_vars

\* Threads that can run do; the peer, the user and the clock owe nothing.
FairSpec ==
  /\ Spec
  /\ WF_vars(WorkerRuns) /\ WF_vars(ObserverRuns)
  /\ \A h \in Hosts : WF_vars(HostRuns(h))

----------------------------------------------------------------------------
(* Properties *)

\* Types of the session's state.
TypeOK ==
  /\ gate \in Gate /\ Len(gate.commands) <= CommandCapacity
  /\ events \in Events /\ auth \in Auth /\ worker \in Worker /\ watch \in Watch
  /\ control \in [Generations -> Control] /\ router \in 0 .. MaxGeneration

\* Between attempts nothing is left over: no operation is pending, no command
\* queued, no thread, transport or prompt alive (run(), after runAttempt()).
IdleIsSettled ==
  ~gate.attemptActive =>
    /\ Pending(events) = {} /\ gate.commands = <<>>
    /\ worker.executing = 0 /\ worker.resizeOperation = 0 /\ ~worker.transport
    /\ watch.observer = "none" /\ router = 0 /\ ~auth.accepting

\* "Disconnect success means the old transport, observer and decoder are
\* completely drained."
DisconnectMeansDrained ==
  \A id \in Ids :
    events.op[id].kind = "disconnect" /\ events.op[id].result = "Succeeded" =>
      \/ generation > events.op[id].generation
      \/ ~worker.transport /\ watch.observer = "none" /\ ~worker.ready

\* "a consumer reacting immediately cannot see a terminal state yet receive a
\* transient Busy rejection" (run()).
TerminalMeansRetry ==
  events.state \in {"Closed", "Failed"} /\ ~events.sealed /\ events.generation = generation
    => ~gate.attemptActive

Enroute(h, step) == step \in ToSet(host[h].then)
Signalling(h, target) ==
  /\ host[h].gen = generation
  /\ \/ Enroute(h, "request")
     \/ Enroute(h, "deliver") /\ host[h].target = target
          /\ (target = "setup" => host[h].how = "cancel")

\* An accepted cancellation is never lost: wherever the worker is blocked, it has
\* been signalled or a host is about to signal it (cancel(), disconnect(),
\* cancelCommand(), requestClose(), install(), start()).
CancelNeverLost ==
  cancelled =>
    /\ pc = "prompt" =>
         \/ auth.status # "Waiting"
         \/ \E h \in Hosts : Enroute(h, "auth") /\ InScope(host[h].scope)
    /\ pc = "connecting" =>
         control[generation].setupCancelled \/ \E h \in Hosts : Signalling(h, "setup")
    /\ pc = "wait" =>
         control[generation].woken \/ \E h \in Hosts : Signalling(h, "transport")

\* A delayed caller never touches a later attempt: a setup is cancelled, a close
\* requested or a prompt interrupted only for an attempt whose own cancellation
\* was accepted, or whose own peer went away (cancel(), cancelAttempt(), observe()).
NoStrayCancellation ==
  /\ \A g \in Generations : control[g].closing => g \in history.closed
  /\ ~gate.finishing /\ generation > 0 =>
       (control[generation].setupCancelled => generation \in history.closed)
  /\ pc = "prompt" => /\ auth.status = "Cancelled" => cancelled
                      /\ auth.status = "PeerClosed" => watch.peerClosed \/ watch.failed

\* Both together: a cancellation reaches its own attempt, and no other.
CancelHitsItsAttempt == CancelNeverLost /\ NoStrayCancellation

\* A connect whose cancellation was confirmed to the host never succeeds
\* (cancelCommand(), the boundary in runAttempt()).
ConfirmedCancelHolds == \A id \in history.revoked : events.op[id].result # "Succeeded"

\* A command reported Cancelled was never handed to the protocol, except a layout
\* request, whose completion waits for the reply (drainCommands()).
CancelledNeverRan ==
  \A id \in history.executed :
    events.op[id].result = "Cancelled" => events.op[id].kind = "DesktopLayout"

\* An exclusive slot belongs to a command that is queued or being executed; a
\* leaked one would answer Busy for the rest of the attempt (submit()).
SlotsNotLeaked ==
  ~gate.commandsClosed /\ pc # "finish" =>
    \A kind \in Exclusive :
      gate.queued[kind] \in {0, worker.executing} \cup ToSet(gate.commands)

\* "a late reply can never be mistaken for a subsequent request": RFB replies carry
\* no id, so at most one request is on the wire, timed out or not.
OneRequestOnWire == worker.unanswered <= 1

\* The layout slot in the gate and the one on the wire are each given back exactly when
\* their holder is gone.
SlotsAccounted == SlotsNotLeaked /\ OneRequestOnWire

\* No command is left behind in the queue by a sleeping worker (submit(), wake()).
CommandsNotStranded ==
  pc = "wait" /\ gate.commands # <<>> =>
    \/ control[generation].woken
    \/ \E h \in Hosts : Enroute(h, "wake") \/ Signalling(h, "transport")

\* The worker does not sleep through an admitted connect, a close or an overflow.
NotifyNotLost == pc = "asleep" /\ Wakeable => \E h \in Hosts : Enroute(h, "notify")

\* Wherever the worker sleeps, somebody is about to tell it of what it waits for.
WorkNotStranded == CommandsNotStranded /\ NotifyNotLost

\* A close is carried through: the worker thread ends (closeAndDrain()).
CloseDrains == gate.stopping ~> (pc = "exited")

\* An accepted disconnect completes.
DisconnectCompletes == (gate.disconnectOperation # 0) ~> (gate.disconnectOperation = 0)
=============================================================================

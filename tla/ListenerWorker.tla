--------------------------- MODULE ListenerWorker ---------------------------
(***************************************************************************)
(* Reverse connections (ListenerWorker.cxx): a worker thread accepts       *)
(* sockets and parks them until a host takes or rejects them, or they      *)
(* expire.  The mutex of the event stream guards the parked peers and the  *)
(* stop flag; each critical section is one action.                         *)
(*                                                                         *)
(* Peer ids count up and all peers get the same time, so deadlines pass in *)
(* the order of ids: `late' is the last id whose deadline has passed.  The *)
(* source (SocketListener) is external: start() and wait() may succeed or  *)
(* fail, its control is a sticky wake-up and a sticky cancel.  The         *)
(* readiness signal of the stream is that of SessionEvents and is checked  *)
(* there; here the host may take events at any time.  Addresses are left   *)
(* out.                                                                    *)
(***************************************************************************)
EXTENDS Integers, Sequences, FiniteSets, SequencesExt

CONSTANTS
  MaxPeers,        \* bound on incoming connections
  PendingCapacity, \* options.pendingCapacity
  EventCapacity,   \* options.eventCapacity, two terminal slots come on top
  MaxSequence,     \* largest event stamp, 2^64 - 1 in the code
  Hosts,           \* threads that decide about peers
  Closers          \* threads that close the listener

ASSUME ListenerAssumption ==
  /\ MaxPeers \in Nat /\ PendingCapacity \in 1 .. 64
  /\ EventCapacity \in 4 .. 4096 /\ MaxSequence \in Nat /\ MaxSequence > 3

VARIABLES
  listener,  \* what the mutex guards
  thread,    \* the worker thread and its locals
  control,   \* the source's control
  late,      \* peers 1..late are past their deadline
  host,      \* per host thread: what it does after its critical section
  holder,    \* per peer: who owns its transport
  taken      \* history: the events delivered

listenerVars == <<listener, thread, control, late, host, holder, taken>>

Peers == 1 .. MaxPeers
Outcomes == {"Accepted", "Rejected", "Expired"}
Event == [kind : {"State", "Incoming"} \cup Outcomes, peer : 0 .. MaxPeers,
          state : {"Starting", "Listening", "Stopping", "Closed", "Failed"}]

Idle == [then |-> "", peer |-> 0]

ListenerInit ==
  /\ listener = [pending |-> <<>>, nextId |-> 0, stopping |-> FALSE, failure |-> "None",
                 state |-> "Starting", sequence |-> 1,
                 queue |-> << [kind |-> "State", peer |-> 0, state |-> "Starting"] >>]
  /\ thread = [at |-> "start", deadline |-> 0]
  /\ control = [woken |-> FALSE, cancelled |-> FALSE]
  /\ late = 0
  /\ host = [h \in Hosts \cup Closers |-> Idle]
  /\ holder = [p \in Peers |-> "nobody"]
  /\ taken = <<>>

----------------------------------------------------------------------------
(* The event stream. *)

Publish(l, kind, p) ==
  [l EXCEPT !.sequence = @ + 1,
            !.queue = Append(@, [kind |-> kind, peer |-> p, state |-> l.state])]

NoRoom_OffByOne(l) ==  \* mutant: one event too many is taken for one that fits
  Len(l.queue) > EventCapacity \/ l.sequence >= MaxSequence - 2
NoRoom(l) == Len(l.queue) >= EventCapacity \/ l.sequence >= MaxSequence - 2

Overflow(l) == [l EXCEPT !.failure = "EventOverflow", !.stopping = TRUE]

\* emit(): without room the listener stops instead.
Emit(l, kind, p) == IF NoRoom(l) THEN Overflow(l) ELSE Publish(l, kind, p)

\* The consumer's take().
Take ==
  /\ listener.queue # <<>>
  /\ listener' = [listener EXCEPT !.queue = Tail(@)]
  /\ taken' = Append(taken, Head(listener.queue))
  /\ UNCHANGED <<thread, control, late, host, holder>>

----------------------------------------------------------------------------
(* Hosts: consume() and cancel(). *)

Free(h) == host[h].then = ""
Late(p) == p <= late

\* changed.notify_all().
Roused(t) == IF t.at = "full" THEN [at |-> "loop", deadline |-> 0] ELSE t

\* The outcome of consume() for a peer that is still parked.
Outcome(p, accept) ==
  IF Late(p) THEN "Expired" ELSE IF accept THEN "Accepted" ELSE "Rejected"

Unparked_Kept(l, p) == l  \* mutant: the entry stays in the list
Unparked(l, p) == [l EXCEPT !.pending = RemoveFirst(@, p)]

\* The signals follow the unlock at once: control->wake(), which the control keeps
\* until the next wait, and notify_all().  Then an accepted peer's transport is the
\* caller's, any other is closed.
Consume(h, p, accept) ==
  /\ Free(h) /\ ~listener.stopping /\ p \in ToSet(listener.pending)
  /\ LET outcome == Outcome(p, accept) IN
     IF NoRoom(listener)
     THEN /\ listener' = Overflow(listener)
          /\ UNCHANGED <<host, holder>>
     ELSE /\ listener' = Emit(Unparked(listener, p), outcome, p)
          /\ IF outcome = "Accepted"
             THEN /\ host' = [host EXCEPT ![h] = [then |-> "start", peer |-> p]]
                  /\ holder' = [holder EXCEPT ![p] = "host"]
             ELSE /\ holder' = [holder EXCEPT ![p] = "closed"] /\ UNCHANGED host
  /\ control' = [control EXCEPT !.woken = TRUE]
  /\ thread' = Roused(thread)
  /\ UNCHANGED <<late, taken>>

\* cancel(): from closeAndDrain(), the handle's release or the listener runtime.  It
\* has no effect on a worker that is already stopping.
Cancel(h) ==
  /\ Free(h) /\ ~control.cancelled /\ thread.at \notin {"stop", "dispose", "done"}
  /\ listener' = [listener EXCEPT !.stopping = TRUE]
  /\ host' = [host EXCEPT ![h] = [then |-> "cancel", peer |-> 0]]
  /\ UNCHANGED <<thread, control, late, holder, taken>>

CancelControl(h) ==
  /\ host[h].then = "cancel"
  /\ control' = [control EXCEPT !.cancelled = TRUE]
  /\ thread' = Roused(thread)
  /\ host' = [host EXCEPT ![h] = Idle]
  /\ UNCHANGED <<listener, late, holder, taken>>

----------------------------------------------------------------------------
(* The worker thread: run(). *)

At(step) == thread.at = step
Go(step) == thread' = [at |-> step, deadline |-> 0]

\* source->start(), then the Listening event unless a stop came first.
Start ==
  /\ At("start") /\ ~control.cancelled
  /\ Go("loop")
  /\ listener' = IF listener.stopping THEN listener
                 ELSE Emit([listener EXCEPT !.state = "Listening"], "State", 0)
  /\ UNCHANGED <<control, late, host, holder, taken>>

\* start() or wait() throws, always so once cancelled, or what arrived is not valid;
\* the first failure is kept.
SourceFails ==
  /\ thread.at \in {"start", "wait", "arrived"}
  /\ listener' = IF listener.stopping \/ listener.failure # "None" THEN listener
                 ELSE [listener EXCEPT !.failure = "Source"]
  /\ Go("stop")
  /\ UNCHANGED <<control, late, host, holder, taken>>

Oldest == IF listener.pending = <<>> THEN 0 ELSE Head(listener.pending)

\* The deadline of the next wait, 0 for none.
WaitUntil == Oldest

\* The head of the loop: leave, expire the oldest peer, wait for room, or go on.
Loop ==
  /\ At("loop")
  /\ \/ /\ listener.stopping
        /\ Go("stop") /\ UNCHANGED <<listener, holder>>
     \/ /\ ~listener.stopping /\ Oldest # 0 /\ Late(Oldest)
        /\ listener' = Emit(Unparked(listener, Oldest), "Expired", Oldest)
        /\ holder' = [holder EXCEPT ![Oldest] = "closed"]
        /\ UNCHANGED thread
     \/ /\ ~listener.stopping /\ ~(Oldest # 0 /\ Late(Oldest))
        /\ thread' = [at |-> IF Len(listener.pending) = PendingCapacity THEN "full" ELSE "wait",
                      deadline |-> WaitUntil]
        /\ UNCHANGED <<listener, holder>>
  /\ UNCHANGED <<control, late, host, taken>>

\* wait_until() times out, or wakes spuriously.
FullTimesOut ==
  /\ At("full") /\ thread.deadline # 0 /\ Late(thread.deadline)
  /\ Go("loop")
  /\ UNCHANGED <<listener, control, late, host, holder, taken>>

\* source->wait() returns nothing: woken, or the deadline it was given has passed.
WaitReturns ==
  /\ At("wait") /\ ~control.cancelled
  /\ control.woken \/ (thread.deadline # 0 /\ Late(thread.deadline))
  /\ control' = [control EXCEPT !.woken = FALSE]
  /\ Go("loop")
  /\ UNCHANGED <<listener, late, host, holder, taken>>

\* source->wait() returns a connection.
Arrives ==
  /\ At("wait") /\ ~control.cancelled /\ ~control.woken
  /\ listener.nextId < MaxPeers
  /\ Go("arrived")
  /\ UNCHANGED <<listener, control, late, host, holder, taken>>

\* It is parked, unless a stop came first: then it is dropped with the scope.
Park ==
  /\ At("arrived")
  /\ IF listener.stopping
     THEN /\ Go("stop") /\ UNCHANGED <<listener, holder>>
     ELSE LET p == listener.nextId + 1 IN
          /\ listener' = Emit([listener EXCEPT !.nextId = p, !.pending = Append(@, p)], "Incoming", p)
          /\ holder' = [holder EXCEPT ![p] = "listener"]
          /\ Go("loop")
  /\ UNCHANGED <<control, late, host, taken>>

\* The reserved Stopping event; the parked peers become the worker's own.
BeginStop ==
  /\ At("stop")
  /\ listener' = [Publish([listener EXCEPT !.stopping = TRUE, !.state = "Stopping"], "State", 0)
                  EXCEPT !.pending = <<>>]
  /\ Go("dispose")
  /\ control' = [control EXCEPT !.woken = FALSE]  \* no wait will look at it again
  /\ UNCHANGED <<late, host, holder, taken>>

\* retired.clear() and source.reset() outside the mutex, then the last event.
End ==
  /\ At("dispose")
  /\ holder' = [p \in Peers |-> IF holder[p] = "listener" THEN "closed" ELSE holder[p]]
  /\ LET last == IF listener.failure = "None" THEN "Closed" ELSE "Failed"
     IN listener' = Publish([listener EXCEPT !.state = last], "State", 0)
  /\ Go("done")
  /\ UNCHANGED <<control, late, host, taken>>

\* A deadline passes, of those that somebody looks at.
Deadlines == ToSet(listener.pending) \cup {thread.deadline}
Tick ==
  /\ \E p \in Deadlines : /\ p > late /\ \A q \in Deadlines : q > late => p <= q
                         /\ late' = p
  /\ UNCHANGED <<listener, thread, control, host, holder, taken>>

Work == Start \/ (control.cancelled /\ SourceFails) \/ Loop \/ FullTimesOut \/ WaitReturns
        \/ Park \/ BeginStop \/ End

\* A host that accepted a peer goes on in the composition.
ListenerNext ==
  \/ Work \/ SourceFails \/ Arrives \/ Tick \/ Take
  \/ \E h \in Hosts, p \in Peers, accept \in BOOLEAN : Consume(h, p, accept)
  \/ \E h \in Closers : Cancel(h) \/ CancelControl(h)

\* Threads are scheduled, time passes and the host takes events.  That a source
\* fails, a peer connects or a host decides is never promised.
ListenerFairness ==
  /\ WF_listenerVars(Work) /\ WF_listenerVars(Tick) /\ WF_listenerVars(Take)
  /\ \A h \in Closers : WF_listenerVars(CancelControl(h))
=============================================================================

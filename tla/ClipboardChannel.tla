-------------------------- MODULE ClipboardChannel --------------------------
(***************************************************************************)
(* The clipboard of a session: ClipboardChannel, the host's threads that   *)
(* take() and offer text, and the worker that serves the server            *)
(* (ProtocolSession's Connection and CConnection).                         *)
(*                                                                         *)
(* A text is the route it was made for: attempt, routing revision of the   *)
(* input queue and revision of the policy.  route() and check() read the   *)
(* input status under one lock and the policy under another, so each of    *)
(* them is two steps, between which anything may change.  The texts        *)
(* themselves are left out, and whether the budget has room for one is a   *)
(* choice.                                                                 *)
(* The host takes and offers on one thread (its UI executor), while focus, *)
(* view-only and policy may be changed by any.                             *)
(***************************************************************************)
EXTENDS Integers

CONSTANTS
  Peers,         \* kinds of server: "legacy", "notify", "unsolicited"
  MaxChanges,    \* bound: changes of focus or view-only, and attempts that end
  MaxPolicy      \* bound: policy revisions

ASSUME ClipboardAssumption ==
  /\ Peers \subseteq {"legacy", "notify", "unsolicited"} /\ Peers # {}
  /\ {MaxChanges, MaxPolicy} \subseteq Nat \ {0}

VARIABLES
  input,    \* status of the InputQueue
  policy,   \* ClipboardPolicy and its revision
  mailbox,  \* latest and changed: what the server published, and for which route
  threads,  \* where the host and the worker are in their calls
  queued,   \* the clipboard command of the session worker
  conn,     \* the connection: local and remote clipboard state
  takeable, \* history: routes current and allowed at some instant of the running take()
  sendable  \* history: routes current and allowed at some instant of the worker's handler

vars == <<input, policy, mailbox, threads, queued, conn, takeable, sendable>>

NoRoute == [generation |-> 0, focus |-> 0, policy |-> 0]
RouteOf(in, p) == [generation |-> in.generation, focus |-> in.focus, policy |-> p.revision]

NoCommand == [kind |-> "None", route |-> NoRoute, running |-> FALSE]
\* A session whose window has the focus; `eligible' is focused and not view-only.
NotConnected ==
  [generation |-> 1, focus |-> 1, connected |-> FALSE, eligible |-> TRUE]
Idle == [at |-> "idle", then |-> "", read |-> NotConnected, route |-> NoRoute, ok |-> FALSE]
Disconnected == [active |-> FALSE, caps |-> "", local |-> NoRoute, hasLocal |-> FALSE,
                 pending |-> FALSE, requestRoute |-> NoRoute]

\* The check itself, on an input status and a policy read one after the other.
Accepts(in, p, route, sending) ==
  /\ route = RouteOf(in, p)
  /\ in.connected /\ in.eligible
  /\ IF sending THEN p.send ELSE p.receive

\* The route, if any, that is current and allowed in one state.
Now(in, p, sending) == {r \in {RouteOf(in, p)} : Accepts(in, p, r, sending)}

Published(route) == [route |-> route, changed |-> TRUE]
Invalidated == Published(NoRoute)
\* Nobody looks at an update once it was taken.
Taken == [Invalidated EXCEPT !.changed = FALSE]

Init ==
  /\ input = NotConnected
  /\ policy = [send |-> TRUE, receive |-> TRUE, revision |-> 1]
  /\ mailbox = Taken
  /\ threads = [t \in {"host", "worker"} |-> Idle]
  /\ queued = NoCommand /\ conn = Disconnected
  /\ takeable = {} /\ sendable = {}

----------------------------------------------------------------------------
(* route() and check() *)

At(t, at) == threads[t].at = at
Goes(t, state) == threads' = [threads EXCEPT ![t] = state]

\* Thread t begins route() followed by check(), or check() alone, with the input status,
\* and goes on at `then'.
Routed(then) == [Idle EXCEPT !.at = "routed", !.then = then, !.read = input]
Checked(route, then) == [Idle EXCEPT !.at = "verdict", !.then = then, !.read = input, !.route = route]

\* The policy completes the route, ...
ReadRoute(t) ==
  /\ At(t, "routed")
  /\ Goes(t, [threads[t] EXCEPT !.route = RouteOf(threads[t].read, policy), !.read = NotConnected,
                                !.at = IF threads[t].then = "data" THEN "data" ELSE "check"])
  /\ UNCHANGED <<input, policy, mailbox, queued, conn, takeable, sendable>>

\* ... which check() compares with the input status, read once more, ...
ReadInput(t) ==
  /\ At(t, "check")
  /\ Goes(t, Checked(threads[t].route, threads[t].then))
  /\ UNCHANGED <<input, policy, mailbox, queued, conn, takeable, sendable>>

\* ... and the policy.
ToSend == {"prepare", "submit", "sync", "serve", "offer"}
Passes(t) == Accepts(threads[t].read, policy, threads[t].route, threads[t].then \in ToSend)
\* What follows on the thread's own state alone is part of the step.
Decides(t, then) == At(t, "verdict") /\ threads[t].then = then
Verdict(t) ==
  /\ At(t, "verdict") /\ threads[t].then \notin {"submit", "sync", "serve", "request", "received"}
  /\ Goes(t, [threads[t] EXCEPT !.ok = Passes(t), !.read = NotConnected, !.at = threads[t].then])
  /\ UNCHANGED <<input, policy, mailbox, queued, conn, takeable, sendable>>

----------------------------------------------------------------------------
(* Who may exchange text changes at any time. *)

Taking == threads["host"].then = "take"
Sending == threads["worker"].then \in {"serve", "offer"}

MayChange == input.generation + input.focus < MaxChanges + 2
Observed ==
  /\ takeable' = IF Taking THEN takeable \cup Now(input', policy', FALSE) ELSE {}
  /\ sendable' = IF Sending THEN sendable \cup Now(input', policy', TRUE) ELSE {}

\* setFocused(), setViewOnly() and releaseAll(): each one starts a new route.
Reroute ==
  /\ MayChange
  /\ \E eligible \in BOOLEAN :
       input' = [input EXCEPT !.focus = @ + 1, !.eligible = eligible]
  /\ UNCHANGED <<policy, mailbox, threads, queued, conn>>
  /\ Observed

SetPolicy(send, receive) ==
  /\ policy.revision < MaxPolicy /\ <<send, receive>> # <<policy.send, policy.receive>>
  /\ policy' = [send |-> send, receive |-> receive, revision |-> policy.revision + 1]
  /\ mailbox' = Invalidated
  /\ UNCHANGED <<input, threads, queued, conn>>
  /\ Observed

----------------------------------------------------------------------------
(* The host: take() and offerClipboard(). *)

BeginTake ==
  /\ At("host", "idle")
  /\ Goes("host", Routed("take"))
  /\ takeable' = Now(input, policy, FALSE)
  /\ UNCHANGED <<input, policy, mailbox, queued, conn, sendable>>

\* take() gives out nothing whose route is not the one just found to be allowed.
Given_Attempt(t) ==  \* mutant
  IF t.ok /\ mailbox.changed /\ mailbox.route.generation = t.route.generation THEN mailbox.route ELSE NoRoute
Given(t) == IF t.ok /\ mailbox.changed /\ mailbox.route = t.route THEN mailbox.route ELSE NoRoute

Take ==
  /\ At("host", "take")
  /\ Goes("host", [threads["host"] EXCEPT !.at = "taken", !.route = Given(threads["host"])])
  /\ mailbox' = Taken
  /\ UNCHANGED <<input, policy, queued, conn, takeable, sendable>>

EndTake ==
  /\ At("host", "taken")
  /\ Goes("host", Idle) /\ takeable' = {}
  /\ UNCHANGED <<input, policy, mailbox, queued, conn, sendable>>

BeginOffer ==
  /\ At("host", "idle")
  /\ Goes("host", Routed("prepare"))
  /\ UNCHANGED <<input, policy, mailbox, queued, conn, takeable, sendable>>

\* The rest of prepareLocal(), where the text may be refused, and submit() up to its check().
Prepare ==
  /\ At("host", "prepare")
  /\ \/ /\ threads["host"].ok /\ queued = NoCommand
        /\ Goes("host", Checked(threads["host"].route, "submit"))
     \/ Goes("host", Idle)
  /\ UNCHANGED <<input, policy, mailbox, queued, conn, takeable, sendable>>

Submit ==
  /\ Decides("host", "submit")
  /\ queued' = IF Passes("host")
               THEN [kind |-> "Offer", route |-> threads["host"].route, running |-> FALSE]
               ELSE queued
  /\ Goes("host", Idle)
  /\ UNCHANGED <<input, policy, mailbox, conn, takeable, sendable>>

\* submit() holds commandMutex from its tests to the queue.
MutexFree == threads["host"].then # "submit"

SubmitClear ==
  /\ MutexFree /\ queued = NoCommand /\ conn.active /\ input.connected
  /\ queued' = [kind |-> "Clear", route |-> NoRoute, running |-> FALSE]
  /\ UNCHANGED <<input, policy, mailbox, threads, conn, takeable, sendable>>

CancelCommand ==
  /\ MutexFree /\ queued # NoCommand /\ ~queued.running
  /\ queued' = NoCommand
  /\ UNCHANGED <<input, policy, mailbox, threads, conn, takeable, sendable>>

----------------------------------------------------------------------------
(* The worker *)

Ready == conn.active /\ input.connected /\ At("worker", "idle")
Finished == IF queued.running THEN NoCommand ELSE queued
Begins == sendable' = Now(input, policy, TRUE)

\* announceClipboard(FALSE).
Withdrawn(c) == [c EXCEPT !.local = NoRoute, !.hasLocal = FALSE]

\* drainInput(): syncClipboard() looks whether the offered text may still be sent.
DrainInput ==
  /\ Ready /\ conn.local # NoRoute
  /\ Goes("worker", Checked(conn.local, "sync"))
  /\ UNCHANGED <<input, policy, mailbox, queued, conn, takeable, sendable>>

\* handleClipboardRequest(); a server that asks for what it was not told of is ignored.
ServerRequests ==
  /\ Ready /\ conn.caps # "legacy" /\ conn.hasLocal /\ conn.local # NoRoute
  /\ Goes("worker", Checked(conn.local, "serve"))
  /\ Begins
  /\ UNCHANGED <<input, policy, mailbox, queued, conn, takeable>>

\* The text stays with the connection only if it may still be sent.
Kept(c) == IF Passes("worker") THEN c ELSE Withdrawn(c)
Served_Offered == IF threads["worker"].then = "serve" THEN conn.local ELSE NoRoute  \* mutant
Served == IF threads["worker"].then = "serve" /\ Passes("worker") THEN conn.local ELSE NoRoute

\* The end of syncClipboard(), and of handleClipboardRequest(), which then sends the text.
Sync ==
  /\ Decides("worker", "sync") \/ Decides("worker", "serve")
  /\ conn' = Kept(conn)
  /\ Goes("worker", [threads["worker"] EXCEPT !.at = "served", !.read = NotConnected, !.route = Served])
  /\ UNCHANGED <<input, policy, mailbox, queued, takeable, sendable>>

EndServe ==
  /\ At("worker", "served")
  /\ Goes("worker", Idle) /\ queued' = Finished /\ sendable' = {}
  /\ UNCHANGED <<input, policy, mailbox, conn, takeable>>

\* drainCommands(): the offer is checked once more.
RunOffer ==
  /\ Ready /\ MutexFree /\ queued.kind = "Offer"
  /\ queued' = [queued EXCEPT !.running = TRUE]
  /\ Goes("worker", Checked(queued.route, "offer"))
  /\ Begins
  /\ UNCHANGED <<input, policy, mailbox, conn, takeable>>

\* What the mailbox holds gives way to the host's own text.
Superseded_Kept == mailbox  \* mutant
Superseded == Invalidated

\* offerClipboard(): announced, or sent at once through handleClipboardRequest().
Offer ==
  /\ At("worker", "offer")
  /\ LET accepted == threads["worker"].ok
         sends == accepted /\ conn.caps # "notify"
     IN /\ mailbox' = IF accepted THEN Superseded ELSE mailbox
        /\ conn' = IF accepted THEN [conn EXCEPT !.local = queued.route, !.hasLocal = TRUE] ELSE conn
        /\ queued' = IF sends THEN queued ELSE Finished
        /\ Goes("worker", IF sends THEN Checked(queued.route, "serve") ELSE Idle)
        /\ sendable' = IF sends THEN sendable ELSE {}
  /\ UNCHANGED <<input, policy, takeable>>

RunClear ==
  /\ Ready /\ MutexFree /\ queued.kind = "Clear"
  /\ queued' = NoCommand /\ conn' = Withdrawn(conn)
  /\ UNCHANGED <<input, policy, mailbox, threads, takeable, sendable>>

\* serverCutText(), handleClipboardNotify() and handleClipboardAnnounce().
ServerAnnounces(available) ==
  /\ Ready /\ (conn.caps = "legacy" => available)
  /\ conn' = [conn EXCEPT !.local = NoRoute, !.hasLocal = @ /\ ~available,
                          !.pending = @ /\ available,
                          !.requestRoute = IF available THEN @ ELSE NoRoute]
  /\ Goes("worker", Routed(IF available THEN "offered" ELSE "unavailable"))
  /\ UNCHANGED <<input, policy, mailbox, queued, takeable, sendable>>

\* offerRemote(), and on to the request.
OfferRemote ==
  /\ At("worker", "offered") \/ At("worker", "unavailable")
  /\ LET worker == threads["worker"] IN
     /\ mailbox' = IF ~worker.ok THEN mailbox
                   ELSE Published(worker.route)
     /\ Goes("worker", IF worker.at = "offered" THEN Routed("request")
                       ELSE Idle)
  /\ UNCHANGED <<input, policy, queued, conn, takeable, sendable>>

\* requestClipboard(): legacy text is there already, otherwise the server is asked.
RequestRemote ==
  /\ Decides("worker", "request")
  /\ LET route == threads["worker"].route IN
     /\ conn' = IF Passes("worker") /\ conn.caps # "legacy"
                THEN [conn EXCEPT !.pending = TRUE, !.requestRoute = route] ELSE conn
     /\ Goes("worker", IF Passes("worker") /\ conn.caps = "legacy"
                       THEN Checked(route, "received") ELSE Idle)
  /\ UNCHANGED <<input, policy, mailbox, queued, takeable, sendable>>

\* handleClipboardProvide(): an answer, or text that was not asked for.
ServerProvides ==
  /\ Ready /\ conn.caps # "legacy"
  /\ Goes("worker", IF conn.pending
                    THEN [Idle EXCEPT !.at = "data", !.route = conn.requestRoute]
                    ELSE Routed("data"))
  /\ UNCHANGED <<input, policy, mailbox, queued, conn, takeable, sendable>>

\* handleClipboardData(), up to the first check of receive().
HandleData ==
  /\ At("worker", "data")
  /\ conn' = [(IF conn.local # NoRoute THEN Withdrawn(conn) ELSE conn)
               EXCEPT !.pending = FALSE, !.requestRoute = NoRoute]
  /\ Goes("worker", Checked(threads["worker"].route, "received"))
  /\ UNCHANGED <<input, policy, mailbox, queued, takeable, sendable>>

\* receive() gives the old text up before it makes the new one, ...
Receive ==
  /\ Decides("worker", "received")
  /\ Goes("worker", IF Passes("worker") THEN Checked(threads["worker"].route, "publish") ELSE Idle)
  /\ UNCHANGED <<input, policy, mailbox, queued, conn, takeable, sendable>>

\* ... which is published, or its refusal is, if the route still holds.
Publish ==
  /\ At("worker", "publish")
  /\ mailbox' = IF threads["worker"].ok THEN Published(threads["worker"].route) ELSE mailbox
  /\ Goes("worker", Idle)
  /\ UNCHANGED <<input, policy, queued, conn, takeable, sendable>>

\* start(), and later initDone().
Start(caps) ==
  /\ At("worker", "idle") /\ ~conn.active
  /\ conn' = [Disconnected EXCEPT !.active = TRUE, !.caps = caps]
  /\ mailbox' = Invalidated
  /\ UNCHANGED <<input, policy, threads, queued, takeable, sendable>>

Connected ==
  /\ At("worker", "idle") /\ conn.active /\ ~input.connected
  /\ input' = [input EXCEPT !.connected = TRUE]
  /\ UNCHANGED <<policy, mailbox, threads, queued, conn>>
  /\ Observed

\* finish(): the mailbox first, then the input queue and the connection.
Finish ==
  /\ At("worker", "idle") /\ conn.active /\ MayChange
  /\ mailbox' = Invalidated
  /\ Goes("worker", [threads["worker"] EXCEPT !.at = "ending"])
  /\ UNCHANGED <<input, policy, queued, conn, takeable, sendable>>

End ==
  /\ At("worker", "ending") /\ MutexFree
  /\ input' = [input EXCEPT !.generation = @ + 1, !.connected = FALSE]
  /\ conn' = Disconnected /\ queued' = NoCommand
  /\ Goes("worker", Idle)
  /\ UNCHANGED <<policy, mailbox>>
  /\ Observed

----------------------------------------------------------------------------

Looks(t) == ReadInput(t) \/ ReadRoute(t) \/ Verdict(t)
HostCall == Looks("host") \/ Take \/ EndTake \/ Prepare \/ Submit
Worker ==
  \/ Looks("worker") \/ Sync \/ EndServe \/ Offer \/ OfferRemote \/ RequestRemote
  \/ HandleData \/ Receive \/ Publish \/ End
Host ==
  \/ Reroute \/ BeginTake \/ BeginOffer \/ SubmitClear \/ CancelCommand
  \/ \E send, receive \in BOOLEAN : SetPolicy(send, receive)
Server ==
  \/ ServerRequests \/ ServerProvides \/ \E available \in BOOLEAN : ServerAnnounces(available)
Attempts == Connected \/ Finish \/ \E caps \in Peers : Start(caps)

Next == HostCall \/ Worker \/ Host \/ Server \/ Attempts \/ RunOffer \/ RunClear \/ DrainInput

Spec == Init /\ [][Next]_vars

----------------------------------------------------------------------------
(* Properties *)

\* What take() gives to the host, an announcement or a text, was received for a route that
\* was current and allowed at one instant of the call, although input status and policy are
\* read under two locks, one after the other, and twice.
TakenAllowed == At("host", "taken") => threads["host"].route \in takeable \cup {NoRoute}

\* The host's text goes to the server only if at one instant of the handler that sends it
\* its attempt, focus and policy were those it was offered under, and allowed it: a queued
\* offer, a cached one and one sent unasked alike.
SentAllowed == At("worker", "served") => threads["worker"].route \in sendable \cup {NoRoute}

\* One side owns the clipboard: while the connection holds the host's text, no announcement
\* or text of the server is waiting to overwrite it (offerClipboard(), handleClipboardData()).
OneOwner == conn.local # NoRoute => mailbox.route = NoRoute

\* "sendClipboardData() transfers the clipboard data to the server and should be called
\* whenever the server has requested the clipboard": what the server may ask for, the
\* connection still has.
AnnouncedIsServed == At("worker", "idle") /\ conn.hasLocal => conn.local # NoRoute
=============================================================================

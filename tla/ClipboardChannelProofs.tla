----------------------- MODULE ClipboardChannelProofs -----------------------
(***************************************************************************)
(* Proofs about ClipboardChannel for every kind of server, number of       *)
(* attempts, routes and policies.                                          *)
(***************************************************************************)
EXTENDS ClipboardChannel, TLAPS

USE ClipboardAssumption

----------------------------------------------------------------------------
(* The inductive invariant *)

Route == [generation : Nat, focus : Nat, policy : Nat]
Status == [generation : Nat, focus : Nat, connected : BOOLEAN, eligible : BOOLEAN]
Policy == [send : BOOLEAN, receive : BOOLEAN, revision : Nat]
Calls == {"", "take", "prepare", "submit", "sync", "serve", "offer", "offered", "unavailable",
          "request", "data", "received", "publish"}
Steps == Calls \cup {"idle", "routed", "check", "verdict", "taken", "served", "ending"}
Thread == [at : Steps, then : Calls, read : Status, route : Route, ok : BOOLEAN]
Command == [kind : {"None", "Offer", "Clear"}, route : Route, running : BOOLEAN]
Connection == [active : BOOLEAN, caps : Peers \cup {""}, local : Route, hasLocal : BOOLEAN,
               pending : BOOLEAN, requestRoute : Route]

TypeOK ==
  /\ input \in Status /\ policy \in Policy
  /\ mailbox \in [route : Route, changed : BOOLEAN]
  /\ threads \in [{"host", "worker"} -> Thread]
  /\ queued \in Command /\ conn \in Connection
  /\ takeable \subseteq Route /\ sendable \subseteq Route

\* Where a thread may be in which of its calls.
HostPlace(at, then) ==
  \/ at = "idle" /\ then = ""
  \/ at \in {"routed", "check", "verdict", "take", "taken"} /\ then = "take"
  \/ at \in {"routed", "check", "verdict", "prepare"} /\ then = "prepare"
  \/ at = "verdict" /\ then = "submit"
WorkerPlace(at, then) ==
  \/ at \in {"idle", "ending"} /\ then = ""
  \/ at \in {"verdict", "served"} /\ then \in {"sync", "serve"}
  \/ at \in {"verdict", "offer"} /\ then = "offer"
  \/ at \in {"routed", "check", "verdict", "offered"} /\ then = "offered"
  \/ at \in {"routed", "check", "verdict", "unavailable"} /\ then = "unavailable"
  \/ at \in {"routed", "check", "verdict"} /\ then = "request"
  \/ at = "routed" /\ then = "data"
  \/ at = "data" /\ then \in {"", "data"}
  \/ at = "verdict" /\ then = "received"
  \/ at \in {"verdict", "publish"} /\ then = "publish"
Places ==
  /\ HostPlace(threads["host"].at, threads["host"].then)
  /\ WorkerPlace(threads["worker"].at, threads["worker"].then)

\* No route names a policy that is still to come.
NotAhead(route) == route.policy <= policy.revision
RoutesKnown ==
  /\ NotAhead(conn.local) /\ NotAhead(conn.requestRoute) /\ NotAhead(queued.route)
  /\ NotAhead(threads["host"].route) /\ NotAhead(threads["worker"].route)

\* The histories hold what is current and allowed now, ...
Watched ==
  /\ Taking => Now(input, policy, FALSE) \subseteq takeable
  /\ Sending => Now(input, policy, TRUE) \subseteq sendable

\* ... and the route of a check that would pass, or has passed: the policy it passes under
\* was in force when the input status was read.
TakeVouched ==
  LET t == threads["host"] IN
  /\ Taking /\ t.at = "verdict" /\ Accepts(t.read, policy, t.route, FALSE) => t.route \in takeable
  /\ t.at = "take" /\ t.ok = TRUE => t.route \in takeable
SendVouched ==
  LET t == threads["worker"] IN
  Sending /\ t.at = "verdict" /\ Accepts(t.read, policy, t.route, TRUE) => t.route \in sendable

\* The text that is checked is the one that is sent, if any is.
ServesLocal ==
  LET t == threads["worker"] IN
  /\ t.at = "verdict" /\ t.then = "serve" => t.route = conn.local
  /\ t.at = "served" /\ t.then = "sync" => t.route = NoRoute

\* What comes from the server is on its way only while the host's text is gone.
Yielded ==
  threads["worker"].then \in {"offered", "unavailable", "request", "received", "publish"}
    => conn.local = NoRoute

ClipboardInv ==
  /\ TypeOK /\ Places /\ RoutesKnown /\ Watched /\ TakeVouched /\ SendVouched
  /\ ServesLocal /\ Yielded
  /\ TakenAllowed /\ SentAllowed /\ OneOwner

----------------------------------------------------------------------------
(* What the constructors of thread states and routes give *)

Records == {"host", "worker"}

LEMMA RouteFields ==
  ASSUME NEW in \in Status, NEW p \in Policy
  PROVE  /\ RouteOf(in, p) \in Route /\ RouteOf(in, p).policy = p.revision
         /\ RouteOf(in, p).generation = in.generation /\ RouteOf(in, p).focus = in.focus
         /\ NoRoute \in Route /\ NoRoute.policy = 0
BY DEF RouteOf, Route, Status, Policy, NoRoute

LEMMA Blank == NotConnected \in Status /\ NoRoute \in Route
BY DEF NotConnected, Status, NoRoute, Route

LEMMA IdleFields ==
  Idle \in Thread /\ Idle.at = "idle" /\ Idle.then = "" /\ Idle.route = NoRoute
BY Blank DEF Idle, Thread, Calls, Steps

LEMMA RoutedFields ==
  ASSUME TypeOK, NEW then \in Calls
  PROVE  /\ Routed(then) \in Thread /\ Routed(then).at = "routed" /\ Routed(then).then = then
         /\ Routed(then).read = input /\ Routed(then).route = NoRoute
BY Blank DEF TypeOK, Routed, Idle, Thread, Calls, Steps

LEMMA CheckedFields ==
  ASSUME TypeOK, NEW route \in Route, NEW then \in Calls
  PROVE  /\ Checked(route, then) \in Thread /\ Checked(route, then).at = "verdict"
         /\ Checked(route, then).then = then /\ Checked(route, then).read = input
         /\ Checked(route, then).route = route
BY Blank DEF TypeOK, Checked, Idle, Thread, Calls, Steps

LEMMA Moves ==
  ASSUME TypeOK, NEW t \in Records, NEW state \in Thread, Goes(t, state)
  PROVE  /\ threads' \in [Records -> Thread]
         /\ threads'[t] = state
         /\ \A u \in Records : u # t => threads'[u] = threads[u]
BY DEF TypeOK, Goes, Records

LEMMA ThreadFields ==
  ASSUME TypeOK, NEW t \in Records
  PROVE  /\ threads[t] \in Thread /\ threads[t].at \in Steps /\ threads[t].then \in Calls
         /\ threads[t].read \in Status /\ threads[t].route \in Route /\ threads[t].ok \in BOOLEAN
BY DEF TypeOK, Thread, Records

\* A check that begins now passes only for what is current and allowed now.
LEMMA CheckedNow ==
  ASSUME NEW in, NEW p, NEW route, NEW sending, Accepts(in, p, route, sending)
  PROVE  route \in Now(in, p, sending)
BY DEF Accepts, Now

----------------------------------------------------------------------------
(* Steps of the host, of the worker, and of those who change focus and policy *)

LEMMA HostStep ==
  ASSUME ClipboardInv, TypeOK',
         UNCHANGED <<input, policy, conn, sendable>>,
         threads'["worker"] = threads["worker"],
         HostPlace(threads'["host"].at, threads'["host"].then),
         NotAhead(threads'["host"].route), NotAhead(queued'.route),
         Taking' => Now(input, policy, FALSE) \subseteq takeable',
         TakeVouched', TakenAllowed',
         mailbox'.route \in {mailbox.route, NoRoute}
  PROVE  ClipboardInv'
<1> USE DEF ClipboardInv
<1>1. Places' BY DEF Places
<1>2. RoutesKnown' BY DEF RoutesKnown, NotAhead
<1>3. Watched' BY DEF Watched, Sending
<1>4. SendVouched' BY DEF SendVouched, Sending
<1>5. ServesLocal' /\ Yielded' BY DEF ServesLocal, Yielded
<1>6. SentAllowed' /\ OneOwner' BY DEF SentAllowed, OneOwner, At
<1> QED BY <1>1, <1>2, <1>3, <1>4, <1>5, <1>6

LEMMA WorkerStep ==
  ASSUME ClipboardInv, TypeOK',
         UNCHANGED <<input, policy, takeable>>,
         threads'["host"] = threads["host"],
         WorkerPlace(threads'["worker"].at, threads'["worker"].then),
         NotAhead(threads'["worker"].route), NotAhead(queued'.route),
         NotAhead(conn'.local), NotAhead(conn'.requestRoute),
         Sending' => Now(input, policy, TRUE) \subseteq sendable',
         SendVouched', SentAllowed', ServesLocal', Yielded', OneOwner'
  PROVE  ClipboardInv'
<1> USE DEF ClipboardInv
<1>1. Places' BY DEF Places
<1>2. RoutesKnown' BY DEF RoutesKnown, NotAhead
<1>3. Watched' BY DEF Watched, Taking
<1>4. TakeVouched' BY DEF TakeVouched, Taking
<1>5. TakenAllowed' BY DEF TakenAllowed, At
<1> QED BY <1>1, <1>2, <1>3, <1>4, <1>5

\* Either the policy stays or its revision is new to every check under way.
LEMMA ObservedStep ==
  ASSUME ClipboardInv, TypeOK', Observed, UNCHANGED threads,
         policy' = policy \/ policy'.revision > policy.revision,
         conn' = conn, queued' = queued,
         mailbox'.route \in {mailbox.route, NoRoute}
  PROVE  ClipboardInv'
<1> USE DEF ClipboardInv
<1>0. /\ Taking' = Taking /\ Sending' = Sending
      /\ Taking => takeable \subseteq takeable' /\ Now(input', policy', FALSE) \subseteq takeable'
      /\ Sending => sendable \subseteq sendable' /\ Now(input', policy', TRUE) \subseteq sendable'
  BY DEF Observed, Taking, Sending
<1>1. Places' BY DEF Places
<1>2. RoutesKnown'
  <2>1. policy.revision \in Nat /\ policy'.revision \in Nat BY DEF TypeOK, Policy
  <2>2. \A r \in Route : NotAhead(r) => NotAhead(r)' BY <2>1 DEF NotAhead, Route
  <2> QED BY <2>2, ThreadFields DEF RoutesKnown, Records, TypeOK, Connection, Command
<1>3. Watched' BY <1>0 DEF Watched
<1>4. ASSUME NEW in, NEW r \in Route, NEW sending, NotAhead(r), Accepts(in, policy', r, sending)
      PROVE  policy' = policy
  BY <1>4 DEF NotAhead, Accepts, RouteOf, Route, TypeOK, Policy
<1>5. TakeVouched'
  BY <1>0, <1>4, ThreadFields DEF TakeVouched, RoutesKnown, Records, Taking, Places, HostPlace
<1>6. SendVouched'
  BY <1>0, <1>4, ThreadFields DEF SendVouched, RoutesKnown, Records
<1>7. TakenAllowed' BY <1>0 DEF TakenAllowed, At, Taking, Places, HostPlace
<1>8. SentAllowed' BY <1>0 DEF SentAllowed, At, Sending, Places, WorkerPlace, ServesLocal
<1>9. ServesLocal' /\ Yielded' /\ OneOwner' BY DEF ServesLocal, Yielded, OneOwner
<1> QED BY <1>1, <1>2, <1>3, <1>5, <1>6, <1>7, <1>8, <1>9

----------------------------------------------------------------------------
(* route() and check() *)

LEMMA ReadRouteKeeps ==
  ASSUME ClipboardInv, NEW t \in Records, ReadRoute(t) PROVE ClipboardInv'
<1> USE DEF ClipboardInv
<1> DEFINE old == threads[t]
           at == IF old.then = "data" THEN "data" ELSE "check"
           new == [old EXCEPT !.route = RouteOf(old.read, policy), !.read = NotConnected, !.at = at]
<1>1. old \in Thread /\ old.read \in Status /\ policy \in Policy /\ old.at = "routed"
  BY ThreadFields DEF ReadRoute, At, TypeOK
<1>2. /\ new \in Thread /\ new.at = at /\ new.then = old.then
      /\ new.route = RouteOf(old.read, policy)
  BY <1>1, Blank, RouteFields DEF Thread, Steps, Calls
<1>3. NotAhead(new.route)
  BY <1>1, <1>2, RouteFields DEF NotAhead, Policy
<1>4. Goes(t, new) /\ UNCHANGED <<input, policy, mailbox, queued, conn, takeable, sendable>>
  BY DEF ReadRoute
<1> HIDE DEF new
<1>5. /\ threads' \in [Records -> Thread] /\ threads'[t] = new
      /\ \A u \in Records : u # t => threads'[u] = threads[u]
  BY <1>2, <1>4, Moves
<1>6. TypeOK' BY <1>4, <1>5 DEF TypeOK, Records
<1>7. NotAhead(conn'.local) /\ NotAhead(conn'.requestRoute) /\ NotAhead(queued'.route)
  BY <1>4 DEF RoutesKnown
<1>8. CASE t = "host"
  <2>1. threads'["host"] = new /\ threads'["worker"] = threads["worker"]
    BY <1>5, <1>8 DEF Records
  <2>2. HostPlace(new.at, new.then)
    BY <1>1, <1>2, <1>8 DEF Places, HostPlace
  <2>3. TakeVouched' /\ TakenAllowed'
    BY <1>1, <1>2, <2>1 DEF TakeVouched, TakenAllowed, At
  <2>4. Taking' => Now(input, policy, FALSE) \subseteq takeable'
    BY <1>2, <1>4, <1>8, <2>1 DEF Taking, Watched
  <2> QED BY <1>3, <1>4, <1>6, <1>7, <2>1, <2>2, <2>3, <2>4, HostStep
<1>9. CASE t = "worker"
  <2>1. threads'["worker"] = new /\ threads'["host"] = threads["host"]
    BY <1>5, <1>9 DEF Records
  <2>2. WorkerPlace(new.at, new.then)
    BY <1>1, <1>2, <1>9 DEF Places, WorkerPlace
  <2>3. SendVouched' /\ SentAllowed' /\ ServesLocal'
    BY <1>1, <1>2, <2>1 DEF SendVouched, SentAllowed, ServesLocal, At
  <2>4. Sending' => Now(input, policy, TRUE) \subseteq sendable'
    BY <1>2, <1>4, <1>9, <2>1 DEF Sending, Watched
  <2>5. Yielded' /\ OneOwner'
    BY <1>2, <1>4, <1>9, <2>1 DEF Yielded, OneOwner
  <2> QED BY <1>3, <1>4, <1>6, <1>7, <2>1, <2>2, <2>3, <2>4, <2>5, WorkerStep
<1> QED BY <1>8, <1>9 DEF Records

LEMMA ReadInputKeeps ==
  ASSUME ClipboardInv, NEW t \in Records, ReadInput(t) PROVE ClipboardInv'
<1> USE DEF ClipboardInv
<1> DEFINE old == threads[t]
           new == Checked(old.route, old.then)
<1>1. old.route \in Route /\ old.then \in Calls /\ old.at = "check"
  BY ThreadFields DEF ReadInput, At, TypeOK
<1>2. /\ new \in Thread /\ new.at = "verdict" /\ new.then = old.then
      /\ new.read = input /\ new.route = old.route
  BY <1>1, CheckedFields
<1>3. NotAhead(new.route)
  BY <1>2 DEF RoutesKnown, Records
<1>4. Goes(t, new) /\ UNCHANGED <<input, policy, mailbox, queued, conn, takeable, sendable>>
  BY DEF ReadInput
<1> HIDE DEF new
<1>5. /\ threads' \in [Records -> Thread] /\ threads'[t] = new
      /\ \A u \in Records : u # t => threads'[u] = threads[u]
  BY <1>2, <1>4, Moves
<1>6. TypeOK' BY <1>4, <1>5 DEF TypeOK, Records
<1>7. NotAhead(conn'.local) /\ NotAhead(conn'.requestRoute) /\ NotAhead(queued'.route)
  BY <1>4 DEF RoutesKnown
<1>8. CASE t = "host"
  <2>1. threads'["host"] = new /\ threads'["worker"] = threads["worker"]
    BY <1>5, <1>8 DEF Records
  <2>2. HostPlace(new.at, new.then)
    BY <1>1, <1>2, <1>8 DEF Places, HostPlace
  <2>3. Taking' => Now(input, policy, FALSE) \subseteq takeable'
    BY <1>2, <1>4, <1>8, <2>1 DEF Taking, Watched
  <2>4. TakeVouched' /\ TakenAllowed'
    BY <1>2, <1>4, <2>1, <2>3, CheckedNow DEF TakeVouched, TakenAllowed, At
  <2> QED BY <1>3, <1>4, <1>6, <1>7, <2>1, <2>2, <2>3, <2>4, HostStep
<1>9. CASE t = "worker"
  <2>1. threads'["worker"] = new /\ threads'["host"] = threads["host"]
    BY <1>5, <1>9 DEF Records
  <2>2. WorkerPlace(new.at, new.then) /\ new.then \notin {"sync", "serve", "offer"}
    BY <1>1, <1>2, <1>9 DEF Places, WorkerPlace
  <2>3. SendVouched' /\ SentAllowed' /\ ServesLocal'
    BY <1>2, <2>1, <2>2 DEF SendVouched, SentAllowed, ServesLocal, At, Sending
  <2>4. Sending' => Now(input, policy, TRUE) \subseteq sendable'
    BY <1>2, <1>4, <1>9, <2>1 DEF Sending, Watched
  <2>5. Yielded' /\ OneOwner'
    BY <1>2, <1>4, <1>9, <2>1 DEF Yielded, OneOwner
  <2> QED BY <1>3, <1>4, <1>6, <1>7, <2>1, <2>2, <2>3, <2>4, <2>5, WorkerStep
<1> QED BY <1>8, <1>9 DEF Records

LEMMA VerdictKeeps ==
  ASSUME ClipboardInv, NEW t \in Records, Verdict(t) PROVE ClipboardInv'
<1> USE DEF ClipboardInv
<1> DEFINE old == threads[t]
           new == [old EXCEPT !.ok = Passes(t), !.read = NotConnected, !.at = old.then]
<1>1. old \in Thread /\ old.then \in Calls /\ old.at = "verdict" /\ Passes(t) \in BOOLEAN
  BY ThreadFields DEF Verdict, At, TypeOK, Passes, Accepts
<1>2. /\ new \in Thread /\ new.at = old.then /\ new.then = old.then
      /\ new.route = old.route /\ new.ok = Passes(t)
  BY <1>1, Blank DEF Thread, Steps
<1>3. NotAhead(new.route)
  BY <1>2 DEF RoutesKnown, Records
<1>4. /\ Goes(t, new) /\ UNCHANGED <<input, policy, mailbox, queued, conn, takeable, sendable>>
      /\ old.then \notin {"submit", "sync", "serve", "request", "received"}
  BY DEF Verdict
<1> HIDE DEF new
<1>5. /\ threads' \in [Records -> Thread] /\ threads'[t] = new
      /\ \A u \in Records : u # t => threads'[u] = threads[u]
  BY <1>2, <1>4, Moves
<1>6. TypeOK' BY <1>4, <1>5 DEF TypeOK, Records
<1>7. NotAhead(conn'.local) /\ NotAhead(conn'.requestRoute) /\ NotAhead(queued'.route)
  BY <1>4 DEF RoutesKnown
<1>8. CASE t = "host"
  <2>1. threads'["host"] = new /\ threads'["worker"] = threads["worker"]
    BY <1>5, <1>8 DEF Records
  <2>2. HostPlace(new.at, new.then) /\ new.at # "taken" /\ new.at # "verdict"
    BY <1>1, <1>2, <1>4, <1>8 DEF Places, HostPlace
  <2>3. Taking' => Now(input, policy, FALSE) \subseteq takeable'
    BY <1>2, <1>4, <1>8, <2>1 DEF Taking, Watched
  <2>4. ASSUME new.at = "take", new.ok = TRUE PROVE new.route \in takeable'
    <3>1. Accepts(old.read, policy, old.route, FALSE)
      BY <1>2, <2>4 DEF Passes, ToSend, Accepts
    <3> QED BY <3>1, <1>1, <1>2, <1>4, <1>8, <2>4 DEF TakeVouched, Taking
  <2>5. TakeVouched' /\ TakenAllowed'
    BY <2>1, <2>2, <2>4 DEF TakeVouched, TakenAllowed, At
  <2> QED BY <1>3, <1>4, <1>6, <1>7, <2>1, <2>2, <2>3, <2>5, HostStep
<1>9. CASE t = "worker"
  <2>1. threads'["worker"] = new /\ threads'["host"] = threads["host"]
    BY <1>5, <1>9 DEF Records
  <2>2. WorkerPlace(new.at, new.then) /\ new.at \notin {"served", "verdict"}
    BY <1>1, <1>2, <1>4, <1>9 DEF Places, WorkerPlace
  <2>3. SendVouched' /\ SentAllowed' /\ ServesLocal'
    BY <2>1, <2>2 DEF SendVouched, SentAllowed, ServesLocal, At
  <2>4. Sending' => Now(input, policy, TRUE) \subseteq sendable'
    BY <1>2, <1>4, <1>9, <2>1 DEF Sending, Watched
  <2>5. Yielded' /\ OneOwner'
    BY <1>2, <1>4, <1>9, <2>1 DEF Yielded, OneOwner
  <2> QED BY <1>3, <1>4, <1>6, <1>7, <2>1, <2>2, <2>3, <2>4, <2>5, WorkerStep
<1> QED BY <1>8, <1>9 DEF Records

----------------------------------------------------------------------------
(* Where the host and the worker go from one step to the next *)

LEMMA HostTo ==
  ASSUME ClipboardInv, NEW new \in Thread, Goes("host", new),
         UNCHANGED <<input, policy, conn, sendable>>,
         queued' \in Command, mailbox' \in [route : Route, changed : BOOLEAN],
         takeable' \subseteq Route,
         HostPlace(new.at, new.then), NotAhead(new.route), NotAhead(queued'.route),
         new.then = "take" => Now(input, policy, FALSE) \subseteq takeable',
         new.at = "verdict" => new.read = input,
         new.at # "take",
         new.at = "taken" => new.route \in takeable' \cup {NoRoute},
         mailbox'.route \in {mailbox.route, NoRoute}
  PROVE  ClipboardInv'
<1> USE DEF ClipboardInv
<1>1. /\ threads' \in [Records -> Thread]
      /\ threads'["host"] = new /\ threads'["worker"] = threads["worker"]
  BY Moves DEF Records
<1>2. TypeOK' BY <1>1 DEF TypeOK, Records
<1>3. Taking' => Now(input, policy, FALSE) \subseteq takeable'
  BY <1>1 DEF Taking
<1>4. TakeVouched' /\ TakenAllowed'
  BY <1>1, <1>3, CheckedNow DEF TakeVouched, TakenAllowed, At
<1> QED BY <1>1, <1>2, <1>3, <1>4, HostStep

LEMMA WorkerTo ==
  ASSUME ClipboardInv, NEW new \in Thread, Goes("worker", new),
         UNCHANGED <<input, policy, takeable>>,
         conn' \in Connection, queued' \in Command,
         mailbox' \in [route : Route, changed : BOOLEAN], sendable' \subseteq Route,
         WorkerPlace(new.at, new.then), NotAhead(new.route), NotAhead(queued'.route),
         NotAhead(conn'.local), NotAhead(conn'.requestRoute),
         new.then \in {"serve", "offer"} => Now(input, policy, TRUE) \subseteq sendable',
         new.at = "verdict" => new.read = input,
         new.at = "verdict" /\ new.then = "serve" => new.route = conn'.local,
         new.at = "served" => new.route \in sendable' \cup {NoRoute},
         new.at = "served" /\ new.then = "sync" => new.route = NoRoute,
         new.then \in {"offered", "unavailable", "request", "received", "publish"}
           => conn'.local = NoRoute,
         conn'.local # NoRoute => mailbox'.route = NoRoute
  PROVE  ClipboardInv'
<1> USE DEF ClipboardInv
<1>1. /\ threads' \in [Records -> Thread]
      /\ threads'["worker"] = new /\ threads'["host"] = threads["host"]
  BY Moves DEF Records
<1>2. TypeOK' BY <1>1 DEF TypeOK, Records
<1>3. Sending' => Now(input, policy, TRUE) \subseteq sendable'
  BY <1>1 DEF Sending
<1>4. SendVouched' /\ SentAllowed' /\ ServesLocal'
  BY <1>1, <1>3, CheckedNow DEF SendVouched, SentAllowed, ServesLocal, At
<1>5. Yielded' /\ OneOwner'
  BY <1>1 DEF Yielded, OneOwner
<1> QED BY <1>1, <1>2, <1>3, <1>4, <1>5, WorkerStep

LEMMA NowRoutes ==
  ASSUME TypeOK, NEW sending PROVE Now(input, policy, sending) \subseteq Route
BY RouteFields DEF TypeOK, Now

LEMMA Cleared ==
  /\ Invalidated \in [route : Route, changed : BOOLEAN] /\ Invalidated.route = NoRoute
  /\ Taken \in [route : Route, changed : BOOLEAN] /\ Taken.route = NoRoute
  /\ NoCommand \in Command /\ NoCommand.route = NoRoute
  /\ Disconnected \in Connection /\ Disconnected.local = NoRoute
  /\ Disconnected.requestRoute = NoRoute
BY Blank DEF Invalidated, Published, Taken, NoCommand, Command, Disconnected, Connection

LEMMA NoRouteKnown == ASSUME TypeOK PROVE NotAhead(NoRoute)
BY DEF TypeOK, NotAhead, NoRoute, Policy

----------------------------------------------------------------------------
(* Actions of the host *)

LEMMA HostActions ==
  ASSUME ClipboardInv,
         BeginTake \/ Take \/ EndTake \/ BeginOffer \/ Prepare \/ Submit \/ SubmitClear \/ CancelCommand
  PROVE  ClipboardInv'
<1> USE DEF ClipboardInv
<1>0. /\ queued \in Command /\ mailbox \in [route : Route, changed : BOOLEAN]
      /\ conn \in Connection /\ takeable \subseteq Route
      /\ NotAhead(queued.route) /\ NotAhead(NoRoute)
      /\ threads["host"].route \in Route /\ NotAhead(threads["host"].route)
  BY ThreadFields, NoRouteKnown DEF TypeOK, RoutesKnown, Records
<1>1. CASE BeginTake
  <2>1. Routed("take") \in Thread /\ Routed("take").at = "routed"
        /\ Routed("take").then = "take" /\ Routed("take").route = NoRoute
    BY RoutedFields DEF Calls
  <2>2. takeable' = Now(input, policy, FALSE) /\ Goes("host", Routed("take"))
        /\ UNCHANGED <<input, policy, mailbox, queued, conn, sendable>>
    BY <1>1 DEF BeginTake
  <2>3. HostPlace(Routed("take").at, Routed("take").then)
    BY <2>1 DEF HostPlace
  <2> QED BY <1>0, <2>1, <2>2, <2>3, NowRoutes, HostTo
<1>2. CASE Take
  <2> DEFINE new == [threads["host"] EXCEPT !.at = "taken", !.route = Given(threads["host"])]
  <2>1. threads["host"] \in Thread /\ Given(threads["host"]) \in Route
    BY <1>0, ThreadFields, Blank DEF Given, Records
  <2>2. /\ new \in Thread /\ new.at = "taken" /\ new.then = threads["host"].then
        /\ new.route = Given(threads["host"])
    BY <2>1 DEF Thread, Steps
  <2>3. threads["host"].at = "take" /\ Goes("host", new) /\ mailbox' = Taken
        /\ UNCHANGED <<input, policy, queued, conn, takeable, sendable>>
    BY <1>2 DEF Take, At
  <2>4. threads["host"].then = "take"
    BY <2>3 DEF Places, HostPlace
  <2>5. new.route \in takeable \cup {NoRoute} /\ NotAhead(new.route)
    <3>1. CASE new.route = NoRoute BY <3>1, <1>0
    <3>2. CASE new.route # NoRoute
      <4>1. threads["host"].ok = TRUE /\ new.route = threads["host"].route
        BY <3>2, <2>2, ThreadFields DEF Given, Records
      <4> QED BY <4>1, <1>0, <2>3 DEF TakeVouched
    <3> QED BY <3>1, <3>2
  <2> HIDE DEF new
  <2>6. HostPlace(new.at, new.then)
    BY <2>2, <2>4 DEF HostPlace
  <2>7. Now(input, policy, FALSE) \subseteq takeable'
    BY <2>3, <2>4 DEF Watched, Taking
  <2> QED BY <1>0, <2>2, <2>3, <2>4, <2>5, <2>6, <2>7, Cleared, HostTo
<1>3. CASE EndTake
  <2>1. HostPlace(Idle.at, Idle.then)
    BY IdleFields DEF HostPlace
  <2>2. Goes("host", Idle) /\ takeable' = {} /\ UNCHANGED <<input, policy, mailbox, queued, conn, sendable>>
    BY <1>3 DEF EndTake
  <2> QED BY <1>0, <2>1, <2>2, IdleFields, HostTo
<1>4. CASE BeginOffer
  <2>1. /\ Routed("prepare") \in Thread /\ Routed("prepare").at = "routed"
        /\ Routed("prepare").then = "prepare" /\ Routed("prepare").route = NoRoute
    BY RoutedFields DEF Calls
  <2>2. /\ Goes("host", Routed("prepare"))
        /\ UNCHANGED <<input, policy, mailbox, queued, conn, takeable, sendable>>
    BY <1>4 DEF BeginOffer
  <2>3. HostPlace(Routed("prepare").at, Routed("prepare").then)
    BY <2>1 DEF HostPlace
  <2> QED BY <1>0, <2>1, <2>2, <2>3, HostTo
<1>5. CASE Prepare
  <2> DEFINE new == Checked(threads["host"].route, "submit")
  <2>1. /\ new \in Thread /\ new.at = "verdict" /\ new.then = "submit" /\ new.read = input
        /\ new.route = threads["host"].route
    <3>1. "submit" \in Calls BY DEF Calls
    <3> QED BY <3>1, <1>0, CheckedFields
  <2>2. /\ Goes("host", new) \/ Goes("host", Idle)
        /\ UNCHANGED <<input, policy, mailbox, queued, conn, takeable, sendable>>
    BY <1>5 DEF Prepare
  <2> HIDE DEF new
  <2>3. HostPlace(Idle.at, Idle.then) /\ HostPlace(new.at, new.then)
    BY <2>1, IdleFields DEF HostPlace
  <2>4. CASE Goes("host", new)
    BY <1>0, <2>1, <2>2, <2>3, <2>4, HostTo
  <2>5. CASE Goes("host", Idle)
    BY <1>0, <2>2, <2>3, <2>5, IdleFields, HostTo
  <2> QED BY <2>2, <2>4, <2>5
<1>6. CASE Submit
  <2>1. HostPlace(Idle.at, Idle.then)
    BY IdleFields DEF HostPlace
  <2>2. Goes("host", Idle) /\ UNCHANGED <<input, policy, mailbox, conn, takeable, sendable>>
    BY <1>6 DEF Submit
  <2>3. queued' \in Command /\ NotAhead(queued'.route)
    BY <1>0, <1>6 DEF Submit, Command
  <2> QED BY <1>0, <2>1, <2>2, <2>3, IdleFields, HostTo
<1>7. CASE SubmitClear \/ CancelCommand
  <2>1. UNCHANGED <<input, policy, mailbox, threads, conn, takeable, sendable>>
    BY <1>7 DEF SubmitClear, CancelCommand
  <2>2. queued' \in Command /\ NotAhead(queued'.route)
    <3> DEFINE clear == [kind |-> "Clear", route |-> NoRoute, running |-> FALSE]
    <3>1. clear \in Command /\ clear.route = NoRoute
      BY Blank DEF Command
    <3>2. queued' = clear \/ queued' = NoCommand
      BY <1>7 DEF SubmitClear, CancelCommand
    <3> QED BY <1>0, <3>1, <3>2, Cleared
  <2>3. TypeOK' BY <2>1, <2>2 DEF TypeOK
  <2>4. TakeVouched' /\ TakenAllowed'
    BY <2>1 DEF TakeVouched, TakenAllowed, At, Taking
  <2>5. Taking' => Now(input, policy, FALSE) \subseteq takeable'
    BY <2>1 DEF Watched, Taking
  <2>6. HostPlace(threads'["host"].at, threads'["host"].then)
    BY <2>1 DEF Places
  <2> QED BY <1>0, <2>1, <2>2, <2>3, <2>4, <2>5, <2>6, HostStep
<1> QED BY <1>1, <1>2, <1>3, <1>4, <1>5, <1>6, <1>7

----------------------------------------------------------------------------
(* Changes of focus, policy and attempt *)

LEMMA StatusChanges ==
  ASSUME NEW in \in Status, NEW eligible \in BOOLEAN
  PROVE  /\ [in EXCEPT !.focus = @ + 1, !.eligible = eligible] \in Status
         /\ [in EXCEPT !.connected = TRUE] \in Status
         /\ [in EXCEPT !.generation = @ + 1, !.connected = FALSE] \in Status
<1>1. in.generation + 1 \in Nat /\ in.focus + 1 \in Nat BY DEF Status
<1>2. [in EXCEPT !.focus = in.focus + 1, !.eligible = eligible] \in Status BY <1>1 DEF Status
<1>3. [in EXCEPT !.connected = TRUE] \in Status BY DEF Status
<1>4. [in EXCEPT !.generation = in.generation + 1, !.connected = FALSE] \in Status BY <1>1 DEF Status
<1> QED BY <1>2, <1>3, <1>4

LEMMA EnvironmentActions ==
  ASSUME ClipboardInv,
         Reroute \/ (\E send, receive \in BOOLEAN : SetPolicy(send, receive)) \/ Connected
  PROVE  ClipboardInv'
<1> USE DEF ClipboardInv
<1>0. /\ input \in Status /\ policy \in Policy /\ mailbox \in [route : Route, changed : BOOLEAN]
      /\ takeable \subseteq Route /\ sendable \subseteq Route
  BY DEF TypeOK
<1>1. Observed /\ UNCHANGED <<threads, queued, conn>> /\ input' \in Status
  BY <1>0, StatusChanges DEF Reroute, SetPolicy, Connected
<1>2. policy' \in Policy /\ (policy' = policy \/ policy'.revision > policy.revision)
  <2>1. CASE Reroute \/ Connected
    BY <1>0, <2>1 DEF Reroute, Connected
  <2>2. ASSUME NEW send \in BOOLEAN, NEW receive \in BOOLEAN, SetPolicy(send, receive)
        PROVE  policy' \in Policy /\ policy'.revision > policy.revision
    <3>1. policy.revision \in Nat BY <1>0 DEF Policy
    <3>2. policy' = [send |-> send, receive |-> receive, revision |-> policy.revision + 1]
      BY <2>2 DEF SetPolicy
    <3> QED BY <3>1, <3>2 DEF Policy
  <2> QED BY <2>1, <2>2
<1>3. mailbox' \in [route : Route, changed : BOOLEAN] /\ mailbox'.route \in {mailbox.route, NoRoute}
  BY <1>0, Cleared DEF Reroute, SetPolicy, Connected
<1>4. takeable' \subseteq Route /\ sendable' \subseteq Route
  BY <1>0, <1>1, <1>2, RouteFields DEF Observed, Now
<1>5. TypeOK' BY <1>1, <1>2, <1>3, <1>4 DEF TypeOK
<1> QED BY <1>1, <1>2, <1>3, <1>5, ObservedStep

\* The end of an attempt: the worker is in no handler, so the checks under way are the host's.
LEMMA EndKeeps == ASSUME ClipboardInv, End PROVE ClipboardInv'
<1> USE DEF ClipboardInv
<1>0. /\ input \in Status /\ policy \in Policy /\ takeable \subseteq Route /\ sendable \subseteq Route
  BY DEF TypeOK
<1>1. /\ Goes("worker", Idle) /\ UNCHANGED <<policy, mailbox>> /\ Observed
      /\ conn' = Disconnected /\ queued' = NoCommand
  BY DEF End
<1>2. /\ threads' \in [Records -> Thread]
      /\ threads'["worker"] = Idle /\ threads'["host"] = threads["host"]
  BY <1>1, Moves, IdleFields DEF Records
<1>3. input' \in Status
  BY <1>0, StatusChanges DEF End
<1>4. takeable' \subseteq Route /\ sendable' \subseteq Route
  BY <1>0, <1>1, <1>3, RouteFields DEF Observed, Now
<1>5. TypeOK' BY <1>1, <1>2, <1>3, <1>4, Cleared DEF TypeOK, Records
<1>6. Places'
  BY <1>2, IdleFields DEF Places, WorkerPlace
<1>7. RoutesKnown'
  BY <1>1, <1>2, NoRouteKnown, Cleared, IdleFields DEF RoutesKnown, NotAhead
<1>8. /\ Taking' = Taking /\ ~Sending'
      /\ Taking => takeable \subseteq takeable' /\ Now(input', policy', FALSE) \subseteq takeable'
  BY <1>1, <1>2, IdleFields DEF Observed, Taking, Sending
<1>9. Watched' BY <1>8 DEF Watched
<1>10. TakeVouched' BY <1>1, <1>2, <1>8 DEF TakeVouched, Taking, Places, HostPlace
<1>11. TakenAllowed' BY <1>2, <1>8 DEF TakenAllowed, At, Taking, Places, HostPlace
<1>12. SendVouched' /\ SentAllowed' /\ ServesLocal' /\ Yielded'
  BY <1>2, IdleFields DEF SendVouched, SentAllowed, ServesLocal, Yielded, At
<1>13. OneOwner' BY <1>1, Cleared DEF OneOwner
<1> QED BY <1>5, <1>6, <1>7, <1>9, <1>10, <1>11, <1>12, <1>13

----------------------------------------------------------------------------
(* Actions of the worker *)

\* What the worker's steps start from.
LEMMA WorkerFacts ==
  ASSUME ClipboardInv
  PROVE  /\ conn \in Connection /\ queued \in Command
         /\ conn.local \in Route /\ conn.requestRoute \in Route /\ queued.route \in Route
         /\ mailbox \in [route : Route, changed : BOOLEAN] /\ sendable \subseteq Route
         /\ NotAhead(conn.local) /\ NotAhead(conn.requestRoute) /\ NotAhead(queued.route)
         /\ NotAhead(NoRoute)
         /\ threads["worker"] \in Thread /\ threads["worker"].route \in Route
         /\ NotAhead(threads["worker"].route)
         /\ conn.local # NoRoute => mailbox.route = NoRoute
         /\ WorkerPlace(threads["worker"].at, threads["worker"].then)
         /\ threads["worker"].then \in {"serve", "offer"}
              => Now(input, policy, TRUE) \subseteq sendable
         /\ Now(input, policy, TRUE) \subseteq Route
         /\ WorkerPlace(Idle.at, Idle.then)
<1> USE DEF ClipboardInv
<1>1. conn \in Connection /\ queued \in Command BY DEF TypeOK
<1>2. conn.local \in Route /\ conn.requestRoute \in Route /\ queued.route \in Route
  BY <1>1 DEF Connection, Command
<1>3. WorkerPlace(Idle.at, Idle.then) BY IdleFields DEF WorkerPlace
<1>4. threads["worker"].then \in {"serve", "offer"} => Now(input, policy, TRUE) \subseteq sendable
  BY DEF Watched, Sending
<1> QED
  BY <1>1, <1>2, <1>3, <1>4, ThreadFields, NoRouteKnown, NowRoutes
  DEF TypeOK, RoutesKnown, Records, OneOwner, Places

LEMMA WithdrawnFields ==
  ASSUME NEW c \in Connection
  PROVE  /\ Withdrawn(c) \in Connection /\ Withdrawn(c).local = NoRoute
         /\ Withdrawn(c).requestRoute = c.requestRoute
BY Blank DEF Withdrawn, Connection

\* The worker begins a check: of the cached text, of a queued offer.
LEMMA BeginCheck ==
  ASSUME ClipboardInv, DrainInput \/ ServerRequests \/ RunOffer PROVE ClipboardInv'
<1>0. {"sync", "serve", "offer"} \subseteq Calls BY DEF Calls
<1>1. TypeOK BY DEF ClipboardInv
<1>2. CASE DrainInput
  <2> DEFINE new == Checked(conn.local, "sync")
  <2>1. /\ new \in Thread /\ new.at = "verdict" /\ new.then = "sync" /\ new.read = input
        /\ new.route = conn.local
    BY <1>0, <1>1, WorkerFacts, CheckedFields
  <2>2. /\ Goes("worker", new)
        /\ UNCHANGED <<input, policy, mailbox, queued, conn, takeable, sendable>>
    BY <1>2 DEF DrainInput
  <2> HIDE DEF new
  <2>3. WorkerPlace(new.at, new.then) BY <2>1 DEF WorkerPlace
  <2> QED BY <2>1, <2>2, <2>3, WorkerFacts, WorkerTo
<1>3. CASE ServerRequests
  <2> DEFINE new == Checked(conn.local, "serve")
  <2>1. /\ new \in Thread /\ new.at = "verdict" /\ new.then = "serve" /\ new.read = input
        /\ new.route = conn.local
    BY <1>0, <1>1, WorkerFacts, CheckedFields
  <2>2. /\ Goes("worker", new) /\ sendable' = Now(input, policy, TRUE)
        /\ UNCHANGED <<input, policy, mailbox, queued, conn, takeable>>
    BY <1>3 DEF ServerRequests, Begins
  <2> HIDE DEF new
  <2>3. WorkerPlace(new.at, new.then) BY <2>1 DEF WorkerPlace
  <2> QED BY <2>1, <2>2, <2>3, WorkerFacts, WorkerTo
<1>4. CASE RunOffer
  <2> DEFINE new == Checked(queued.route, "offer")
  <2>1. /\ new \in Thread /\ new.at = "verdict" /\ new.then = "offer" /\ new.read = input
        /\ new.route = queued.route
    BY <1>0, <1>1, WorkerFacts, CheckedFields
  <2>2. /\ Goes("worker", new) /\ sendable' = Now(input, policy, TRUE)
        /\ UNCHANGED <<input, policy, mailbox, conn, takeable>>
    BY <1>4 DEF RunOffer, Begins
  <2> HIDE DEF new
  <2>3. WorkerPlace(new.at, new.then) BY <2>1 DEF WorkerPlace
  <2>4. queued' \in Command /\ queued'.route = queued.route
    BY <1>4, WorkerFacts DEF RunOffer, Command
  <2> QED BY <2>1, <2>2, <2>3, <2>4, WorkerFacts, WorkerTo
<1> QED BY <1>2, <1>3, <1>4

\* The text is sent: the route that passed is the one it was offered under.
LEMMA SyncKeeps == ASSUME ClipboardInv, Sync PROVE ClipboardInv'
<1> DEFINE old == threads["worker"]
           new == [old EXCEPT !.at = "served", !.read = NotConnected, !.route = Served]
<1>1. /\ old.at = "verdict" /\ old.then \in {"sync", "serve"} /\ conn' = Kept(conn)
      /\ Goes("worker", new) /\ UNCHANGED <<input, policy, mailbox, queued, takeable, sendable>>
  BY DEF Sync, Decides, At
<1>2. Served \in Route BY WorkerFacts, Blank DEF Served
<1>3. new \in Thread /\ new.at = "served" /\ new.then = old.then /\ new.route = Served
  BY <1>2, WorkerFacts, Blank DEF Thread, Steps
<1>4. ASSUME Served # NoRoute PROVE Served \in sendable /\ Served = conn.local /\ old.then = "serve"
  <2>1. old.then = "serve" /\ Passes("worker") /\ Served = conn.local
    BY <1>4 DEF Served
  <2>2. Accepts(old.read, policy, old.route, TRUE)
    BY <2>1 DEF Passes, ToSend, Accepts
  <2>3. old.route = conn.local
    BY <1>1, <2>1 DEF ClipboardInv, ServesLocal
  <2>4. old.route \in sendable
    BY <1>1, <2>1, <2>2 DEF ClipboardInv, SendVouched, Sending
  <2> QED BY <2>1, <2>3, <2>4
<1>5. conn' \in Connection /\ conn'.local \in {conn.local, NoRoute} /\ conn'.requestRoute = conn.requestRoute
  BY <1>1, WorkerFacts, WithdrawnFields DEF Kept
<1> HIDE DEF new
<1>6. WorkerPlace(new.at, new.then) BY <1>1, <1>3 DEF WorkerPlace
<1>7. NotAhead(new.route) BY <1>3, <1>4, WorkerFacts
<1>8. NotAhead(conn'.local) /\ NotAhead(conn'.requestRoute) BY <1>5, WorkerFacts
<1>9. conn'.local # NoRoute => mailbox'.route = NoRoute BY <1>1, <1>5, WorkerFacts
<1>10. new.at = "served" /\ new.then = "sync" => new.route = NoRoute BY <1>3, <1>4
<1>11. new.route \in sendable' \cup {NoRoute} BY <1>1, <1>3, <1>4
<1>12. new.then \in {"serve", "offer"} => Now(input, policy, TRUE) \subseteq sendable'
  BY <1>1, <1>3, WorkerFacts
<1>13. /\ queued' \in Command /\ NotAhead(queued'.route) /\ sendable' \subseteq Route
       /\ mailbox' \in [route : Route, changed : BOOLEAN]
  BY <1>1, WorkerFacts
<1> QED BY <1>1, <1>3, <1>5, <1>6, <1>7, <1>8, <1>9, <1>10, <1>11, <1>12, <1>13, WorkerTo

LEMMA EndServeKeeps == ASSUME ClipboardInv, EndServe PROVE ClipboardInv'
<1>1. /\ Goes("worker", Idle) /\ queued' = Finished /\ sendable' = {}
      /\ UNCHANGED <<input, policy, mailbox, conn, takeable>>
  BY DEF EndServe
<1>2. queued' \in Command /\ NotAhead(queued'.route)
  BY <1>1, WorkerFacts, Cleared DEF Finished
<1> QED BY <1>1, <1>2, IdleFields, WorkerFacts, WorkerTo

\* The offered text takes the place of what the mailbox holds.
LEMMA OfferKeeps == ASSUME ClipboardInv, Offer PROVE ClipboardInv'
<1> DEFINE old == threads["worker"]
           accepted == old.ok
           sends == accepted /\ conn.caps # "notify"
           new == Checked(queued.route, "serve")
           offered == [conn EXCEPT !.local = queued.route, !.hasLocal = TRUE]
<1>1. old.at = "offer" /\ old.then = "offer" /\ TypeOK
  BY DEF Offer, At, ClipboardInv, Places, WorkerPlace
<1>2. "serve" \in Calls BY DEF Calls
<1>3. /\ new \in Thread /\ new.at = "verdict" /\ new.then = "serve" /\ new.read = input
      /\ new.route = queued.route
  BY <1>1, <1>2, WorkerFacts, CheckedFields
<1>4. /\ offered \in Connection /\ offered.local = queued.route
      /\ offered.requestRoute = conn.requestRoute
  BY WorkerFacts DEF Connection
<1>5. /\ mailbox' = IF accepted THEN Superseded ELSE mailbox
      /\ conn' = IF accepted THEN offered ELSE conn
      /\ queued' = IF sends THEN queued ELSE Finished
      /\ Goes("worker", IF sends THEN new ELSE Idle)
      /\ sendable' = IF sends THEN sendable ELSE {}
      /\ UNCHANGED <<input, policy, takeable>>
  BY DEF Offer
<1> HIDE DEF new, offered
<1>6. /\ mailbox' \in [route : Route, changed : BOOLEAN] /\ conn' \in Connection
      /\ NotAhead(conn'.local) /\ NotAhead(conn'.requestRoute)
      /\ conn'.local # NoRoute => mailbox'.route = NoRoute
  BY <1>4, <1>5, WorkerFacts, Cleared DEF Superseded
<1>7. queued' \in Command /\ NotAhead(queued'.route) /\ sendable' \subseteq Route
  BY <1>5, WorkerFacts, Cleared DEF Finished
<1>8. CASE sends
  <2>1. Goes("worker", new) /\ conn' = offered /\ sendable' = sendable BY <1>5, <1>8
  <2>2. WorkerPlace(new.at, new.then) BY <1>3 DEF WorkerPlace
  <2>3. Now(input, policy, TRUE) \subseteq sendable' BY <1>1, <2>1, WorkerFacts
  <2>4. NotAhead(new.route) /\ new.route = conn'.local BY <1>3, <1>4, <2>1, WorkerFacts
  <2> QED BY <1>3, <1>5, <1>6, <1>7, <2>1, <2>2, <2>3, <2>4, WorkerTo
<1>9. CASE ~sends
  <2>1. Goes("worker", Idle) BY <1>5, <1>9
  <2> QED BY <1>5, <1>6, <1>7, <2>1, IdleFields, WorkerFacts, WorkerTo
<1> QED BY <1>8, <1>9

LEMMA RunClearKeeps == ASSUME ClipboardInv, RunClear PROVE ClipboardInv'
<1>1. /\ queued' = NoCommand /\ conn' = Withdrawn(conn)
      /\ UNCHANGED <<input, policy, mailbox, threads, takeable, sendable>>
      /\ threads["worker"].at = "idle" /\ threads["worker"].then = ""
  BY DEF RunClear, Ready, At, ClipboardInv, Places, WorkerPlace
<1>2. /\ conn' \in Connection /\ conn'.local = NoRoute /\ conn'.requestRoute = conn.requestRoute
  BY <1>1, WorkerFacts, WithdrawnFields
<1>3. TypeOK' BY <1>1, <1>2, Cleared DEF TypeOK, ClipboardInv
<1>4. SendVouched' /\ SentAllowed' /\ ServesLocal'
  BY <1>1 DEF SendVouched, SentAllowed, ServesLocal, At
<1>5. Yielded' /\ OneOwner' BY <1>2 DEF Yielded, OneOwner
<1>6. ~Sending' BY <1>1 DEF Sending
<1> QED BY <1>1, <1>2, <1>3, <1>4, <1>5, <1>6, WorkerFacts, Cleared, WorkerStep

\* From here on the host's text is gone, and the server's on its way.
LEMMA ServerAnnouncesKeeps ==
  ASSUME ClipboardInv, NEW available \in BOOLEAN, ServerAnnounces(available) PROVE ClipboardInv'
<1> DEFINE then == IF available THEN "offered" ELSE "unavailable"
           new == Routed(then)
           left == [conn EXCEPT !.local = NoRoute, !.hasLocal = @ /\ ~available,
                                !.pending = @ /\ available,
                                !.requestRoute = IF available THEN @ ELSE NoRoute]
<1>1. /\ Goes("worker", new) /\ conn' = left
      /\ UNCHANGED <<input, policy, mailbox, queued, takeable, sendable>>
  BY DEF ServerAnnounces
<1>2. then \in Calls /\ then \in {"offered", "unavailable"} /\ TypeOK BY DEF Calls, ClipboardInv
<1>3. new \in Thread /\ new.at = "routed" /\ new.then = then /\ new.route = NoRoute
  BY <1>2, RoutedFields
<1>4. /\ left \in Connection /\ left.local = NoRoute
      /\ left.requestRoute \in {conn.requestRoute, NoRoute}
  BY WorkerFacts, Blank DEF Connection
<1> HIDE DEF new, left, then
<1>5. WorkerPlace(new.at, new.then) BY <1>2, <1>3 DEF WorkerPlace
<1> QED BY <1>1, <1>2, <1>3, <1>4, <1>5, WorkerFacts, WorkerTo

LEMMA OfferRemoteKeeps == ASSUME ClipboardInv, OfferRemote PROVE ClipboardInv'
<1> DEFINE old == threads["worker"]
           new == IF old.at = "offered" THEN Routed("request") ELSE Idle
<1>1. /\ Goes("worker", new) /\ mailbox' = IF ~old.ok THEN mailbox ELSE Published(old.route)
      /\ UNCHANGED <<input, policy, queued, conn, takeable, sendable>>
      /\ old.at \in {"offered", "unavailable"}
  BY DEF OfferRemote, At
<1>2. conn.local = NoRoute /\ TypeOK /\ "request" \in Calls
  BY <1>1 DEF ClipboardInv, Places, WorkerPlace, Yielded, Calls
<1>3. /\ new \in Thread /\ new.route = NoRoute
      /\ (new.at = "routed" /\ new.then = "request") \/ (new.at = "idle" /\ new.then = "")
  BY <1>2, RoutedFields, IdleFields
<1>4. mailbox' \in [route : Route, changed : BOOLEAN]
  BY <1>1, WorkerFacts DEF Published
<1> HIDE DEF new
<1>5. WorkerPlace(new.at, new.then) BY <1>3 DEF WorkerPlace
<1> QED BY <1>1, <1>2, <1>3, <1>4, <1>5, WorkerFacts, WorkerTo

LEMMA RequestRemoteKeeps == ASSUME ClipboardInv, RequestRemote PROVE ClipboardInv'
<1> DEFINE old == threads["worker"]
           asked == [conn EXCEPT !.pending = TRUE, !.requestRoute = old.route]
           check == Checked(old.route, "received")
<1>1. /\ conn' = asked \/ conn' = conn
      /\ Goes("worker", check) \/ Goes("worker", Idle)
      /\ UNCHANGED <<input, policy, mailbox, queued, takeable, sendable>>
      /\ old.at = "verdict" /\ old.then = "request"
  BY DEF RequestRemote, Decides, At
<1>2. conn.local = NoRoute /\ TypeOK /\ "received" \in Calls
  BY <1>1 DEF ClipboardInv, Yielded, Calls
<1>3. /\ check \in Thread /\ check.at = "verdict" /\ check.then = "received"
      /\ check.read = input /\ check.route = old.route
  BY <1>2, WorkerFacts, CheckedFields
<1>4. asked \in Connection /\ asked.local = conn.local /\ asked.requestRoute = old.route
  BY WorkerFacts DEF Connection
<1> HIDE DEF asked, check
<1>5. /\ conn' \in Connection /\ conn'.local = NoRoute /\ NotAhead(conn'.local)
      /\ NotAhead(conn'.requestRoute)
  BY <1>1, <1>2, <1>4, WorkerFacts
<1>6. WorkerPlace(check.at, check.then) BY <1>3 DEF WorkerPlace
<1>7. CASE Goes("worker", check)
  BY <1>1, <1>3, <1>5, <1>6, <1>7, WorkerFacts, WorkerTo
<1>8. CASE Goes("worker", Idle)
  BY <1>1, <1>5, <1>8, IdleFields, WorkerFacts, WorkerTo
<1> QED BY <1>1, <1>7, <1>8

LEMMA ServerProvidesKeeps == ASSUME ClipboardInv, ServerProvides PROVE ClipboardInv'
<1> DEFINE data == [Idle EXCEPT !.at = "data", !.route = conn.requestRoute]
           new == IF conn.pending THEN data ELSE Routed("data")
<1>1. /\ Goes("worker", new)
      /\ UNCHANGED <<input, policy, mailbox, queued, conn, takeable, sendable>>
  BY DEF ServerProvides
<1>2. TypeOK /\ "data" \in Calls BY DEF ClipboardInv, Calls
<1>3. data \in Thread /\ data.at = "data" /\ data.then = "" /\ data.route = conn.requestRoute
  BY WorkerFacts, Blank DEF Idle, Thread, Steps, Calls
<1> HIDE DEF data
<1>4. /\ new \in Thread
      /\ (new.at = "data" /\ new.then = "") \/ (new.at = "routed" /\ new.then = "data")
      /\ new.route \in {conn.requestRoute, NoRoute}
  BY <1>2, <1>3, RoutedFields
<1> HIDE DEF new
<1>5. WorkerPlace(new.at, new.then) BY <1>4 DEF WorkerPlace
<1> QED BY <1>1, <1>4, <1>5, WorkerFacts, WorkerTo

LEMMA HandleDataKeeps == ASSUME ClipboardInv, HandleData PROVE ClipboardInv'
<1> DEFINE old == threads["worker"]
           kept == IF conn.local # NoRoute THEN Withdrawn(conn) ELSE conn
           left == [kept EXCEPT !.pending = FALSE, !.requestRoute = NoRoute]
           new == Checked(old.route, "received")
<1>1. /\ Goes("worker", new) /\ conn' = left
      /\ UNCHANGED <<input, policy, mailbox, queued, takeable, sendable>>
  BY DEF HandleData
<1>2. TypeOK /\ "received" \in Calls BY DEF ClipboardInv, Calls
<1>3. /\ new \in Thread /\ new.at = "verdict" /\ new.then = "received"
      /\ new.read = input /\ new.route = old.route
  BY <1>2, WorkerFacts, CheckedFields
<1>4. kept \in Connection /\ kept.local = NoRoute
  BY WorkerFacts, WithdrawnFields
<1> HIDE DEF kept
<1>5. left \in Connection /\ left.local = NoRoute /\ left.requestRoute = NoRoute
  BY <1>4, Blank DEF Connection
<1> HIDE DEF left, new
<1>6. WorkerPlace(new.at, new.then) BY <1>3 DEF WorkerPlace
<1> QED BY <1>1, <1>3, <1>5, <1>6, WorkerFacts, WorkerTo

LEMMA ReceiveKeeps == ASSUME ClipboardInv, Receive PROVE ClipboardInv'
<1> DEFINE old == threads["worker"]
           check == Checked(old.route, "publish")
<1>1. /\ Goes("worker", check) \/ Goes("worker", Idle)
      /\ UNCHANGED <<input, policy, mailbox, queued, conn, takeable, sendable>>
      /\ old.at = "verdict" /\ old.then = "received"
  BY DEF Receive, Decides, At
<1>2. conn.local = NoRoute /\ TypeOK /\ "publish" \in Calls
  BY <1>1 DEF ClipboardInv, Yielded, Calls
<1>3. /\ check \in Thread /\ check.at = "verdict" /\ check.then = "publish"
      /\ check.read = input /\ check.route = old.route
  BY <1>2, WorkerFacts, CheckedFields
<1> HIDE DEF check
<1>4. WorkerPlace(check.at, check.then) BY <1>3 DEF WorkerPlace
<1>5. CASE Goes("worker", check)
  BY <1>1, <1>2, <1>3, <1>4, <1>5, WorkerFacts, WorkerTo
<1>6. CASE Goes("worker", Idle)
  BY <1>1, <1>2, <1>6, IdleFields, WorkerFacts, WorkerTo
<1> QED BY <1>1, <1>5, <1>6

LEMMA PublishKeeps == ASSUME ClipboardInv, Publish PROVE ClipboardInv'
<1> DEFINE old == threads["worker"]
<1>1. /\ Goes("worker", Idle) /\ mailbox' = IF old.ok THEN Published(old.route) ELSE mailbox
      /\ UNCHANGED <<input, policy, queued, conn, takeable, sendable>>
      /\ old.at = "publish"
  BY DEF Publish, At
<1>2. conn.local = NoRoute
  BY <1>1 DEF ClipboardInv, Places, WorkerPlace, Yielded
<1>3. mailbox' \in [route : Route, changed : BOOLEAN]
  BY <1>1, WorkerFacts DEF Published
<1> QED BY <1>1, <1>2, <1>3, IdleFields, WorkerFacts, WorkerTo

\* start(), and the first half of finish().
LEMMA AttemptActions ==
  ASSUME ClipboardInv, Finish \/ \E caps \in Peers : Start(caps) PROVE ClipboardInv'
<1> DEFINE old == threads["worker"]
<1>1. /\ old.at = "idle" /\ old.then = "" /\ mailbox' = Invalidated
      /\ UNCHANGED <<input, policy, queued, takeable, sendable>>
  BY DEF Finish, Start, At, ClipboardInv, Places, WorkerPlace
<1>2. mailbox' \in [route : Route, changed : BOOLEAN] /\ mailbox'.route = NoRoute
  BY <1>1, Cleared
<1>3. CASE Finish
  <2> DEFINE new == [old EXCEPT !.at = "ending"]
  <2>1. Goes("worker", new) /\ conn' = conn BY <1>3 DEF Finish
  <2>2. new \in Thread /\ new.at = "ending" /\ new.then = "" /\ new.route = old.route
    BY <1>1, WorkerFacts DEF Thread, Steps
  <2> HIDE DEF new
  <2>3. WorkerPlace(new.at, new.then) BY <2>2 DEF WorkerPlace
  <2> QED BY <1>1, <1>2, <2>1, <2>2, <2>3, WorkerFacts, WorkerTo
<1>4. ASSUME NEW caps \in Peers, Start(caps) PROVE ClipboardInv'
  <2>1. conn' = [Disconnected EXCEPT !.active = TRUE, !.caps = caps] /\ UNCHANGED threads
    BY <1>4 DEF Start
  <2>2. conn' \in Connection /\ conn'.local = NoRoute /\ conn'.requestRoute = NoRoute
    BY <2>1, Blank DEF Disconnected, Connection
  <2>3. TypeOK' BY <1>1, <1>2, <2>1, <2>2 DEF TypeOK, ClipboardInv
  <2>4. SendVouched' /\ SentAllowed' /\ ServesLocal'
    BY <1>1, <2>1 DEF SendVouched, SentAllowed, ServesLocal, At
  <2>5. Yielded' /\ OneOwner' BY <2>2 DEF Yielded, OneOwner
  <2>6. ~Sending' BY <1>1, <2>1 DEF Sending
  <2> QED BY <1>1, <2>1, <2>2, <2>3, <2>4, <2>5, <2>6, WorkerFacts, WorkerStep
<1> QED BY <1>3, <1>4

----------------------------------------------------------------------------
(* The theorems *)

LEMMA InitHolds == Init => ClipboardInv
<1> SUFFICES ASSUME Init PROVE ClipboardInv
  OBVIOUS
<1> USE DEF Init
<1>1. /\ input \in Status /\ policy \in Policy /\ mailbox = Taken
      /\ threads["host"] = Idle /\ threads["worker"] = Idle
      /\ threads \in [Records -> Thread]
  BY Blank, IdleFields DEF Policy, Records
<1>2. TypeOK BY <1>1, Cleared DEF TypeOK, Records
<1>3. Places BY <1>1, IdleFields DEF Places, HostPlace, WorkerPlace
<1>4. RoutesKnown BY <1>1, <1>2, IdleFields, Cleared, NoRouteKnown DEF RoutesKnown
<1>5. Watched /\ TakeVouched /\ SendVouched
  BY <1>1, IdleFields DEF Watched, TakeVouched, SendVouched, Taking, Sending
<1>6. ServesLocal /\ Yielded /\ OneOwner
  BY <1>1, IdleFields, Cleared DEF ServesLocal, Yielded, OneOwner
<1>7. TakenAllowed /\ SentAllowed
  BY <1>1, IdleFields DEF TakenAllowed, SentAllowed, At
<1> QED BY <1>2, <1>3, <1>4, <1>5, <1>6, <1>7 DEF ClipboardInv

LEMMA StepKeeps == ClipboardInv /\ [Next]_vars => ClipboardInv'
<1> SUFFICES ASSUME ClipboardInv, [Next]_vars PROVE ClipboardInv'
  OBVIOUS
<1>1. ASSUME NEW t \in Records, Looks(t) PROVE ClipboardInv'
  BY <1>1, ReadRouteKeeps, ReadInputKeeps, VerdictKeeps DEF Looks
<1>2. CASE HostCall
  BY <1>1, <1>2, HostActions DEF HostCall, Records
<1>3. CASE Worker
  BY <1>1, <1>3, SyncKeeps, EndServeKeeps, OfferKeeps, OfferRemoteKeeps, RequestRemoteKeeps,
     HandleDataKeeps, ReceiveKeeps, PublishKeeps, EndKeeps DEF Worker, Records
<1>4. CASE Host
  BY <1>4, HostActions, EnvironmentActions DEF Host
<1>5. CASE Server
  BY <1>5, BeginCheck, ServerProvidesKeeps, ServerAnnouncesKeeps DEF Server
<1>6. CASE Attempts
  BY <1>6, EnvironmentActions, AttemptActions DEF Attempts
<1>7. CASE RunOffer \/ RunClear \/ DrainInput
  BY <1>7, BeginCheck, RunClearKeeps
<1>8. CASE UNCHANGED vars
  <2> USE <1>8 DEF vars, ClipboardInv
  <2>1. TypeOK' /\ Places' /\ RoutesKnown' BY DEF TypeOK, Places, RoutesKnown, NotAhead
  <2>2. Watched' /\ TakeVouched' /\ SendVouched'
    BY DEF Watched, TakeVouched, SendVouched, Taking, Sending
  <2>3. ServesLocal' /\ Yielded' /\ OneOwner' BY DEF ServesLocal, Yielded, OneOwner
  <2>4. TakenAllowed' /\ SentAllowed' BY DEF TakenAllowed, SentAllowed, At
  <2> QED BY <2>1, <2>2, <2>3, <2>4
<1> QED BY <1>2, <1>3, <1>4, <1>5, <1>6, <1>7, <1>8 DEF Next

\* The inductive invariant: types, where threads are in their calls, which routes checks
\* under way vouch for, and the three properties.
THEOREM ClipboardInvariant == Spec => []ClipboardInv
BY InitHolds, StepKeeps, PTL DEF Spec

\* For every kind of server and any number of changes: take() hands out nothing but what was
\* received for a route that was current and allowed at one instant of the call.
THEOREM TakenIsAllowed == Spec => []TakenAllowed
<1>1. ClipboardInv => TakenAllowed BY DEF ClipboardInv
<1> QED BY <1>1, ClipboardInvariant, PTL

\* The host's text is sent only if at one instant of the handler its attempt, focus and
\* policy were those it was offered under, and allowed it.
THEOREM SentIsAllowed == Spec => []SentAllowed
<1>1. ClipboardInv => SentAllowed BY DEF ClipboardInv
<1> QED BY <1>1, ClipboardInvariant, PTL

\* Host and server never both own the clipboard: offerClipboard() empties the mailbox and
\* whatever the server announces or sends drops the host's text first.
THEOREM ClipboardHasOneOwner == Spec => []OneOwner
<1>1. ClipboardInv => OneOwner BY DEF ClipboardInv
<1> QED BY <1>1, ClipboardInvariant, PTL
=============================================================================

----------------------------- MODULE InputPath -----------------------------
(***************************************************************************)
(* Keyboard and pointer input from the host threads to the server: the     *)
(* mailbox (InputQueue.cxx), the worker's drain loop, pointer throttling   *)
(* and middle-button emulation with their timers, and the keys and buttons *)
(* the connection holds down (ProtocolSession.cxx).                        *)
(*                                                                         *)
(* A mailbox method runs under its mutex and is one step.  The worker      *)
(* takes a command in one step and sends it in the next, where it may read *)
(* the mailbox's status again; its own state, io, is not shared, so each   *)
(* of its methods is an operator from io to io.  A refused call changes    *)
(* nothing and is a stuttering step.                                       *)
(***************************************************************************)
EXTENDS MiddleButtonEmulator, FiniteSets, SequencesExt

CONSTANTS
  Keys,          \* physical keys (keyId)
  Symbols,       \* what a key produces: a (keySym, keyCode) pair
  Masks,         \* button masks the host reports
  Capacity,      \* SessionBufferLimits::inputCommands
  HeldKeys,      \* SessionBufferLimits::heldKeys
  Throttled,     \* pointerEventInterval is not zero
  MayEmulate,    \* hosts may switch middle-button emulation on
  Hosts,         \* threads that call the mailbox
  MaxPosition,   \* bound on pointer motion
  MaxRevision,   \* bound on the routing revision (2^64 - 1 in the code)
  MaxGeneration  \* bound on connection attempts

ASSUME InputBounds ==
  /\ {Capacity, HeldKeys, Hosts, MaxPosition, MaxRevision, MaxGeneration} \subseteq Nat \ {0}
  /\ Throttled \in BOOLEAN /\ MayEmulate \in BOOLEAN
  /\ Masks \subseteq SUBSET (1 .. 9)

VARIABLES
  mailbox,  \* InputQueue::Impl
  told,     \* history: what the hosts were told was accepted, since the last release
  worker,   \* the drain loop: pc, count, and the command in hand with what take()
            \* stamped on it
  link,     \* ProtocolSession: the publisher's generation, connection->ready
  io,       \* ProtocolSession and Connection: input state of the worker, and what
            \* it wrote, as the server sees it
  waking,   \* hosts between their call of the mailbox and SessionWorker::wake()
  wake      \* the transport's wake signal

vars == <<mailbox, told, worker, link, io, waking, wake>>

\* A pointer coordinate is its place on the pointer's path; 0 is before any.
Positions == 1 .. MaxPosition

\* route, attempt and at are histories of a command: the revision and attempt
\* under which the mailbox accepted it; where the pointer was when a key was
\* used or when a pointer command's buttons took their present state.
ReleaseCommand == [kind |-> "ReleaseAll"]
NoTimer == [generation |-> 0, revision |-> 0]
NoPointer == [position |-> 0, buttons |-> {}, route |-> 0]
AtRest == [pc |-> "closed", count |-> 0, command |-> ReleaseCommand, revision |-> 0,
           emulate |-> FALSE]
NothingTold == [path |-> 0, trail |-> 0, made |-> 0, down |-> {}]
NewServer == [keys |-> {}, buttons |-> {}, position |-> 0, route |-> 0, barrier |-> 0]
NewIO == [held |-> <<>>, buttons |-> {}, pointerPosition |-> 0,
          pointerTimer |-> NoTimer, pendingPointer |-> NoPointer, lastButtons |-> {},
          middle |-> NewEmulator, middleTimer |-> NoTimer, middleRevision |-> 0, fed |-> 0,
          server |-> NewServer]

----------------------------------------------------------------------------
(* InputQueue::Impl *)

Check(g) ==
  g = mailbox.generation /\ mailbox.connected /\ ~mailbox.viewOnly /\ mailbox.focused

\* release()
Released(m) ==
  [m EXCEPT !.queue = <<>>, !.buttons = {}, !.releasePending = m.connected]

\* reroute()
Rerouted(m) == [m EXCEPT !.routingRevision = @ + 1]
MayReroute == mailbox.routingRevision < MaxRevision

\* overflow(): everything is released and the host has to focus again.
Overflowed(m) == [Released(Rerouted(m)) EXCEPT !.focused = FALSE]

\* begin() and end(): focus, policy and routing revision survive.
Begun(m, g) ==
  [m EXCEPT !.queue = <<>>, !.buttons = {}, !.generation = g,
            !.connected = FALSE, !.releasePending = FALSE]

\* A host that released everything counts on nothing; its pointer stays where it is.
Forgotten(t) == [NothingTold EXCEPT !.path = t.path]

\* push(); t is what the host may count on if there was room.
Push(command, t) ==
  IF Len(mailbox.queue) = Capacity
  THEN /\ MayReroute
       /\ mailbox' = Overflowed(mailbox)
       /\ told' = Forgotten(told)
  ELSE /\ mailbox' = [mailbox EXCEPT
            !.queue = Append(@, command),
            !.buttons = IF command.kind = "Pointer" THEN command.buttons ELSE @]
       /\ told' = t

----------------------------------------------------------------------------
(* Hosts: each call of the bridge is a mailbox method and then wake() *)

Calls ==
  /\ waking < Hosts
  /\ waking' = waking + 1
  /\ UNCHANGED <<worker, link, io, wake>>

\* key()
Key(g, key, symbol, down) ==
  /\ Calls
  /\ Check(g)
  /\ Push([kind |-> "Key", keyId |-> key, symbol |-> symbol, down |-> down,
           route |-> mailbox.routingRevision, attempt |-> g, at |-> told.trail],
          [told EXCEPT !.down = IF down THEN @ \cup {key} ELSE @ \ {key}])

\* "Do not move a button transition to a later coordinate, or cross a key event."
Coalesces(transition) ==
  /\ ~transition /\ mailbox.queue # <<>>
  /\ Last(mailbox.queue).kind = "Pointer" /\ ~Last(mailbox.queue).transition

\* pointer(); the path only goes on, so a coordinate is never seen twice.
Pointer(g, position, buttons) ==
  LET transition == buttons # mailbox.buttons
      made == IF transition THEN position ELSE told.made
      command == [kind |-> "Pointer", position |-> position, buttons |-> buttons,
                  transition |-> transition, route |-> mailbox.routingRevision,
                  attempt |-> g, at |-> made]
      t == [told EXCEPT !.path = position, !.trail = position, !.made = made]
  IN /\ Calls
     /\ Check(g)
     /\ position \in {told.path, told.path + 1}
     /\ IF Coalesces(transition)
        THEN /\ mailbox' = [mailbox EXCEPT !.queue = Append(Front(@), command)]
             /\ told' = t
        ELSE Push(command, t)

\* Every change of focus, view-only or emulation starts a new route; the ones
\* that take input away release it.
Reroute(m, changed, release) ==
  /\ changed => MayReroute
  /\ LET r == IF changed THEN Rerouted(m) ELSE m
     IN mailbox' = IF release THEN Released(r) ELSE r
  /\ told' = IF release THEN Forgotten(told) ELSE told

\* setFocused()
SetFocused(g, focused) ==
  /\ Calls
  /\ g = mailbox.generation
  /\ Reroute([mailbox EXCEPT !.focused = focused], mailbox.focused # focused, ~focused)

\* releaseAll()
ReleaseAll(g) ==
  /\ Calls
  /\ g = mailbox.generation /\ mailbox.connected
  /\ Reroute(mailbox, TRUE, TRUE)

\* setPolicy(); setViewOnly() keeps the emulation setting.
SetPolicy(viewOnly, emulate) ==
  /\ Calls
  /\ Reroute([mailbox EXCEPT !.viewOnly = viewOnly, !.emulateMiddle = emulate],
             mailbox.viewOnly # viewOnly \/ mailbox.emulateMiddle # emulate,
             viewOnly \/ mailbox.emulateMiddle # emulate)

\* wake()
Wake ==
  /\ waking > 0
  /\ waking' = waking - 1
  /\ wake' = TRUE
  /\ UNCHANGED <<mailbox, told, worker, link, io>>

----------------------------------------------------------------------------
(* Connection and ProtocolSession: operators on the worker's state *)

\* writePointerEvent() of a command.
WritePointer(s, c) ==
  [s EXCEPT !.pointerPosition = c.position, !.buttons = c.buttons,
            !.server.position = c.position, !.server.buttons = c.buttons,
            !.server.route = c.route]

\* releaseInput(): every held key, last pressed first, then the buttons.
ReleaseInput(s) ==
  [s EXCEPT !.held = <<>>, !.buttons = {},
            !.server.keys = @ \ {s.held[i].symbol : i \in DOMAIN s.held},
            !.server.buttons = {},
            !.server.position = IF s.buttons # {} THEN s.pointerPosition ELSE @]

Holding(s, key) == \E i \in DOMAIN s.held : s.held[i].keyId = key
HeldIndex(s, key) == CHOOSE i \in DOMAIN s.held : s.held[i].keyId = key

\* Mutant: the release carries the symbol the key has now.
ReleaseSymbol_Now(s, c) == c.symbol

\* A release names the symbol that was pressed, whatever the key produces now.
ReleaseSymbol(s, c) == s.held[HeldIndex(s, c.keyId)].symbol

\* Connection::sendInput() for a key; no room is the caller's business.
NoRoom(s, c) == c.down /\ ~Holding(s, c.keyId) /\ Len(s.held) = HeldKeys
SendKey(s, c) ==
  LET held == IF c.down /\ ~Holding(s, c.keyId)
              THEN Append(s.held, [keyId |-> c.keyId, symbol |-> c.symbol]) ELSE s.held
  IN CASE c.down ->
            [s EXCEPT !.held = held,
                      !.server.keys = @ \cup {held[CHOOSE i \in DOMAIN held :
                                                     held[i].keyId = c.keyId].symbol},
                      !.server.route = c.route]
       [] ~c.down /\ Holding(s, c.keyId) ->
            [s EXCEPT !.held = RemoveAt(@, HeldIndex(s, c.keyId)),
                      !.server.keys = @ \ {ReleaseSymbol(s, c)},
                      !.server.route = c.route]
       [] OTHER -> s

\* resetMiddle() and resetPointer(): delayed input is dropped.
ResetMiddle(s) ==
  [s EXCEPT !.middleTimer = NoTimer, !.middle = NewEmulator, !.middleRevision = 0, !.fed = 0]
ResetPointer(s) ==
  [s EXCEPT !.pointerTimer = NoTimer, !.pendingPointer = NoPointer, !.lastButtons = {}]

\* Mutant: delayed input is sent without asking where input goes now.
RouteCurrent_Always(t) == link.ready /\ mailbox.connected

\* The test of every delayed send: same attempt, same route, input allowed.
RouteCurrent(t) ==
  /\ link.ready
  /\ link.generation = t.generation /\ mailbox.generation = t.generation
  /\ mailbox.routingRevision = t.revision
  /\ mailbox.connected /\ mailbox.focused /\ ~mailbox.viewOnly

Here(s) == [generation |-> link.generation, revision |-> s.middleRevision]

\* flushPointer(): delayed motion goes first, or not at all.
FlushPointer(s) ==
  IF s.pointerTimer = NoTimer THEN s
  ELSE IF RouteCurrent(Here(s)) THEN WritePointer([s EXCEPT !.pointerTimer = NoTimer], s.pendingPointer)
  ELSE ResetPointer(s)

\* pendingPointer = command: the timer sends the latest position.
Postponed(s, c) == [position |-> c.position, buttons |-> c.buttons, route |-> c.route]

\* sendPointer(): a transition is sent at once, motion at the timer's deadline.
SendPointer(s, c) ==
  LET t == [s EXCEPT !.pendingPointer = Postponed(s, c), !.lastButtons = c.buttons]
  IN IF ~Throttled \/ c.buttons # s.lastButtons THEN WritePointer(t, c)
     ELSE [t EXCEPT !.pointerTimer = IF @ = NoTimer THEN Here(s) ELSE @]

\* sendMiddleBatch(): the events of a batch in order; Batch::events has room for three.
SendBatch(s, events) ==
  LET send(t, i) == IF i > Len(events) THEN t
                    ELSE SendPointer(t, [position |-> events[i].position,
                                         buttons |-> events[i].buttons, route |-> s.fed])
  IN send(send(send(s, 1), 2), 3)

\* sendInput() for a pointer command, emulated or not.
SendEmulated(s, c) ==
  LET batch == EmulatedPointer(s.middle, c.position, c.buttons)
      fed == [s EXCEPT !.middle = batch.emulator, !.fed = IF @ = 0 THEN c.route ELSE @]
      sent == SendBatch(fed, batch.events)
  IN IF ~batch.timerChanged THEN sent
     ELSE [sent EXCEPT !.middleTimer = IF Pending(sent.middle) THEN Here(sent) ELSE NoTimer]

\* Mutant: delayed input is carried over to the new route.
Barrier_KeepsDelayed(s, c) == [s EXCEPT !.middleRevision = worker.revision]

\* A command of a new route drops what the old one delayed.
Barrier(s, c) ==
  IF worker.revision # s.middleRevision \/ c.kind = "ReleaseAll"
  THEN [ResetMiddle(ResetPointer(s)) EXCEPT !.middleRevision = worker.revision] ELSE s

----------------------------------------------------------------------------
(* The worker *)

\* prepareAttempt()
PrepareAttempt(g) ==
  /\ worker.pc = "closed"
  /\ g >= link.generation
  /\ link' = [link EXCEPT !.generation = g]
  /\ mailbox' = Begun(mailbox, g)
  /\ told' = NothingTold
  /\ UNCHANGED <<worker, io, waking, wake>>

\* start()
Start ==
  /\ worker.pc = "closed"
  /\ mailbox' = Begun(mailbox, link.generation)
  /\ told' = NothingTold
  /\ io' = NewIO
  /\ worker' = [worker EXCEPT !.pc = "drain", !.count = 0]
  /\ UNCHANGED <<link, waking, wake>>

\* Mutant: one command less in a round.
RoundLimit_Short == Capacity - 1

\* A round takes a full queue and a release: count <= buffers.inputCommands.
RoundLimit == Capacity

\* take(): the release comes before anything that was queued after it.
Take ==
  /\ worker.pc = "drain"
  /\ link.ready
  /\ worker.count <= RoundLimit
  /\ mailbox.connected /\ (mailbox.releasePending \/ mailbox.queue # <<>>)
  /\ LET c == IF mailbox.releasePending THEN ReleaseCommand ELSE Head(mailbox.queue)
     IN worker' = [pc |-> "send", count |-> worker.count + 1, command |-> c,
                   revision |-> mailbox.routingRevision, emulate |-> mailbox.emulateMiddle]
  /\ mailbox' = IF mailbox.releasePending THEN [mailbox EXCEPT !.releasePending = FALSE]
                ELSE [mailbox EXCEPT !.queue = Tail(@)]
  /\ UNCHANGED <<told, link, io, waking, wake>>

\* The end of drainInput(): nothing to take, or the round is over.
Drained ==
  /\ worker.pc = "drain"
  /\ \/ ~link.ready \/ ~mailbox.connected \/ worker.count > RoundLimit
     \/ ~mailbox.releasePending /\ mailbox.queue = <<>>
  /\ worker' = [worker EXCEPT !.pc = "work"]
  /\ UNCHANGED <<mailbox, told, link, io, waking, wake>>

\* sendInput()
Sent(pc) == [AtRest EXCEPT !.pc = pc, !.count = worker.count]
Send ==
  LET c == worker.command
      s == Barrier(io, c)
  IN /\ worker.pc = "send"
     /\ \/ /\ c.kind = "ReleaseAll"
           /\ io' = [ReleaseInput(s) EXCEPT !.server.route = 0, !.server.barrier = worker.revision]
           /\ worker' = Sent("drain")
        \/ /\ c.kind = "Key"
           /\ io' = IF NoRoom(s, c) THEN FlushPointer(s) ELSE SendKey(FlushPointer(s), c)
           /\ worker' = Sent(IF NoRoom(s, c) THEN "overflow" ELSE "drain")
        \/ /\ c.kind = "Pointer"
           /\ io' = IF worker.emulate THEN SendEmulated(s, c) ELSE SendPointer(s, c)
           /\ worker' = Sent("drain")
     /\ UNCHANGED <<mailbox, told, link, waking, wake>>

\* drainInput(), when a key found no room: nothing stays pressed.
HeldOverflow ==
  /\ worker.pc = "overflow"
  /\ MayReroute
  /\ mailbox' = Overflowed(mailbox)
  /\ told' = Forgotten(told)
  /\ io' = [ReleaseInput(ResetMiddle(ResetPointer(io))) EXCEPT
              !.server.route = 0, !.server.barrier = Overflowed(mailbox).routingRevision]
  /\ worker' = [worker EXCEPT !.pc = "work"]
  /\ UNCHANGED <<link, waking, wake>>

\* The pointer timer's callback.
PointerDue(s) ==
  IF RouteCurrent(s.pointerTimer)
  THEN WritePointer([s EXCEPT !.pointerTimer = NoTimer], s.pendingPointer)
  ELSE ResetPointer(s)
PointerTimer ==
  /\ worker.pc = "work"
  /\ io.pointerTimer # NoTimer
  /\ io' = PointerDue(io)
  /\ UNCHANGED <<mailbox, told, worker, link, waking, wake>>

\* The middle-button timer's callback.
MiddleTimer ==
  /\ worker.pc = "work"
  /\ io.middleTimer # NoTimer
  /\ LET s == [io EXCEPT !.middleTimer = NoTimer]
         batch == Expired(s.middle)
     IN io' = IF RouteCurrent(io.middleTimer) /\ mailbox.emulateMiddle
              THEN SendBatch([s EXCEPT !.middle = batch.emulator], batch.events)
              ELSE ResetMiddle(s)
  /\ UNCHANGED <<mailbox, told, worker, link, waking, wake>>

\* initDone()
InitDone ==
  /\ worker.pc = "work"
  /\ ~link.ready
  /\ link' = [link EXCEPT !.ready = TRUE]
  /\ mailbox' = [mailbox EXCEPT !.connected = TRUE]
  /\ UNCHANGED <<told, worker, io, waking, wake>>

\* transport->wait(): nothing to read, then a signal, a deadline or a message.
Sleep ==
  /\ worker.pc = "work"
  /\ worker' = [worker EXCEPT !.pc = "asleep"]
  /\ UNCHANGED <<mailbox, told, link, io, waking, wake>>
WaitReturns ==
  /\ worker.pc = "asleep"
  /\ wake' = FALSE
  /\ worker' = [worker EXCEPT !.pc = "drain", !.count = 0]
  /\ UNCHANGED <<mailbox, told, link, io, waking>>

\* The release writes of finish(); nothing can be held before initDone().
AtEnd(s) == IF link.ready THEN ReleaseInput(s) ELSE s

\* finish(), on close() and on every exception: what is held is released on
\* the wire, and the connection goes away.
Finish ==
  /\ worker.pc # "closed"
  /\ link' = [generation |-> link.generation + 1, ready |-> FALSE]
  /\ mailbox' = Begun(mailbox, link.generation + 1)
  /\ told' = NothingTold
  /\ io' = AtEnd(ResetMiddle(ResetPointer(io)))
  /\ worker' = AtRest
  /\ UNCHANGED <<waking, wake>>

----------------------------------------------------------------------------
Init ==
  /\ mailbox = [generation |-> 1, routingRevision |-> 1, connected |-> FALSE,
                focused |-> TRUE, viewOnly |-> FALSE, releasePending |-> FALSE,
                emulateMiddle |-> FALSE, buttons |-> {}, queue |-> <<>>]
  /\ told = NothingTold
  /\ worker = AtRest
  /\ link = [generation |-> 1, ready |-> FALSE]
  /\ io = NewIO
  /\ waking = 0 /\ wake = FALSE

HostStep ==
  \/ Wake
  \/ \E g \in 1 .. MaxGeneration :
       \/ \E key \in Keys, symbol \in Symbols, down \in BOOLEAN : Key(g, key, symbol, down)
       \/ \E position \in Positions, buttons \in Masks : Pointer(g, position, buttons)
       \/ \E focused \in BOOLEAN : SetFocused(g, focused)
       \/ ReleaseAll(g)
  \/ \E viewOnly \in BOOLEAN, emulate \in {FALSE, MayEmulate} : SetPolicy(viewOnly, emulate)

WorkerStep ==
  \/ \E g \in 1 .. MaxGeneration : PrepareAttempt(g)
  \/ link.generation <= MaxGeneration /\ Start
  \/ Take \/ Drained \/ Send \/ HeldOverflow
  \/ PointerTimer \/ MiddleTimer \/ InitDone \/ Sleep \/ WaitReturns \/ Finish

Next == HostStep \/ WorkerStep
Spec == Init /\ [][Next]_vars

----------------------------------------------------------------------------
(* Properties *)

\* Types and limits: queue, round and held keys stay within their bounds.
TypeOK ==
  /\ mailbox.generation \in Nat /\ mailbox.routingRevision \in 1 .. MaxRevision
  /\ Len(mailbox.queue) <= Capacity
  /\ mailbox.buttons \in SUBSET (1 .. 9)
  /\ told.path \in 0 .. MaxPosition /\ told.down \subseteq Keys
  /\ worker.pc \in {"closed", "drain", "send", "overflow", "work", "asleep"}
  /\ worker.count \in 0 .. Capacity + 1
  /\ Len(io.held) <= HeldKeys
  /\ io.middle.state \in 0 .. 10
  /\ io.server.keys \subseteq Symbols
  /\ waking \in 0 .. Hosts /\ wake \in BOOLEAN

Clear(s) == s.server.keys = {} /\ s.server.buttons = {}

\* A viewer that is not focused, is view-only or is disconnected holds nothing
\* down on the server once the worker has handled the release: neither a command
\* already dequeued nor a timer presses anything afterwards (release(), take(),
\* RouteCurrent).
NothingLeftPressed ==
  /\ (~mailbox.focused \/ mailbox.viewOnly) /\ ~mailbox.releasePending
     /\ worker.pc \in {"drain", "work", "asleep"} => Clear(io)
  /\ worker.pc = "closed" => Clear(io)

\* Nothing that was accepted before a release is written after it, not even
\* motion or a press that was held back for a timer (sendInput(), flushPointer()).
ReleaseIsBarrier == io.server.route # 0 => io.server.route >= io.server.barrier

\* A timer writes only input that was accepted under the present route, also in
\* the window between a change of focus or policy and the worker's handling of
\* the release (the callbacks of sendPointer() and sendInput()).
DelayedOnRoute ==
  [][worker.pc = "work" /\ worker'.pc = "work" /\ io'.server # io.server
     => io'.server.route = mailbox.routingRevision /\ mailbox.focused]_vars

\* The connection knows everything the server holds down, under the symbol the
\* server knows, so releaseInput() leaves nothing behind.
HeldCoversServer ==
  /\ io.server.keys \subseteq {io.held[i].symbol : i \in DOMAIN io.held}
  /\ io.server.buttons = io.buttons

\* A key is written where the pointer was when it was used, and a button changes
\* where the host changed it, whatever motion is coalesced or held back in
\* between; and the pointer never jumps back on the server (pointer(),
\* flushPointer(), sendPointer(), MiddleButtonEmulator).
InPlace ==
  [][/\ worker.pc # "closed" => io'.server.position >= io.server.position
     /\ LET c == worker.command
        IN /\ worker.pc = "send" /\ worker'.pc = "drain" /\ c.kind # "ReleaseAll"
           /\ ~worker.emulate /\ c.route = mailbox.routingRevision /\ c.at # 0
           /\ c.kind = "Pointer" => io'.server.buttons # io.server.buttons
           => io'.server.position = c.at]_vars

\* What is written is written for the present route and in its place.
SentAsAccepted == DelayedOnRoute /\ InPlace

\* No signal is pending, and no host is about to give one.
Quiet == worker.pc = "asleep" /\ ~wake /\ waking = 0

\* The worker does not go to sleep on accepted input: a round is long enough for
\* everything whose signal it consumed (drainInput(), wake()).
NothingStranded ==
  Quiet /\ link.ready => /\ mailbox.queue = <<>>
                         /\ mailbox.releasePending => Clear(io)

\* Once quiet and without a timer running, the server is where the host is: the
\* keys and buttons the host was told were accepted, at its last coordinate.
\* Under emulation left and right may show as middle.
ServerCatchesUp ==
  Quiet /\ link.ready /\ io.pointerTimer = NoTimer /\ io.middleTimer = NoTimer =>
    /\ {io.held[i].keyId : i \in DOMAIN io.held} = told.down
    /\ IF mailbox.emulateMiddle
       THEN (io.server.buttons = {}) = (mailbox.buttons = {})
       ELSE /\ io.server.buttons = mailbox.buttons
            /\ told.trail # 0 => io.server.position = told.trail

\* Accepted input arrives: none is slept on, and in the end the server is where the host is.
InputArrives == NothingStranded /\ ServerCatchesUp

\* The emulator shows a button exactly while it is not holding one back and left
\* or right is down: every press it shows is taken back (stateTab).
EmulationInStep ==
  (io.middle.emulated # {}) <=>
    ~Pending(io.middle) /\ io.middle.lastButtons \cap {Left, Right} # {}

\* No key or button can get stuck: the connection knows what the server holds down, and
\* takes it back.
NoStuckInput == NothingLeftPressed /\ HeldCoversServer /\ EmulationInStep
=============================================================================

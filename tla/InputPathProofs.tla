------------------------- MODULE InputPathProofs -------------------------
(***************************************************************************)
(* Proofs about InputPath, for every set of keys and symbols, every        *)
(* capacity, and any number of hosts, routes and attempts.                 *)
(***************************************************************************)
EXTENDS InputPath, SequenceTheorems, TLAPS

----------------------------------------------------------------------------
(* Types *)

Buttons == SUBSET (1 .. 9)
Places == 0 .. MaxPosition
Routes == 0 .. MaxRevision

KeyCommand == [kind : {"Key"}, keyId : Keys, symbol : Symbols, down : BOOLEAN, route : Routes,
               attempt : Nat, at : Places]
PointerCommand == [kind : {"Pointer"}, position : Places, buttons : Buttons,
                   transition : BOOLEAN, route : Routes, attempt : Nat, at : Places]
Command == KeyCommand \cup PointerCommand

Mailbox == [generation : Nat, routingRevision : 1 .. MaxRevision, connected : BOOLEAN,
            focused : BOOLEAN, viewOnly : BOOLEAN, releasePending : BOOLEAN,
            emulateMiddle : BOOLEAN, buttons : Buttons, queue : Seq(Command)]
Told == [path : Places, trail : Places, made : Places, down : SUBSET Keys]
Worker == [pc : {"closed", "drain", "send", "overflow", "work", "asleep"}, count : 0 .. Capacity + 1,
           command : Command \cup {ReleaseCommand}, revision : Routes, emulate : BOOLEAN]
Link == [generation : Nat \ {0}, ready : BOOLEAN]
HeldKey == [keyId : Keys, symbol : Symbols]
Timer == [generation : Nat, revision : Routes]
Delayed == [position : Places, buttons : Buttons, route : Routes]
Emulator == [state : 0 .. 10, emulated : SUBSET (1 .. 3), lastButtons : Buttons,
             original : Places, lastPosition : Places]
Server == [keys : SUBSET Symbols, buttons : Buttons, position : Places, route : Routes,
           barrier : Routes]
IO == [held : Seq(HeldKey), buttons : Buttons, pointerPosition : Places, pointerTimer : Timer,
       pendingPointer : Delayed, lastButtons : Buttons, middle : Emulator, middleTimer : Timer,
       middleRevision : Routes, fed : Routes, server : Server]

Types ==
  /\ mailbox \in Mailbox /\ told \in Told /\ worker \in Worker /\ link \in Link /\ io \in IO
  /\ waking \in 0 .. Hosts /\ wake \in BOOLEAN
  /\ Len(mailbox.queue) <= Capacity /\ Len(io.held) <= HeldKeys

----------------------------------------------------------------------------
(* The worker's input state *)

\* What the server holds down is known under the symbol it was pressed with.
KeysOK(s) ==
  /\ \A i, j \in 1 .. Len(s.held) : s.held[i].keyId = s.held[j].keyId => i = j
  /\ \A y \in s.server.keys : \E i \in 1 .. Len(s.held) : s.held[i].symbol = y

\* Delayed motion belongs to the attempt and to the route of its timer, and to no earlier
\* route than the last release; it is ahead of the server.
PointerOK(s, g) ==
  /\ s.server.buttons = s.buttons /\ s.server.position = s.pointerPosition
  /\ s.server.route # 0 => s.server.barrier <= s.server.route
  /\ s.middleRevision # 0 => s.server.barrier <= s.middleRevision
  /\ s.pointerTimer # NoTimer =>
       /\ s.pointerTimer.generation = g /\ s.pointerTimer.revision # 0
       /\ s.server.barrier <= s.pointerTimer.revision
       /\ s.pendingPointer.route = s.pointerTimer.revision
       /\ s.middleRevision \in {0, s.pointerTimer.revision}
       /\ s.server.position <= s.pendingPointer.position

\* Where the pointer is or will be once the timer has fired.
Reached(s) == IF s.pointerTimer # NoTimer THEN s.pendingPointer.position ELSE s.server.position

\* What the emulator shows, and what is pressed, in each of its states.
ShownIn == << {}, {}, {}, {Middle}, {Left}, {Right}, {Middle}, {Middle}, {Left, Middle},
              {Middle, Right}, {Left, Right} >>
PressedIn == << {}, {Left}, {Right}, {Left, Right}, {Left}, {Right}, {Right}, {Left},
                {Left, Right}, {Left, Right}, {Left, Right} >>
InState(m) ==
  /\ m.emulated = ShownIn[m.state + 1]
  /\ m.lastButtons \cap {Left, Right} = PressedIn[m.state + 1]

\* The emulator, its timer and the route it was fed from.
MiddleOK(s, g) ==
  /\ InState(s.middle)
  /\ Pending(s.middle) <=> s.middleTimer # NoTimer
  /\ s.middleTimer # NoTimer => /\ s.middleTimer = [generation |-> g, revision |-> s.middleRevision]
                                /\ s.fed # 0
                                /\ Reached(s) <= s.middle.original
                                /\ s.middle.original <= s.middle.lastPosition
  /\ s.fed # 0 => s.fed = s.middleRevision
  /\ s.fed = 0 => s.middle = NewEmulator

\* Server, timer and the last buttons sent agree.
Even(s) ==
  /\ s.server.buttons = s.lastButtons
  /\ s.pointerTimer # NoTimer => s.pendingPointer.buttons = s.lastButtons

\* A press that is not held back is shown.
Shows(s) == ~Pending(s.middle) => s.lastButtons = Mask(s.middle.emulated, s.middle.lastButtons)

IoKnown == KeysOK(io) /\ PointerOK(io, link.generation) /\ MiddleOK(io, link.generation)

----------------------------------------------------------------------------
(* Routes *)

InHand == worker.pc = "send" /\ worker.command # ReleaseCommand
Releasing == worker.pc = "send" /\ worker.command = ReleaseCommand
Settled == worker.pc \in {"drain", "work", "asleep"} \/ InHand
Allowed == mailbox.focused = TRUE /\ mailbox.viewOnly = FALSE
OnRoute == io.middleRevision = mailbox.routingRevision
Blank == io.held = <<>> /\ Clear(io)
Untold == mailbox.buttons = {} /\ told.trail = 0 /\ told.down = {}

\* Mailbox, connection and worker are of one attempt.
LinkKnown ==
  /\ mailbox.generation = link.generation /\ mailbox.connected = link.ready
  /\ worker.pc \in {"send", "overflow"} => link.ready = TRUE
  /\ worker.pc = "closed" => link.ready = FALSE
  /\ link.ready = FALSE =>
       /\ mailbox.queue = <<>> /\ mailbox.releasePending = FALSE /\ Untold
       /\ Blank /\ io.buttons = {} /\ io.pointerTimer = NoTimer /\ io.middleTimer = NoTimer
       /\ io.middleRevision = 0 /\ io.lastButtons = {}

\* What is queued was accepted under the present route; where input is not allowed,
\* there is none.
QueueKnown ==
  /\ \A i \in 1 .. Len(mailbox.queue) : mailbox.queue[i].route = mailbox.routingRevision
  /\ ~Allowed => mailbox.queue = <<>> /\ Untold

\* The command in hand is of the present route exactly as long as nothing was released.
HandKnown ==
  /\ worker.pc = "send" => worker.revision \in 1 .. mailbox.routingRevision
  /\ InHand =>
       /\ worker.command.route = worker.revision
       /\ mailbox.releasePending = FALSE => worker.revision = mailbox.routingRevision
       /\ worker.revision = mailbox.routingRevision =>
            /\ mailbox.releasePending = FALSE /\ Allowed
            /\ worker.emulate = mailbox.emulateMiddle

\* The worker is never ahead of the mailbox, and a release is not taken back.  The emulator
\* is only fed where the route emulates, and it lets go of the route only when delayed
\* motion of that route may not be sent any more.
RoutesKnown ==
  /\ io.server.barrier <= mailbox.routingRevision /\ io.middleRevision <= mailbox.routingRevision
  /\ worker.pc = "send" => /\ io.server.barrier <= worker.revision
                           /\ io.middleRevision <= worker.revision
                           /\ io.fed # 0 /\ io.middleRevision = worker.revision =>
                                worker.emulate = TRUE
  /\ io.fed # 0 /\ OnRoute => mailbox.emulateMiddle = TRUE
  /\ io.pointerTimer.revision <= mailbox.routingRevision
  /\ io.pointerTimer # NoTimer /\ io.pointerTimer.revision = mailbox.routingRevision /\ Allowed =>
       io.middleRevision # 0

\* With no release to come: off the route, or where input is not allowed, nothing is
\* pressed; on it, what was sent last is what the server shows.
PressKnown ==
  /\ mailbox.releasePending = FALSE /\ Settled /\ ~(OnRoute /\ Allowed) => Clear(io)
  /\ mailbox.releasePending = FALSE /\ Settled /\ OnRoute =>
       /\ Even(io)
       /\ mailbox.emulateMiddle = TRUE => Shows(io)
  /\ worker.pc = "closed" => Clear(io)

----------------------------------------------------------------------------
(* Order *)

IsPointer(c) == c.kind = "Pointer"
IsKey(c, k) == c.kind = "Key" /\ c.keyId = k

\* A place that the pointer has not passed, neither on the server nor in the emulator.
Ahead(s, p) == Reached(s) <= p /\ (s.middleTimer # NoTimer => s.middle.lastPosition <= p)

\* The pointer only goes on along the queue, up to where the host is.
Ordered(q, path) ==
  \A i \in 1 .. Len(q) : IsPointer(q[i]) =>
    /\ q[i].position <= path
    /\ \A j \in i + 1 .. Len(q) : IsPointer(q[j]) => q[i].position <= q[j].position
Follows(q, p) == \A i \in 1 .. Len(q) : IsPointer(q[i]) => p <= q[i].position
AheadOf(q, s) == \A i \in 1 .. Len(q) : IsPointer(q[i]) => Ahead(s, q[i].position)

\* The pointer only goes on: server, delayed motion, command in hand, queue, host.
PathKnown ==
  worker.pc # "closed" =>
    /\ Ahead(io, told.path)
    /\ AheadOf(mailbox.queue, io) /\ Ordered(mailbox.queue, told.path)
    /\ InHand /\ IsPointer(worker.command) =>
         /\ Ahead(io, worker.command.position) /\ worker.command.position <= told.path
         /\ Follows(mailbox.queue, worker.command.position)

\* The buttons and the place of the pointer before entry n of a queue, from what they are
\* before the queue.
NoPointerIn(q, a, b) == \A k \in a .. b : ~IsPointer(q[k])
ButtonsBefore(q, base, n, b) ==
  \/ \E j \in 1 .. n - 1 : /\ IsPointer(q[j]) /\ q[j].buttons = b
                           /\ NoPointerIn(q, j + 1, n - 1)
  \/ NoPointerIn(q, 1, n - 1) /\ b = base
PlaceBefore(q, base, n, p) ==
  \/ \E j \in 1 .. n - 1 : /\ IsPointer(q[j]) /\ q[j].position = p
                           /\ NoPointerIn(q, j + 1, n - 1)
  \/ NoPointerIn(q, 1, n - 1) /\ p \in base

\* The key is down after the queue.
NoKeyIn(q, k, a) == \A i \in a .. Len(q) : ~IsKey(q[i], k)
DownAtEnd(q, base, k) ==
  \/ \E j \in 1 .. Len(q) : IsKey(q[j], k) /\ q[j].down = TRUE /\ NoKeyIn(q, k, j + 1)
  \/ NoKeyIn(q, k, 1) /\ k \in base

\* A key is used where the pointer was, a button that changes changes where the command is.
KeyFits(q, places) ==
  \A i \in 1 .. Len(q) : q[i].kind = "Key" => PlaceBefore(q, places, i, q[i].at)
ButtonsFit(q, buttons) ==
  \A i \in 1 .. Len(q) : IsPointer(q[i]) =>
    IF q[i].transition = TRUE THEN q[i].at = q[i].position
    ELSE ButtonsBefore(q, buttons, i, q[i].buttons)

\* Buttons and place as the worker has them: what was fed last on the route.
IoButtons == IF ~OnRoute THEN {}
             ELSE IF mailbox.emulateMiddle = TRUE THEN io.middle.lastButtons ELSE io.lastButtons
IoPlaces == IF ~OnRoute THEN {0}
            ELSE IF mailbox.emulateMiddle = TRUE THEN Places ELSE {0, Reached(io)}
KeyIds(s) == {s.held[i].keyId : i \in 1 .. Len(s.held)}

\* ... and once the release or the command in hand is done.
ToRelease == mailbox.releasePending = TRUE \/ Releasing
BaseButtons == IF ToRelease THEN {}
               ELSE IF InHand /\ IsPointer(worker.command) THEN worker.command.buttons ELSE IoButtons
BasePlaces == IF ToRelease THEN {0}
              ELSE IF InHand /\ IsPointer(worker.command) THEN {worker.command.position} ELSE IoPlaces
KeysAfter(S, c) == IF c.down = TRUE THEN S \cup {c.keyId} ELSE S \ {c.keyId}
BaseKeys == IF ToRelease THEN {}
            ELSE IF InHand /\ worker.command.kind = "Key" THEN KeysAfter(KeyIds(io), worker.command)
            ELSE KeyIds(io)

\* What the hosts count on is what the queue makes of what the worker has.
ButtonsTold(q, base, buttons) == ButtonsFit(q, base) /\ ButtonsBefore(q, base, Len(q) + 1, buttons)
PlaceTold(q, base, trail) == KeyFits(q, base) /\ PlaceBefore(q, base, Len(q) + 1, trail)
KeysTold(q, base, down) == \A k \in Keys : k \in down <=> DownAtEnd(q, base, k)
Accounted ==
  worker.pc # "overflow" =>
    /\ ButtonsTold(mailbox.queue, BaseButtons, mailbox.buttons)
    /\ PlaceTold(mailbox.queue, BasePlaces, told.trail)
    /\ KeysTold(mailbox.queue, BaseKeys, told.down)
    /\ InHand /\ mailbox.releasePending = FALSE =>
         /\ worker.command.kind = "Key" => worker.command.at \in IoPlaces
         /\ IsPointer(worker.command) =>
              IF worker.command.transition = TRUE THEN worker.command.at = worker.command.position
              ELSE worker.command.buttons = IoButtons

\* Without a signal to come, what the round has left to take fits in it.
Owed == Len(mailbox.queue) + (IF mailbox.releasePending = TRUE THEN 1 ELSE 0)
Budgeted ==
  link.ready = TRUE /\ waking = 0 /\ wake = FALSE =>
    /\ worker.pc \in {"drain", "send"} => worker.count + Owed <= Capacity + 1
    /\ worker.pc \in {"work", "asleep"} =>
         /\ mailbox.queue = <<>>
         /\ mailbox.releasePending = TRUE =>
              Blank /\ io.pointerTimer = NoTimer /\ io.middleTimer = NoTimer

InputInv ==
  /\ Types /\ IoKnown /\ LinkKnown /\ QueueKnown /\ HandKnown /\ RoutesKnown /\ PressKnown
  /\ PathKnown /\ Accounted /\ Budgeted

----------------------------------------------------------------------------
(* The emulator *)

DownIn(e) == IF e = 1 THEN {} ELSE IF e = 2 THEN {Left} ELSE IF e = 3 THEN {Right} ELSE {Left, Right}

RowOK(st, e) ==
  LET row == StateTab[st + 1][e]
  IN /\ row[3] \in 0 .. 10 /\ row[1] \in -3 .. 3 /\ row[2] \in -3 .. 0
     /\ Acted(Acted(ShownIn[st + 1], row[1]), row[2]) = ShownIn[row[3] + 1]
     /\ PressedIn[row[3] + 1] = DownIn(e)
     /\ row[1] = 0 => row[2] = 0
     /\ st \in {1, 2} /\ row[1] = 0 => row[3] = st
     /\ st \in {1, 2} /\ row[1] # 0 => row[3] # st

\* The table keeps to the states' meaning (stateTab).
LEMMA Rows == \A st \in 0 .. 10 : \A e \in 1 .. 4 : RowOK(st, e)
<1>0. \A e \in 1 .. 4 : RowOK(0, e)
  <2> USE DEF RowOK, StateTab, ShownIn, PressedIn, DownIn, Acted, Left, Middle, Right
  <2>1. RowOK(0, 1)
    OBVIOUS
  <2>2. RowOK(0, 2)
    OBVIOUS
  <2>3. RowOK(0, 3)
    OBVIOUS
  <2>4. RowOK(0, 4)
    OBVIOUS
  <2> HIDE DEF RowOK
  <2> QED
    BY <2>1, <2>2, <2>3, <2>4
<1>1. \A e \in 1 .. 4 : RowOK(1, e)
  <2> USE DEF RowOK, StateTab, ShownIn, PressedIn, DownIn, Acted, Left, Middle, Right
  <2>1. RowOK(1, 1)
    OBVIOUS
  <2>2. RowOK(1, 2)
    OBVIOUS
  <2>3. RowOK(1, 3)
    OBVIOUS
  <2>4. RowOK(1, 4)
    OBVIOUS
  <2> HIDE DEF RowOK
  <2> QED
    BY <2>1, <2>2, <2>3, <2>4
<1>2. \A e \in 1 .. 4 : RowOK(2, e)
  <2> USE DEF RowOK, StateTab, ShownIn, PressedIn, DownIn, Acted, Left, Middle, Right
  <2>1. RowOK(2, 1)
    OBVIOUS
  <2>2. RowOK(2, 2)
    OBVIOUS
  <2>3. RowOK(2, 3)
    OBVIOUS
  <2>4. RowOK(2, 4)
    OBVIOUS
  <2> HIDE DEF RowOK
  <2> QED
    BY <2>1, <2>2, <2>3, <2>4
<1>3. \A e \in 1 .. 4 : RowOK(3, e)
  <2> USE DEF RowOK, StateTab, ShownIn, PressedIn, DownIn, Acted, Left, Middle, Right
  <2>1. RowOK(3, 1)
    OBVIOUS
  <2>2. RowOK(3, 2)
    OBVIOUS
  <2>3. RowOK(3, 3)
    OBVIOUS
  <2>4. RowOK(3, 4)
    OBVIOUS
  <2> HIDE DEF RowOK
  <2> QED
    BY <2>1, <2>2, <2>3, <2>4
<1>4. \A e \in 1 .. 4 : RowOK(4, e)
  <2> USE DEF RowOK, StateTab, ShownIn, PressedIn, DownIn, Acted, Left, Middle, Right
  <2>1. RowOK(4, 1)
    OBVIOUS
  <2>2. RowOK(4, 2)
    OBVIOUS
  <2>3. RowOK(4, 3)
    OBVIOUS
  <2>4. RowOK(4, 4)
    OBVIOUS
  <2> HIDE DEF RowOK
  <2> QED
    BY <2>1, <2>2, <2>3, <2>4
<1>5. \A e \in 1 .. 4 : RowOK(5, e)
  <2> USE DEF RowOK, StateTab, ShownIn, PressedIn, DownIn, Acted, Left, Middle, Right
  <2>1. RowOK(5, 1)
    OBVIOUS
  <2>2. RowOK(5, 2)
    OBVIOUS
  <2>3. RowOK(5, 3)
    OBVIOUS
  <2>4. RowOK(5, 4)
    OBVIOUS
  <2> HIDE DEF RowOK
  <2> QED
    BY <2>1, <2>2, <2>3, <2>4
<1>6. \A e \in 1 .. 4 : RowOK(6, e)
  <2> USE DEF RowOK, StateTab, ShownIn, PressedIn, DownIn, Acted, Left, Middle, Right
  <2>1. RowOK(6, 1)
    OBVIOUS
  <2>2. RowOK(6, 2)
    OBVIOUS
  <2>3. RowOK(6, 3)
    OBVIOUS
  <2>4. RowOK(6, 4)
    OBVIOUS
  <2> HIDE DEF RowOK
  <2> QED
    BY <2>1, <2>2, <2>3, <2>4
<1>7. \A e \in 1 .. 4 : RowOK(7, e)
  <2> USE DEF RowOK, StateTab, ShownIn, PressedIn, DownIn, Acted, Left, Middle, Right
  <2>1. RowOK(7, 1)
    OBVIOUS
  <2>2. RowOK(7, 2)
    OBVIOUS
  <2>3. RowOK(7, 3)
    OBVIOUS
  <2>4. RowOK(7, 4)
    OBVIOUS
  <2> HIDE DEF RowOK
  <2> QED
    BY <2>1, <2>2, <2>3, <2>4
<1>8. \A e \in 1 .. 4 : RowOK(8, e)
  <2> USE DEF RowOK, StateTab, ShownIn, PressedIn, DownIn, Acted, Left, Middle, Right
  <2>1. RowOK(8, 1)
    OBVIOUS
  <2>2. RowOK(8, 2)
    OBVIOUS
  <2>3. RowOK(8, 3)
    OBVIOUS
  <2>4. RowOK(8, 4)
    OBVIOUS
  <2> HIDE DEF RowOK
  <2> QED
    BY <2>1, <2>2, <2>3, <2>4
<1>9. \A e \in 1 .. 4 : RowOK(9, e)
  <2> USE DEF RowOK, StateTab, ShownIn, PressedIn, DownIn, Acted, Left, Middle, Right
  <2>1. RowOK(9, 1)
    OBVIOUS
  <2>2. RowOK(9, 2)
    OBVIOUS
  <2>3. RowOK(9, 3)
    OBVIOUS
  <2>4. RowOK(9, 4)
    OBVIOUS
  <2> HIDE DEF RowOK
  <2> QED
    BY <2>1, <2>2, <2>3, <2>4
<1>10. \A e \in 1 .. 4 : RowOK(10, e)
  <2> USE DEF RowOK, StateTab, ShownIn, PressedIn, DownIn, Acted, Left, Middle, Right
  <2>1. RowOK(10, 1)
    OBVIOUS
  <2>2. RowOK(10, 2)
    OBVIOUS
  <2>3. RowOK(10, 3)
    OBVIOUS
  <2>4. RowOK(10, 4)
    OBVIOUS
  <2> HIDE DEF RowOK
  <2> QED
    BY <2>1, <2>2, <2>3, <2>4
<1> QED
  BY <1>0, <1>1, <1>2, <1>3, <1>4, <1>5, <1>6, <1>7, <1>8, <1>9, <1>10

\* A timeout shows the press that was held back.
LEMMA Timeouts ==
  /\ StateTab[2][5] = <<1, 0, 4>> /\ StateTab[3][5] = <<3, 0, 5>>
BY DEF StateTab

\* The buttons that count.
LEMMA EventOf ==
  ASSUME NEW b \in Buttons
  PROVE  Event(b) \in 1 .. 4 /\ b \cap {Left, Right} = DownIn(Event(b))
BY DEF Event, DownIn, Left, Right

\* What the server is shown is a set of buttons.
LEMMA MaskType ==
  ASSUME NEW e \in SUBSET (1 .. 3), NEW b \in Buttons
  PROVE  Mask(e, b) \in Buttons
<1>1. \A x \in e : x \in 1 .. 9
  OBVIOUS
<1>2. \A x \in b : x \in 1 .. 9
  BY DEF Buttons
<1>3. \A x \in Mask(e, b) : x \in e \/ x \in b
  BY DEF Mask
<1> QED
  BY <1>1, <1>2, <1>3 DEF Buttons

\* What the emulator shows in each state are buttons it emulates.
LEMMA ShownType == \A st \in 0 .. 10 : ShownIn[st + 1] \in SUBSET (1 .. 3)
BY DEF ShownIn, Left, Middle, Right

\* Doing nothing.
LEMMA ActedNone == \A S : Acted(S, 0) = S
BY DEF Acted

\* An action of the table leaves a set of emulated buttons.
LEMMA ActedType ==
  ASSUME NEW S \in SUBSET (1 .. 3), NEW a \in -3 .. 3
  PROVE  Acted(S, a) \in SUBSET (1 .. 3)
BY DEF Acted

Shown == [position : Places, buttons : Buttons]

\* Short sequences.
LEMMA Joined ==
  ASSUME NEW x, NEW y
  PROVE  <<>> \o <<>> = <<>> /\ <<x>> \o <<>> = <<x>> /\ <<x>> \o <<y>> = <<x, y>>
<1>1. <<>> \o <<>> = <<>>
  OBVIOUS
<1>2. <<x>> \o <<>> = <<x>>
  <2>1. <<x>> \in Seq({x})
    OBVIOUS
  <2> QED
    BY <2>1, ConcatEmptySeq
<1>3. <<x>> \o <<y>> = <<x, y>>
  <2>1. /\ <<x>> \in Seq({x, y}) /\ <<y>> \in Seq({x, y}) /\ <<x, y>> \in Seq({x, y})
        /\ Len(<<x>>) = 1 /\ Len(<<y>>) = 1 /\ Len(<<x, y>>) = 2
        /\ <<x>>[1] = x /\ <<y>>[1] = y /\ <<x, y>>[1] = x /\ <<x, y>>[2] = y
    OBVIOUS
  <2>2. /\ <<x>> \o <<y>> \in Seq({x, y}) /\ Len(<<x>> \o <<y>>) = 2
        /\ (<<x>> \o <<y>>)[1] = x /\ (<<x>> \o <<y>>)[2] = y
    BY <2>1, ConcatProperties
  <2> DEFINE joined == <<x>> \o <<y>>
             pair == <<x, y>>
  <2>3. /\ joined \in Seq({x, y}) /\ pair \in Seq({x, y}) /\ Len(joined) = 2 /\ Len(pair) = 2
        /\ joined[1] = pair[1] /\ joined[2] = pair[2]
    BY <2>1, <2>2
  <2> HIDE DEF joined, pair
  <2>4. \A i \in 1 .. Len(joined) : joined[i] = pair[i]
    BY ONLY <2>3
  <2>5. joined = pair
    BY ONLY <2>3, <2>4, SeqEqual
  <2> QED
    BY <2>5 DEF joined, pair
<1> QED
  BY <1>1, <1>2, <1>3

\* One or two events are sent in order.
LEMMA ActionsSent ==
  ASSUME NEW m \in Emulator, NEW row, row[1] \in -3 .. 3, row[2] \in -3 .. 0, row[1] = 0 => row[2] = 0,
         NEW b \in Buttons, NEW places, places[1] \in Places, places[2] \in Places,
         NEW acted, acted = Actions(m, row, b, places)
  PROVE  /\ row[1] = 0 => acted = <<>>
         /\ row[1] # 0 /\ row[2] = 0 =>
              acted = <<[position |-> places[1], buttons |-> Mask(Acted(m.emulated, row[1]), b)]>>
         /\ row[2] # 0 =>
              acted = <<[position |-> places[1], buttons |-> Mask(Acted(m.emulated, row[1]), b)],
                        [position |-> places[2],
                         buttons |-> Mask(Acted(Acted(m.emulated, row[1]), row[2]), b)]>>
<1> DEFINE e1 == [position |-> places[1], buttons |-> Mask(Acted(m.emulated, row[1]), b)]
           e2 == [position |-> places[2], buttons |-> Mask(Acted(Acted(m.emulated, row[1]), row[2]), b)]
           s1 == IF row[1] = 0 THEN <<>> ELSE <<e1>>
           s2 == IF row[2] = 0 THEN <<>> ELSE <<e2>>
<1>1. acted = s1 \o s2
  BY DEF Actions, After
<1> HIDE DEF e1, e2
<1>2. /\ <<>> \o <<>> = <<>> /\ <<e1>> \o <<>> = <<e1>> /\ <<e1>> \o <<e2>> = <<e1, e2>>
  BY Joined
<1>3. CASE row[1] = 0
  BY <1>1, <1>2, <1>3
<1>4. CASE row[1] # 0 /\ row[2] = 0
  BY <1>1, <1>2, <1>4 DEF e1
<1>5. CASE row[2] # 0
  BY <1>1, <1>2, <1>5 DEF e1, e2
<1> QED
  BY <1>3, <1>4, <1>5

\* What a batch of the emulator m is worth, for a pointer at p with buttons b.
Emulates(m, p, b, batch) ==
  /\ batch.emulator \in Emulator /\ InState(batch.emulator)
  /\ batch.emulator.lastButtons = b /\ batch.emulator.lastPosition = p
  /\ batch.timerChanged \in BOOLEAN
  /\ batch.timerChanged = FALSE =>
       /\ Pending(batch.emulator) <=> Pending(m)
       /\ batch.emulator.original = m.original
  /\ batch.timerChanged = TRUE /\ Pending(batch.emulator) => batch.emulator.original = p
  /\ batch.events \in Seq(Shown) /\ Len(batch.events) <= 2
  /\ Pending(batch.emulator) /\ batch.timerChanged = FALSE => Len(batch.events) = 0
  /\ \A i \in 1 .. Len(batch.events) :
       batch.events[i].position = p
         \/ (i = 1 /\ Pending(m) /\ batch.events[i].position = m.original)
  /\ ~Pending(batch.emulator) =>
       /\ Len(batch.events) >= 1
       /\ batch.events[Len(batch.events)].buttons = Mask(batch.emulator.emulated, b)

\* pointer(): the state keeps its meaning, and unless a press is held back the last event
\* shows what the emulator shows.
LEMMA PointerEmulated ==
  ASSUME NEW m \in Emulator, InState(m), NEW p \in Places, NEW b \in Buttons,
         NEW batch, batch = EmulatedPointer(m, p, b)
  PROVE  Emulates(m, p, b, batch)
<1> DEFINE row == StateTab[m.state + 1][Event(b)]
           places == [i \in 1 .. 2 |-> PressPlace(m, p, row[i])]
           acted == Actions(m, row, b, places)
           shown == After(m, row, 2)
           r == row[3]
           changed == m.state # r
           now == [m EXCEPT !.state = r, !.emulated = shown, !.lastButtons = b, !.lastPosition = p]
           next == IF changed /\ Pending(now) THEN [now EXCEPT !.original = p] ELSE now
           still == [position |-> p, buttons |-> Mask(m.emulated, b)]
           events == IF row[1] = 0 /\ row[2] = 0 /\ ~Pending(m) THEN <<still>> ELSE acted
<1>1. batch.emulator = next /\ batch.events = events /\ batch.timerChanged = changed
  BY DEF EmulatedPointer
<1>2. RowOK(m.state, Event(b)) /\ m.state \in 0 .. 10 /\ b \cap {Left, Right} = DownIn(Event(b))
  BY Rows, EventOf DEF Emulator
<1>3. /\ r \in 0 .. 10 /\ row[1] \in -3 .. 3 /\ row[2] \in -3 .. 0 /\ (row[1] = 0 => row[2] = 0)
      /\ PressedIn[r + 1] = DownIn(Event(b))
      /\ (m.state \in {1, 2} /\ row[1] = 0 => r = m.state)
      /\ (m.state \in {1, 2} /\ row[1] # 0 => r # m.state)
  BY <1>2 DEF RowOK
<1>4. shown = ShownIn[r + 1] /\ shown = Acted(Acted(m.emulated, row[1]), row[2])
  BY <1>2 DEF RowOK, After, InState
<1>5. shown \in SUBSET (1 .. 3) /\ m.emulated \in SUBSET (1 .. 3) /\ Acted(m.emulated, row[1]) \in SUBSET (1 .. 3)
  BY <1>3, <1>4, ShownType, ActedType DEF Emulator
<1>6. places[1] = (IF Pending(m) /\ row[1] > 0 THEN m.original ELSE p) /\ places[2] = p
  BY <1>3 DEF PressPlace
<1>7. m.original \in Places
  BY DEF Emulator
<1>8. places[1] \in Places /\ places[2] \in Places
  BY <1>6, <1>7
<1> HIDE DEF row, places
<1>9. /\ row[1] = 0 => acted = <<>>
      /\ row[1] # 0 /\ row[2] = 0 =>
           acted = <<[position |-> places[1], buttons |-> Mask(Acted(m.emulated, row[1]), b)]>>
      /\ row[2] # 0 =>
           acted = <<[position |-> places[1], buttons |-> Mask(Acted(m.emulated, row[1]), b)],
                     [position |-> places[2],
                      buttons |-> Mask(Acted(Acted(m.emulated, row[1]), row[2]), b)]>>
  BY <1>3, <1>8, ActionsSent
<1> HIDE DEF acted, shown, r
<1>10. /\ now \in Emulator /\ now.state = r /\ now.emulated = shown /\ now.lastButtons = b
       /\ now.lastPosition = p /\ now.original = m.original
  BY <1>3, <1>5 DEF Emulator
<1> HIDE DEF now
<1>11. /\ next \in Emulator /\ next.state = r /\ next.emulated = shown /\ next.lastButtons = b
       /\ next.lastPosition = p
       /\ next.original = IF changed /\ Pending(now) THEN p ELSE m.original
  BY <1>10 DEF Emulator
<1> HIDE DEF next
<1>12. Pending(now) <=> r \in {1, 2}
  BY <1>10 DEF Pending
<1>13. Pending(next) <=> r \in {1, 2}
  BY <1>11 DEF Pending
<1>14. Pending(m) <=> m.state \in {1, 2}
  BY DEF Pending
<1>15. InState(next)
  BY <1>2, <1>3, <1>4, <1>11 DEF InState
<1>16. still \in Shown /\ still.position = p /\ still.buttons = Mask(m.emulated, b)
  BY <1>5, MaskType DEF Shown
<1> HIDE DEF still
<1> DEFINE e1 == [position |-> places[1], buttons |-> Mask(Acted(m.emulated, row[1]), b)]
           e2 == [position |-> places[2], buttons |-> Mask(Acted(Acted(m.emulated, row[1]), row[2]), b)]
<1>17. e1 \in Shown /\ e1.position = places[1] /\ e1.buttons = Mask(Acted(m.emulated, row[1]), b)
  BY <1>5, <1>8, MaskType DEF Shown
<1>18. e2 \in Shown /\ e2.position = p /\ e2.buttons = Mask(shown, b)
  BY <1>4, <1>5, <1>6, <1>8, MaskType DEF Shown
<1>19. /\ row[1] = 0 => acted = <<>>
       /\ row[1] # 0 /\ row[2] = 0 => acted = <<e1>>
       /\ row[2] # 0 => acted = <<e1, e2>>
  BY <1>9
<1>22. events = IF row[1] = 0 /\ row[2] = 0 /\ ~Pending(m) THEN <<still>> ELSE acted
  OBVIOUS
<1> HIDE DEF e1, e2, events
<1>20. /\ events \in Seq(Shown) /\ Len(events) <= 2
       /\ \A i \in 1 .. Len(events) :
            events[i].position = p \/ (i = 1 /\ Pending(m) /\ events[i].position = m.original)
       /\ r \notin {1, 2} => /\ Len(events) >= 1
                             /\ events[Len(events)].buttons = Mask(shown, b)
       /\ (r \in {1, 2} /\ ~changed) => (Len(events) = 0 \/ ~Pending(m))
  <2>1. CASE row[1] = 0 /\ ~Pending(m)
    <3>1. events = <<still>>
      BY <1>3, <1>22, <2>1
    <3>2. shown = m.emulated
      BY <1>3, <1>4, <2>1, ActedNone
    <3>3. <<still>> \in Seq(Shown) /\ Len(<<still>>) = 1 /\ <<still>>[1] = still
      BY <1>16
    <3> QED
      BY ONLY <1>16, <2>1, <3>1, <3>2, <3>3
  <2>2. CASE row[1] = 0 /\ Pending(m)
    <3>1. events = <<>>
      BY <1>3, <1>19, <1>22, <2>2
    <3>2. r \in {1, 2}
      BY <1>3, <1>14, <2>2
    <3>3. <<>> \in Seq(Shown) /\ Len(<<>>) = 0
      OBVIOUS
    <3>4. events \in Seq(Shown) /\ Len(events) = 0
      BY ONLY <3>1, <3>3
    <3>5. 1 .. Len(events) = {} /\ Len(events) <= 2
      BY ONLY <3>4
    <3> QED
      BY <3>2, <3>4, <3>5
  <2>3. CASE row[1] # 0 /\ row[2] = 0
    <3>1. events = <<e1>>
      BY <1>19, <1>22, <2>3
    <3>2. shown = Acted(m.emulated, row[1])
      BY <1>4, <2>3, ActedNone
    <3>3. r \in {1, 2} /\ ~changed => FALSE
      BY <1>2, <1>3, <1>14, <2>3
    <3> QED
      BY <1>6, <1>17, <3>1, <3>2, <3>3
  <2>4. CASE row[2] # 0
    <3>1. events = <<e1, e2>> /\ row[1] # 0
      BY <1>3, <1>19, <1>22, <2>4
    <3>3. r \in {1, 2} /\ ~changed => FALSE
      BY <1>2, <1>3, <1>14, <3>1
    <3>4. /\ Len(<<e1, e2>>) = 2 /\ <<e1, e2>>[1] = e1 /\ <<e1, e2>>[2] = e2
          /\ <<e1, e2>> \in Seq(Shown)
      BY <1>17, <1>18
    <3> QED
      BY ONLY <1>6, <1>17, <1>18, <3>1, <3>3, <3>4
  <2> QED
    BY <1>3, <2>1, <2>2, <2>3, <2>4
<1>21. r \in {1, 2} /\ ~changed => Pending(m)
  BY <1>14
<1> QED
  BY <1>1, <1>10, <1>11, <1>12, <1>13, <1>14, <1>15, <1>20, <1>21 DEF Emulates

\* expire(): the press that was held back is shown, where it was made and where the pointer is.
LEMMA ExpiryEmulated ==
  ASSUME NEW m \in Emulator, InState(m), Pending(m), NEW batch, batch = Expired(m)
  PROVE  /\ batch.emulator \in Emulator /\ InState(batch.emulator) /\ ~Pending(batch.emulator)
         /\ batch.emulator.lastButtons = m.lastButtons
         /\ batch.events \in Seq(Shown) /\ Len(batch.events) \in 1 .. 2
         /\ batch.events[1].position = m.original
         /\ Len(batch.events) = 2 => batch.events[2].position = m.lastPosition
         /\ batch.events[Len(batch.events)].buttons = Mask(batch.emulator.emulated, m.lastButtons)
<1> DEFINE row == StateTab[m.state + 1][5]
           shown == After(m, row, 2)
           places == <<m.original, m.original>>
           acted == Actions(m, row, m.lastButtons, places)
           e2 == [position |-> m.lastPosition, buttons |-> Mask(shown, m.lastButtons)]
           moved == IF m.original = m.lastPosition THEN <<>> ELSE <<e2>>
           r == row[3]
           next == [m EXCEPT !.state = r, !.emulated = shown]
<1>1. batch.emulator = next /\ batch.events = acted \o moved
  BY DEF Expired
<1>2. m.state = 1 \/ m.state = 2
  BY DEF Pending
<1>3. /\ row[1] \in {1, 3} /\ row[2] = 0 /\ r \in {4, 5} /\ ShownIn[m.state + 1] = {}
      /\ ShownIn[r + 1] = {row[1]} /\ PressedIn[r + 1] = PressedIn[m.state + 1]
  <2>1. CASE m.state = 1
    BY <2>1, Timeouts DEF ShownIn, PressedIn, Left, Right
  <2>2. CASE m.state = 2
    BY <2>2, Timeouts DEF ShownIn, PressedIn, Left, Right
  <2> QED
    BY <1>2, <2>1, <2>2
<1>4. m.emulated = {}
  BY <1>3 DEF InState
<1>5. Acted(m.emulated, row[1]) = {row[1]} /\ shown = {row[1]}
  BY <1>3, <1>4, ActedNone DEF Acted, After
<1>6. shown = ShownIn[r + 1] /\ shown \in SUBSET (1 .. 3)
  BY <1>3, <1>5
<1>7. places[1] = m.original /\ places[2] = m.original /\ m.original \in Places
      /\ m.lastPosition \in Places /\ m.lastButtons \in Buttons
  BY DEF Emulator
<1> HIDE DEF row, places
<1> DEFINE e1 == [position |-> places[1], buttons |-> Mask(Acted(m.emulated, row[1]), m.lastButtons)]
<1>8. acted = <<e1>>
  BY <1>3, <1>7, ActionsSent
<1>9. e1 \in Shown /\ e1.position = m.original /\ e1.buttons = Mask(shown, m.lastButtons)
  BY <1>5, <1>6, <1>7, MaskType DEF Shown
<1>10. e2 \in Shown /\ e2.position = m.lastPosition /\ e2.buttons = Mask(shown, m.lastButtons)
  BY <1>6, <1>7, MaskType DEF Shown
<1> HIDE DEF shown, e1, e2, r, acted
<1>15. r \in 0 .. 10
  BY <1>3
<1>11. /\ next \in Emulator /\ next.state = r /\ next.emulated = shown
       /\ next.lastButtons = m.lastButtons
  BY ONLY <1>6, <1>15, m \in Emulator DEF Emulator, next
<1> HIDE DEF next
<1>12. InState(next) /\ ~Pending(next)
  BY <1>3, <1>6, <1>11 DEF InState, Pending
<1>13. CASE m.original = m.lastPosition
  <2>1. batch.events = <<e1>>
    BY <1>1, <1>8, <1>13, Joined
  <2>2. <<e1>> \in Seq(Shown) /\ Len(<<e1>>) = 1 /\ <<e1>>[1] = e1
    BY <1>9
  <2>3. batch.events \in Seq(Shown) /\ Len(batch.events) = 1 /\ batch.events[1] = e1
    BY ONLY <2>1, <2>2
  <2>4. /\ Len(batch.events) \in 1 .. 2 /\ Len(batch.events) # 2
        /\ batch.events[Len(batch.events)] = e1
    BY ONLY <2>3
  <2> QED
    BY ONLY <1>1, <1>9, <1>11, <1>12, <2>3, <2>4
<1>14. CASE m.original # m.lastPosition
  <2>1. batch.events = <<e1, e2>>
    BY <1>1, <1>8, <1>14, Joined
  <2>2. /\ <<e1, e2>> \in Seq(Shown) /\ Len(<<e1, e2>>) = 2 /\ <<e1, e2>>[1] = e1
        /\ <<e1, e2>>[2] = e2
    BY <1>9, <1>10
  <2>3. /\ batch.events \in Seq(Shown) /\ Len(batch.events) = 2 /\ batch.events[1] = e1
        /\ batch.events[2] = e2
    BY ONLY <2>1, <2>2
  <2> QED
    BY ONLY <1>1, <1>9, <1>10, <1>11, <1>12, <2>3
<1> QED
  BY <1>13, <1>14

----------------------------------------------------------------------------
(* The worker's pointer *)

\* What sending the pointer leaves alone.
Kept(t, s) ==
  /\ t.held = s.held /\ t.middle = s.middle /\ t.middleTimer = s.middleTimer
  /\ t.middleRevision = s.middleRevision /\ t.fed = s.fed
  /\ t.server.keys = s.server.keys /\ t.server.barrier = s.server.barrier

\* The blank timer, delayed motion and emulator.
LEMMA BlankTypes ==
  /\ NoTimer \in Timer /\ NoTimer.generation = 0 /\ NoTimer.revision = 0
  /\ NoPointer \in Delayed /\ NewEmulator \in Emulator /\ InState(NewEmulator)
  /\ ~Pending(NewEmulator) /\ NewEmulator.lastButtons = {} /\ NewEmulator.emulated = {}
  /\ Mask({}, {}) = {}
<1>1. MaxPosition \in Nat /\ MaxRevision \in Nat
  BY InputBounds
<1> QED
  BY <1>1 DEF NoTimer, Timer, Routes, NoPointer, Delayed, Places, Buttons, NewEmulator, Emulator,
     InState, ShownIn, PressedIn, Pending, Mask

\* writePointerEvent(): the connection knows what the server shows.
LEMMA Written ==
  ASSUME NEW s \in IO, NEW c, c.position \in Places, c.buttons \in Buttons, c.route \in Routes,
         NEW t, t = WritePointer(s, c)
  PROVE  /\ t \in IO /\ Kept(t, s)
         /\ t.pointerTimer = s.pointerTimer /\ t.pendingPointer = s.pendingPointer
         /\ t.lastButtons = s.lastButtons
         /\ t.buttons = c.buttons /\ t.pointerPosition = c.position
         /\ t.server.buttons = c.buttons /\ t.server.position = c.position /\ t.server.route = c.route
<1>1. s.server \in Server
  BY DEF IO
<1> DEFINE v == [s.server EXCEPT !.position = c.position, !.buttons = c.buttons, !.route = c.route]
<1>2. /\ v \in Server /\ v.position = c.position /\ v.buttons = c.buttons /\ v.route = c.route
      /\ v.keys = s.server.keys /\ v.barrier = s.server.barrier
  BY <1>1 DEF Server
<1>3. t = [s EXCEPT !.pointerPosition = c.position, !.buttons = c.buttons, !.server = v]
  BY DEF WritePointer, IO, Server
<1> HIDE DEF v
<1>4. /\ t \in IO /\ t.server = v /\ t.buttons = c.buttons /\ t.pointerPosition = c.position
      /\ t.held = s.held /\ t.middle = s.middle /\ t.middleTimer = s.middleTimer
      /\ t.middleRevision = s.middleRevision /\ t.fed = s.fed
      /\ t.pointerTimer = s.pointerTimer /\ t.pendingPointer = s.pendingPointer
      /\ t.lastButtons = s.lastButtons
  BY ONLY <1>2, <1>3, s \in IO, c.position \in Places, c.buttons \in Buttons DEF IO
<1> QED
  BY <1>2, <1>4 DEF Kept

\* What sending to a route does to the pointer.
Went(t, s, route) ==
  /\ s.server.position <= t.server.position
  /\ t.server = s.server \/ t.server.route = route
  /\ Even(s) => Even(t)

\* sendPointer(): sent at once or delayed, the pointer gets to the command's place.
LEMMA PointerSent ==
  ASSUME link \in Link, NEW s \in IO, PointerOK(s, link.generation), s.middleRevision # 0,
         NEW c, c.position \in Places, c.buttons \in Buttons, c.route = s.middleRevision,
         Reached(s) <= c.position, NEW t, t = SendPointer(s, c)
  PROVE  /\ t \in IO /\ Kept(t, s) /\ PointerOK(t, link.generation) /\ Went(t, s, c.route)
         /\ t.lastButtons = c.buttons /\ Reached(t) = c.position
         /\ t.server.buttons # s.server.buttons => t.server.position = c.position
<1> DEFINE d == [position |-> c.position, buttons |-> c.buttons, route |-> c.route]
           u == [s EXCEPT !.pendingPointer = d, !.lastButtons = c.buttons]
           h == [generation |-> link.generation, revision |-> s.middleRevision]
           w == [u EXCEPT !.pointerTimer = IF @ = NoTimer THEN h ELSE @]
<1>1. c.route \in Routes /\ link.generation \in Nat \ {0}
  BY DEF IO, Link
<1>2. d \in Delayed /\ d.position = c.position /\ d.buttons = c.buttons /\ d.route = c.route
  BY <1>1 DEF Delayed
<1>3. h \in Timer /\ h.generation = link.generation /\ h.revision = c.route /\ h # NoTimer
  BY <1>1, BlankTypes DEF Timer
<1>4. t = IF ~Throttled \/ c.buttons # s.lastButtons THEN WritePointer(u, c) ELSE w
  BY DEF SendPointer, Postponed, Here, IO
<1> HIDE DEF d, h
<1>5. /\ u \in IO /\ u.pendingPointer = d /\ u.lastButtons = c.buttons /\ u.server = s.server
      /\ u.pointerTimer = s.pointerTimer /\ u.buttons = s.buttons
      /\ u.pointerPosition = s.pointerPosition /\ Kept(u, s)
  BY <1>2 DEF IO, Kept
<1>10. MaxPosition \in Nat /\ MaxRevision \in Nat
  BY InputBounds
<1>11. s.server \in Server /\ s.pendingPointer \in Delayed
  BY DEF IO
<1>6. s.server \in Server /\ s.server.position \in Nat /\ c.position \in Nat
      /\ s.server.barrier \in Nat /\ c.route \in Nat \ {0} /\ s.pendingPointer.position \in Nat
  BY <1>1, <1>10, <1>11 DEF Server, Routes, Places, Delayed, PointerOK
<1>7. s.server.position <= c.position
  BY <1>6 DEF PointerOK, Reached
<1>8. CASE ~Throttled \/ c.buttons # s.lastButtons
  <2> HIDE DEF u, w
  <2>1. t = WritePointer(u, c)
    BY <1>4, <1>8
  <2>2. /\ t \in IO /\ Kept(t, u) /\ t.pointerTimer = u.pointerTimer
        /\ t.pendingPointer = d /\ t.lastButtons = c.buttons
        /\ t.buttons = c.buttons /\ t.pointerPosition = c.position
        /\ t.server.buttons = c.buttons /\ t.server.position = c.position /\ t.server.route = c.route
    BY <1>1, <1>5, <2>1, Written
  <2>3. Kept(t, s)
    BY <1>5, <2>2 DEF Kept
  <2>4. PointerOK(t, link.generation)
    BY <1>2, <1>5, <1>6, <2>2, <2>3 DEF PointerOK, Kept
  <2>5. Reached(t) = c.position
    BY <1>2, <2>2 DEF Reached
  <2> QED
    BY <1>2, <1>7, <2>2, <2>3, <2>4, <2>5 DEF Went, Even
<1>9. CASE ~(~Throttled \/ c.buttons # s.lastButtons)
  <2> HIDE DEF u
  <2>1. /\ t \in IO /\ Kept(t, u) /\ t.server = u.server /\ t.pendingPointer = d
        /\ t.lastButtons = c.buttons /\ t.buttons = u.buttons
        /\ t.pointerPosition = u.pointerPosition
        /\ t.pointerTimer = IF u.pointerTimer = NoTimer THEN h ELSE u.pointerTimer
    BY <1>3, <1>4, <1>5, <1>9 DEF IO, Kept
  <2>2. Kept(t, s)
    BY <1>5, <2>1 DEF Kept
  <2>3. PointerOK(t, link.generation)
    <3>1. CASE s.pointerTimer = NoTimer
      BY <1>2, <1>3, <1>5, <1>6, <1>7, <2>1, <2>2, <3>1 DEF PointerOK, Kept
    <3>2. CASE s.pointerTimer # NoTimer
      BY <1>2, <1>3, <1>5, <1>6, <1>7, <2>1, <2>2, <3>2 DEF PointerOK, Kept
    <3> QED
      BY <3>1, <3>2
  <2>4. Reached(t) = c.position
    BY <1>2, <1>3, <1>5, <2>1 DEF Reached
  <2> QED
    BY <1>2, <1>5, <1>6, <1>9, <2>1, <2>2, <2>3, <2>4 DEF Went, Even
<1> QED
  BY <1>8, <1>9

\* Two writes in a row, on one route.
LEMMA WentTwice ==
  ASSUME NEW s \in IO, NEW t \in IO, NEW u \in IO, NEW route, Went(t, s, route), Went(u, t, route)
  PROVE  Went(u, s, route)
<1>1. s.server.position \in Int /\ t.server.position \in Int /\ u.server.position \in Int
  BY InputBounds DEF IO, Server, Places
<1> QED
  BY <1>1 DEF Went

\* Two writes in a row keep what each of them keeps.
LEMMA KeptTwice ==
  ASSUME NEW s, NEW t, NEW u, Kept(t, s), Kept(u, t)
  PROVE  Kept(u, s)
BY DEF Kept

\* The place that the pointer has or will reach is a place.
LEMMA ReachedType ==
  ASSUME NEW s \in IO
  PROVE  Reached(s) \in Places /\ s.server.position \in Places /\ \A p \in Places : p \in Int
<1>1. s.server \in Server /\ s.pendingPointer \in Delayed
  BY DEF IO
<1> QED
  BY <1>1, InputBounds DEF Reached, Server, Delayed, Places

\* One event of a batch.
LEMMA EventSent ==
  ASSUME link \in Link, NEW s \in IO, PointerOK(s, link.generation), s.fed # 0, s.fed = s.middleRevision,
         NEW e \in Shown, Reached(s) <= e.position,
         NEW t, t = SendPointer(s, [position |-> e.position, buttons |-> e.buttons, route |-> s.fed])
  PROVE  /\ t \in IO /\ Kept(t, s) /\ PointerOK(t, link.generation) /\ Went(t, s, s.fed)
         /\ t.lastButtons = e.buttons /\ Reached(t) = e.position
<1> DEFINE c == [position |-> e.position, buttons |-> e.buttons, route |-> s.fed]
<1>1. /\ c.position = e.position /\ c.buttons = e.buttons /\ c.route = s.fed
      /\ e.position \in Places /\ e.buttons \in Buttons /\ t = SendPointer(s, c)
  BY DEF Shown
<1> HIDE DEF c
<1> QED
  BY <1>1, PointerSent

\* sendMiddleBatch(): the last event counts.
LEMMA BatchSent ==
  ASSUME link \in Link, NEW s \in IO, PointerOK(s, link.generation), s.fed # 0, s.fed = s.middleRevision,
         NEW events \in Seq(Shown), Len(events) <= 2,
         \A i \in 1 .. Len(events) : Reached(s) <= events[i].position,
         Len(events) = 2 => events[1].position <= events[2].position,
         NEW t, t = SendBatch(s, events)
  PROVE  /\ t \in IO /\ Kept(t, s) /\ PointerOK(t, link.generation) /\ Went(t, s, s.fed)
         /\ Len(events) = 0 => t = s
         /\ Len(events) # 0 => /\ t.lastButtons = events[Len(events)].buttons
                               /\ Reached(t) = events[Len(events)].position
<1> DEFINE c(i) == [position |-> events[i].position, buttons |-> events[i].buttons, route |-> s.fed]
           send(u, i) == IF i > Len(events) THEN u ELSE SendPointer(u, c(i))
<1>1. t = send(send(send(s, 1), 2), 3)
  BY DEF SendBatch
<1>6. Len(events) \in Nat
  OBVIOUS
<1>2. Len(events) = 0 \/ Len(events) = 1 \/ Len(events) = 2
  <2> DEFINE n == Len(events)
  <2>1. n \in Nat /\ n <= 2
    BY <1>6
  <2> HIDE DEF n
  <2>2. n = 0 \/ n = 1 \/ n = 2
    BY ONLY <2>1
  <2> QED
    BY <2>2 DEF n
<1>3. CASE Len(events) = 0
  <2>1. t = s
    BY <1>1, <1>3
  <2>2. s.server.position <= s.server.position
    BY ReachedType
  <2> QED
    BY <1>3, <2>1, <2>2 DEF Kept, Went
<1>4. CASE Len(events) = 1
  <2>1. t = SendPointer(s, c(1))
    BY <1>1, <1>4
  <2>3. 1 \in 1 .. Len(events)
    BY <1>4
  <2>2. events[1] \in Shown /\ Reached(s) <= events[1].position
    BY <2>3
  <2> QED
    BY <1>4, <2>1, <2>2, EventSent
<1>5. CASE Len(events) = 2
  <2>1. t = SendPointer(SendPointer(s, c(1)), c(2))
    BY <1>1, <1>5
  <2>0. 1 \in 1 .. Len(events) /\ 2 \in 1 .. Len(events)
    BY <1>5
  <2>2. /\ events[1] \in Shown /\ Reached(s) <= events[1].position
        /\ events[2] \in Shown /\ events[1].position <= events[2].position
    BY ONLY <1>5, <2>0, events \in Seq(Shown), \A i \in 1 .. Len(events) : Reached(s) <= events[i].position,
       Len(events) = 2 => events[1].position <= events[2].position
  <2> DEFINE u == SendPointer(s, c(1))
  <2>3. /\ u \in IO /\ Kept(u, s) /\ PointerOK(u, link.generation) /\ Went(u, s, s.fed)
        /\ Reached(u) = events[1].position
    BY <2>2, EventSent
  <2>4. t = SendPointer(u, c(2))
    BY <2>1
  <2> HIDE DEF u
  <2>5. u.fed = s.fed /\ u.fed # 0 /\ u.fed = u.middleRevision /\ Reached(u) <= events[2].position
    BY <2>2, <2>3 DEF Kept
  <2>6. t = SendPointer(u, [position |-> events[2].position, buttons |-> events[2].buttons,
                            route |-> u.fed])
    BY <2>4, <2>5
  <2>7. /\ t \in IO /\ Kept(t, u) /\ PointerOK(t, link.generation) /\ Went(t, u, u.fed)
        /\ t.lastButtons = events[2].buttons /\ Reached(t) = events[2].position
    BY <2>2, <2>3, <2>5, <2>6, EventSent
  <2>8. Went(t, s, s.fed)
    BY <2>3, <2>5, <2>7, WentTwice
  <2>9. Kept(t, s)
    BY <2>3, <2>7, KeptTwice
  <2> QED
    BY <1>5, <2>7, <2>8, <2>9
<1> QED
  BY <1>2, <1>3, <1>4, <1>5

\* What the emulator was fed is with the emulator, and what it shows was sent.
Fed(t, s) ==
  /\ t.held = s.held /\ t.middleRevision = s.middleRevision
  /\ t.server.keys = s.server.keys /\ t.server.barrier = s.server.barrier
  /\ t.fed = s.middleRevision /\ Shows(t)

\* sendInput() of a pointer command under emulation.
LEMMA EmulatedSent ==
  ASSUME link \in Link, NEW s \in IO, PointerOK(s, link.generation), MiddleOK(s, link.generation),
         s.middleRevision # 0, NEW c, c.position \in Places, c.buttons \in Buttons,
         c.route = s.middleRevision, Ahead(s, c.position), NEW t, t = SendEmulated(s, c)
  PROVE  /\ t \in IO /\ PointerOK(t, link.generation) /\ MiddleOK(t, link.generation)
         /\ Fed(t, s) /\ Went(t, s, c.route)
         /\ t.middle.lastButtons = c.buttons /\ Ahead(t, c.position)
<1> DEFINE batch == EmulatedPointer(s.middle, c.position, c.buttons)
           fed == [s EXCEPT !.middle = batch.emulator, !.fed = IF @ = 0 THEN c.route ELSE @]
           sent == SendBatch(fed, batch.events)
           due == IF Pending(sent.middle) THEN [generation |-> link.generation, revision |-> sent.middleRevision]
                  ELSE NoTimer
<1>1. t = IF ~batch.timerChanged THEN sent ELSE [sent EXCEPT !.middleTimer = due]
  BY DEF SendEmulated, Here
<1>2. s.middle \in Emulator /\ InState(s.middle) /\ s.fed \in {0, c.route} /\ c.route \in Routes
  BY DEF IO, MiddleOK
<1>0. batch = EmulatedPointer(s.middle, c.position, c.buttons)
  OBVIOUS
<1> HIDE DEF batch
<1>20. Emulates(s.middle, c.position, c.buttons, batch)
  BY <1>0, <1>2, PointerEmulated
<1>3. /\ batch.emulator \in Emulator /\ InState(batch.emulator)
      /\ batch.emulator.lastButtons = c.buttons /\ batch.emulator.lastPosition = c.position
      /\ batch.timerChanged \in BOOLEAN
      /\ batch.timerChanged = FALSE =>
           /\ Pending(batch.emulator) <=> Pending(s.middle)
           /\ batch.emulator.original = s.middle.original
      /\ batch.timerChanged = TRUE /\ Pending(batch.emulator) => batch.emulator.original = c.position
      /\ batch.events \in Seq(Shown) /\ Len(batch.events) <= 2
      /\ Pending(batch.emulator) /\ batch.timerChanged = FALSE => Len(batch.events) = 0
      /\ \A i \in 1 .. Len(batch.events) :
           batch.events[i].position = c.position
             \/ (i = 1 /\ Pending(s.middle) /\ batch.events[i].position = s.middle.original)
      /\ ~Pending(batch.emulator) =>
           /\ Len(batch.events) >= 1
           /\ batch.events[Len(batch.events)].buttons = Mask(batch.emulator.emulated, c.buttons)
  BY <1>20 DEF Emulates
<1>4. /\ fed \in IO /\ fed.middle = batch.emulator /\ fed.fed = c.route /\ fed.server = s.server
      /\ fed.middleRevision = s.middleRevision /\ fed.middleTimer = s.middleTimer
      /\ fed.pointerTimer = s.pointerTimer /\ fed.pendingPointer = s.pendingPointer
      /\ fed.lastButtons = s.lastButtons /\ fed.buttons = s.buttons /\ fed.held = s.held
      /\ fed.pointerPosition = s.pointerPosition
  BY <1>2, <1>3 DEF IO
<1> HIDE DEF fed
<1>5. Reached(fed) = Reached(s) /\ PointerOK(fed, link.generation)
  BY <1>4 DEF Reached, PointerOK
<1>6. /\ Reached(s) \in Int /\ c.position \in Int /\ s.middle.original \in Int
      /\ s.middle.lastPosition \in Int /\ \A p \in Places : p \in Int
  BY <1>2, ReachedType DEF Emulator
<1>7. Pending(s.middle) => Reached(s) <= s.middle.original /\ s.middle.original <= c.position
  BY <1>6 DEF MiddleOK, Ahead
<1>8. Reached(s) <= c.position
  BY DEF Ahead
<1>9. \A i \in 1 .. Len(batch.events) : Reached(fed) <= batch.events[i].position
  BY <1>3, <1>5, <1>7, <1>8
<1>10. Len(batch.events) = 2 => batch.events[1].position <= batch.events[2].position
  <2> SUFFICES ASSUME Len(batch.events) = 2 PROVE batch.events[1].position <= batch.events[2].position
    OBVIOUS
  <2>1. 1 \in 1 .. Len(batch.events) /\ 2 \in 1 .. Len(batch.events)
    OBVIOUS
  <2>2. batch.events[2].position = c.position
    BY <1>3, <2>1
  <2>3. batch.events[1].position = c.position \/ (Pending(s.middle) /\ batch.events[1].position = s.middle.original)
    BY <1>3, <2>1
  <2> QED
    BY <1>6, <1>7, <2>2, <2>3
<1>11. /\ sent \in IO /\ Kept(sent, fed) /\ PointerOK(sent, link.generation) /\ Went(sent, fed, fed.fed)
       /\ Len(batch.events) = 0 => sent = fed
       /\ Len(batch.events) # 0 => /\ sent.lastButtons = batch.events[Len(batch.events)].buttons
                                   /\ Reached(sent) = batch.events[Len(batch.events)].position
  BY <1>3, <1>4, <1>5, <1>9, <1>10, BatchSent
<1>12. /\ sent.middle = batch.emulator /\ sent.middleRevision = c.route /\ sent.fed = c.route
       /\ sent.middleTimer = s.middleTimer /\ sent.held = s.held
       /\ sent.server.keys = s.server.keys /\ sent.server.barrier = s.server.barrier
  BY <1>4, <1>11 DEF Kept
<1> HIDE DEF sent
<1>13. Went(sent, s, c.route)
  BY <1>4, <1>11 DEF Went, Even
<1>14. Reached(sent) <= c.position
  <2>1. CASE Len(batch.events) = 0
    BY <1>5, <1>8, <1>11, <2>1
  <2>2. CASE Len(batch.events) # 0
    <3>1. Len(batch.events) \in 1 .. Len(batch.events)
      BY <1>3, <2>2
    <3>2. batch.events[Len(batch.events)].position = c.position
            \/ (Pending(s.middle) /\ batch.events[Len(batch.events)].position = s.middle.original)
      BY <1>3, <3>1
    <3> QED
      BY <1>6, <1>7, <1>11, <2>2, <3>2
  <2> QED
    BY <2>1, <2>2
<1>15. Shows(sent)
  BY <1>3, <1>11, <1>12 DEF Shows
<1>16. link.generation \in Nat \ {0}
  BY DEF Link
<1>17. due \in Timer /\ (due # NoTimer <=> Pending(sent.middle))
       /\ (due # NoTimer => due = [generation |-> link.generation, revision |-> c.route])
  BY <1>2, <1>12, <1>16, BlankTypes DEF Timer, NoTimer
<1> HIDE DEF due
<1>18. CASE batch.timerChanged = TRUE
  <2>1. t = [sent EXCEPT !.middleTimer = due]
    BY <1>1, <1>18
  <2>2. /\ t \in IO /\ t.middleTimer = due /\ t.middle = sent.middle /\ t.middleRevision = sent.middleRevision
        /\ t.fed = sent.fed /\ t.held = sent.held /\ t.server = sent.server
        /\ t.pointerTimer = sent.pointerTimer /\ t.pendingPointer = sent.pendingPointer
        /\ t.lastButtons = sent.lastButtons /\ t.buttons = sent.buttons
        /\ t.pointerPosition = sent.pointerPosition
    BY <1>11, <1>17, <2>1 DEF IO
  <2>3. Reached(t) = Reached(sent) /\ PointerOK(t, link.generation) /\ Shows(t) /\ Went(t, s, c.route)
    BY <1>11, <1>13, <1>15, <2>2 DEF Reached, PointerOK, Shows, Went, Even
  <2>4. due # NoTimer => t.middle.original = c.position /\ t.middle.lastPosition = c.position
    BY <1>3, <1>12, <1>17, <1>18, <2>2
  <2>5. MiddleOK(t, link.generation)
    BY <1>3, <1>6, <1>12, <1>14, <1>17, <2>2, <2>3, <2>4 DEF MiddleOK
  <2>6. c.position <= c.position
    BY <1>6
  <2> QED
    BY <1>3, <1>12, <1>14, <2>2, <2>3, <2>5, <2>6 DEF Fed, Ahead
<1>19. CASE batch.timerChanged = FALSE
  <2>1. t = sent
    BY <1>1, <1>19
  <2>2. s.middleTimer # NoTimer => Reached(t) = Reached(s)
    BY <1>3, <1>5, <1>11, <1>19, <2>1 DEF MiddleOK
  <2>3. MiddleOK(t, link.generation)
    <3>1. Pending(t.middle) <=> t.middleTimer # NoTimer
      BY <1>3, <1>12, <1>19, <2>1 DEF MiddleOK
    <3>2. ASSUME t.middleTimer # NoTimer
          PROVE  /\ t.middleTimer = [generation |-> link.generation, revision |-> t.middleRevision]
                 /\ Reached(t) <= t.middle.original
                 /\ t.middle.original <= t.middle.lastPosition
      BY <1>3, <1>6, <1>7, <1>12, <1>19, <2>1, <2>2, <3>1, <3>2 DEF MiddleOK
    <3> QED
      BY <1>3, <1>12, <2>1, <3>1, <3>2 DEF MiddleOK
  <2>6. c.position <= c.position
    BY <1>6
  <2> QED
    BY <1>3, <1>11, <1>12, <1>13, <1>14, <1>15, <2>1, <2>3, <2>6 DEF Fed, Ahead
<1> QED
  BY <1>3, <1>18, <1>19

\* The middle-button timer's callback on the route: the press that was held back is sent.
LEMMA ExpirySent ==
  ASSUME link \in Link, NEW s \in IO, PointerOK(s, link.generation), MiddleOK(s, link.generation),
         s.middleTimer # NoTimer, NEW batch, batch = Expired(s.middle),
         NEW t, t = SendBatch([s EXCEPT !.middleTimer = NoTimer, !.middle = batch.emulator], batch.events)
  PROVE  /\ t \in IO /\ PointerOK(t, link.generation) /\ MiddleOK(t, link.generation)
         /\ Fed(t, s) /\ Went(t, s, s.middleRevision)
         /\ t.middle.lastButtons = s.middle.lastButtons /\ t.middleTimer = NoTimer
         /\ Reached(t) <= s.middle.lastPosition
<1> DEFINE u == [s EXCEPT !.middleTimer = NoTimer, !.middle = batch.emulator]
<1>1. s.middle \in Emulator /\ InState(s.middle) /\ Pending(s.middle) /\ s.fed # 0 /\ s.fed = s.middleRevision
  BY DEF IO, MiddleOK
<1>2. /\ batch.emulator \in Emulator /\ InState(batch.emulator) /\ ~Pending(batch.emulator)
      /\ batch.emulator.lastButtons = s.middle.lastButtons
      /\ batch.events \in Seq(Shown) /\ Len(batch.events) \in 1 .. 2
      /\ batch.events[1].position = s.middle.original
      /\ Len(batch.events) = 2 => batch.events[2].position = s.middle.lastPosition
      /\ batch.events[Len(batch.events)].buttons = Mask(batch.emulator.emulated, s.middle.lastButtons)
  BY <1>1, ExpiryEmulated
<1>3. /\ u \in IO /\ u.middle = batch.emulator /\ u.fed = s.fed /\ u.server = s.server
      /\ u.middleRevision = s.middleRevision /\ u.middleTimer = NoTimer
      /\ u.pointerTimer = s.pointerTimer /\ u.pendingPointer = s.pendingPointer
      /\ u.lastButtons = s.lastButtons /\ u.buttons = s.buttons /\ u.held = s.held
      /\ u.pointerPosition = s.pointerPosition
  BY <1>2, BlankTypes DEF IO
<1>4. t = SendBatch(u, batch.events)
  OBVIOUS
<1> HIDE DEF u
<1>5. Reached(u) = Reached(s) /\ PointerOK(u, link.generation)
  BY <1>3 DEF Reached, PointerOK
<1>6. /\ Reached(s) \in Int /\ s.middle.original \in Int /\ s.middle.lastPosition \in Int
      /\ Reached(s) <= s.middle.original /\ s.middle.original <= s.middle.lastPosition
  BY <1>1, ReachedType DEF Emulator, MiddleOK
<1>7. \A i \in 1 .. Len(batch.events) :
        batch.events[i].position = s.middle.original \/ batch.events[i].position = s.middle.lastPosition
  BY ONLY <1>2
<1>8. \A i \in 1 .. Len(batch.events) : Reached(u) <= batch.events[i].position
  BY <1>5, <1>6, <1>7
<1>9. Len(batch.events) = 2 => batch.events[1].position <= batch.events[2].position
  BY <1>2, <1>6
<1>10. /\ t \in IO /\ Kept(t, u) /\ PointerOK(t, link.generation) /\ Went(t, u, u.fed)
       /\ Len(batch.events) = 0 => t = u
       /\ Len(batch.events) # 0 => /\ t.lastButtons = batch.events[Len(batch.events)].buttons
                                   /\ Reached(t) = batch.events[Len(batch.events)].position
  BY <1>1, <1>2, <1>3, <1>4, <1>5, <1>8, <1>9, BatchSent
<1>11. /\ t.middle = batch.emulator /\ t.middleRevision = s.middleRevision /\ t.fed = s.fed
       /\ t.middleTimer = NoTimer /\ t.held = s.held
       /\ t.server.keys = s.server.keys /\ t.server.barrier = s.server.barrier
  BY <1>3, <1>10 DEF Kept
<1>12. Went(t, s, s.middleRevision)
  BY <1>1, <1>3, <1>10 DEF Went, Even
<1>13. Len(batch.events) \in 1 .. Len(batch.events) /\ Len(batch.events) # 0
  BY <1>2
<1>14. Reached(t) <= s.middle.lastPosition
  BY <1>6, <1>7, <1>10, <1>13
<1>15. Shows(t)
  BY <1>2, <1>10, <1>11, <1>13 DEF Shows
<1>16. MiddleOK(t, link.generation)
  BY <1>1, <1>2, <1>11 DEF MiddleOK
<1> QED
  BY <1>1, <1>2, <1>10, <1>11, <1>12, <1>14, <1>15, <1>16 DEF Fed

----------------------------------------------------------------------------
(* Dropping what is delayed *)

\* resetPointer()
LEMMA PointerReset ==
  ASSUME NEW s \in IO, NEW g, PointerOK(s, g), NEW t, t = ResetPointer(s)
  PROVE  /\ t \in IO /\ Kept(t, s) /\ PointerOK(t, g) /\ t.server = s.server /\ t.buttons = s.buttons
         /\ t.pointerPosition = s.pointerPosition
         /\ t.pointerTimer = NoTimer /\ t.lastButtons = {} /\ Reached(t) = s.server.position
         /\ Reached(t) <= Reached(s)
<1>1. /\ t \in IO /\ Kept(t, s) /\ t.server = s.server /\ t.buttons = s.buttons
      /\ t.pointerPosition = s.pointerPosition /\ t.pointerTimer = NoTimer /\ t.lastButtons = {}
  BY BlankTypes DEF ResetPointer, IO, Kept, Buttons
<1>2. Reached(t) = s.server.position
  BY <1>1 DEF Reached
<1>3. s.server.position \in Int /\ Reached(s) \in Int
  BY ReachedType
<1>4. s.server.position <= Reached(s)
  BY <1>3 DEF Reached, PointerOK
<1>5. PointerOK(t, g)
  BY <1>1 DEF PointerOK, Kept
<1> QED
  BY <1>1, <1>2, <1>4, <1>5

\* resetMiddle()
LEMMA MiddleReset ==
  ASSUME NEW s \in IO, NEW t, t = ResetMiddle(s)
  PROVE  /\ t \in IO /\ t.server = s.server /\ t.buttons = s.buttons /\ t.held = s.held
         /\ t.pointerPosition = s.pointerPosition /\ t.pointerTimer = s.pointerTimer
         /\ t.pendingPointer = s.pendingPointer /\ t.lastButtons = s.lastButtons
         /\ t.middle = NewEmulator /\ t.middleTimer = NoTimer /\ t.middleRevision = 0 /\ t.fed = 0
         /\ Reached(t) = Reached(s)
         /\ \A g : MiddleOK(t, g) /\ (PointerOK(s, g) => PointerOK(t, g))
<1>1. /\ t \in IO /\ t.server = s.server /\ t.buttons = s.buttons /\ t.held = s.held
      /\ t.pointerPosition = s.pointerPosition /\ t.pointerTimer = s.pointerTimer
      /\ t.pendingPointer = s.pendingPointer /\ t.lastButtons = s.lastButtons
      /\ t.middle = NewEmulator /\ t.middleTimer = NoTimer /\ t.middleRevision = 0 /\ t.fed = 0
  <2>1. 0 \in Routes
    BY BlankTypes DEF Timer
  <2> QED
    BY <2>1, BlankTypes DEF ResetMiddle, IO
<1>2. Reached(t) = Reached(s)
  BY <1>1 DEF Reached
<1>3. \A g : MiddleOK(t, g)
  BY <1>1, BlankTypes DEF MiddleOK
<1>4. \A g : PointerOK(s, g) => PointerOK(t, g)
  BY <1>1 DEF PointerOK
<1> QED
  BY <1>1, <1>2, <1>3, <1>4

\* Both: nothing is delayed.
Reset(t, s) ==
  /\ t \in IO /\ t.server = s.server /\ t.buttons = s.buttons /\ t.held = s.held
  /\ t.pointerPosition = s.pointerPosition /\ t.pointerTimer = NoTimer /\ t.lastButtons = {}
  /\ t.middle = NewEmulator /\ t.middleTimer = NoTimer /\ t.fed = 0
  /\ Reached(t) = s.server.position /\ Reached(t) <= Reached(s)

\* All that is delayed is dropped (resetMiddle(), resetPointer()).
LEMMA BothReset ==
  ASSUME NEW s \in IO, NEW g, PointerOK(s, g), NEW t, t = ResetMiddle(ResetPointer(s))
  PROVE  Reset(t, s) /\ t.middleRevision = 0 /\ MiddleOK(t, g) /\ PointerOK(t, g)
<1> DEFINE u == ResetPointer(s)
<1>1. /\ u \in IO /\ Kept(u, s) /\ PointerOK(u, g) /\ u.server = s.server /\ u.buttons = s.buttons
      /\ u.pointerPosition = s.pointerPosition
      /\ u.pointerTimer = NoTimer /\ u.lastButtons = {} /\ Reached(u) = s.server.position
      /\ Reached(u) <= Reached(s)
  BY PointerReset
<1>2. t = ResetMiddle(u)
  OBVIOUS
<1> HIDE DEF u
<1>3. /\ t \in IO /\ t.server = u.server /\ t.buttons = u.buttons /\ t.held = u.held
      /\ t.pointerPosition = u.pointerPosition /\ t.pointerTimer = u.pointerTimer
      /\ t.lastButtons = u.lastButtons
      /\ t.middle = NewEmulator /\ t.middleTimer = NoTimer /\ t.middleRevision = 0 /\ t.fed = 0
      /\ Reached(t) = Reached(u) /\ MiddleOK(t, g) /\ (PointerOK(u, g) => PointerOK(t, g))
  BY <1>1, <1>2, MiddleReset
<1> QED
  BY <1>1, <1>3 DEF Kept, Reset

\* A command of a new route drops what the old one delayed.
LEMMA BarrierDone ==
  ASSUME worker \in Worker, NEW s \in IO, NEW g, PointerOK(s, g), MiddleOK(s, g),
         s.server.barrier <= worker.revision, NEW c, NEW t, t = Barrier(s, c)
  PROVE  /\ t \in IO /\ PointerOK(t, g) /\ MiddleOK(t, g) /\ t.middleRevision = worker.revision
         /\ t.held = s.held /\ t.server = s.server /\ t.buttons = s.buttons
         /\ worker.revision = s.middleRevision /\ c.kind # "ReleaseAll" => t = s
         /\ worker.revision # s.middleRevision \/ c.kind = "ReleaseAll" => Reset(t, s)
<1>1. CASE worker.revision = s.middleRevision /\ c.kind # "ReleaseAll"
  <2>1. t = s
    BY <1>1 DEF Barrier
  <2> QED
    BY <1>1, <2>1
<1>2. CASE worker.revision # s.middleRevision \/ c.kind = "ReleaseAll"
  <2> DEFINE u == ResetMiddle(ResetPointer(s))
  <2>1. Reset(u, s) /\ u.middleRevision = 0 /\ MiddleOK(u, g) /\ PointerOK(u, g)
    BY BothReset
  <2>2. t = [u EXCEPT !.middleRevision = worker.revision]
    BY <1>2 DEF Barrier
  <2> HIDE DEF u
  <2>3. worker.revision \in Routes
    BY DEF Worker
  <2>4. /\ t \in IO /\ t.server = u.server /\ t.buttons = u.buttons /\ t.held = u.held
        /\ t.pointerPosition = u.pointerPosition /\ t.pointerTimer = u.pointerTimer
        /\ t.lastButtons = u.lastButtons
        /\ t.middle = u.middle /\ t.middleTimer = u.middleTimer /\ t.fed = u.fed
        /\ t.middleRevision = worker.revision
    BY <2>1, <2>2, <2>3 DEF IO, Reset
  <2>5. Reset(t, s)
    BY <2>1, <2>4 DEF Reset, Reached
  <2>6. PointerOK(t, g) /\ MiddleOK(t, g)
    BY <2>1, <2>4 DEF PointerOK, MiddleOK, Reset
  <2> QED
    BY <1>2, <2>1, <2>4, <2>5, <2>6 DEF Reset
<1> QED
  BY <1>1, <1>2

----------------------------------------------------------------------------
(* Delayed motion is written or dropped *)

\* The pointer timer, while its route is current: the delayed motion is written.
LEMMA DelayedWritten ==
  ASSUME NEW s \in IO, NEW g, PointerOK(s, g), MiddleOK(s, g), s.pointerTimer # NoTimer,
         NEW t, t = WritePointer([s EXCEPT !.pointerTimer = NoTimer], s.pendingPointer)
  PROVE  /\ t \in IO /\ Kept(t, s) /\ PointerOK(t, g) /\ MiddleOK(t, g) /\ t.pointerTimer = NoTimer
         /\ t.lastButtons = s.lastButtons /\ Went(t, s, s.pointerTimer.revision)
         /\ t.server.route = s.pointerTimer.revision
         /\ Reached(t) = Reached(s) /\ t.server.position = Reached(s)
<1> DEFINE u == [s EXCEPT !.pointerTimer = NoTimer]
           c == s.pendingPointer
<1>1. /\ u \in IO /\ Kept(u, s) /\ u.pointerTimer = NoTimer /\ u.lastButtons = s.lastButtons
      /\ u.server = s.server /\ u.pendingPointer = c
  BY BlankTypes DEF IO, Kept
<1>2. c.position \in Places /\ c.buttons \in Buttons /\ c.route \in Routes
  BY DEF IO, Delayed
<1>3. t = WritePointer(u, c)
  OBVIOUS
<1>4. c.route = s.pointerTimer.revision /\ s.server.position <= c.position /\ Reached(s) = c.position
  BY DEF PointerOK, Reached
<1>5. Even(s) => c.buttons = s.lastButtons
  BY DEF Even
<1> HIDE DEF u, c
<1>6. /\ t \in IO /\ Kept(t, u)
      /\ t.pointerTimer = u.pointerTimer /\ t.lastButtons = u.lastButtons
      /\ t.buttons = c.buttons /\ t.pointerPosition = c.position
      /\ t.server.buttons = c.buttons /\ t.server.position = c.position /\ t.server.route = c.route
  BY <1>1, <1>2, <1>3, Written
<1>7. Kept(t, s)
  BY <1>1, <1>6, KeptTwice
<1>8. PointerOK(t, g)
  BY <1>1, <1>4, <1>6, <1>7 DEF PointerOK, Kept
<1>9. Reached(t) = c.position
  BY <1>1, <1>6 DEF Reached
<1>10. MiddleOK(t, g)
  BY <1>4, <1>7, <1>9 DEF MiddleOK, Kept
<1>11. Went(t, s, s.pointerTimer.revision)
  BY <1>1, <1>4, <1>5, <1>6 DEF Went, Even
<1> QED
  BY <1>1, <1>4, <1>6, <1>7, <1>8, <1>9, <1>10, <1>11

\* The pointer timer, when its route is not current: the delayed motion is dropped.
LEMMA DelayedDropped ==
  ASSUME NEW s \in IO, NEW g, PointerOK(s, g), MiddleOK(s, g), NEW t, t = ResetPointer(s)
  PROVE  /\ t \in IO /\ Kept(t, s) /\ PointerOK(t, g) /\ MiddleOK(t, g) /\ t.server = s.server
         /\ t.pointerTimer = NoTimer /\ t.lastButtons = {} /\ Reached(t) <= Reached(s)
<1>1. /\ t \in IO /\ Kept(t, s) /\ PointerOK(t, g) /\ t.server = s.server
      /\ t.pointerTimer = NoTimer /\ t.lastButtons = {} /\ Reached(t) <= Reached(s)
  BY PointerReset
<1>2. Reached(s) \in Int /\ Reached(t) \in Int /\ s.middle.original \in Int
  BY <1>1, ReachedType DEF IO, Emulator
<1>3. MiddleOK(t, g)
  BY <1>1, <1>2 DEF MiddleOK, Kept
<1> QED
  BY <1>1, <1>3

\* flushPointer()
LEMMA Flushed ==
  ASSUME link \in Link, NEW s \in IO, PointerOK(s, link.generation), MiddleOK(s, link.generation),
         s.middleRevision # 0, NEW t, t = FlushPointer(s)
  PROVE  /\ t \in IO /\ Kept(t, s) /\ PointerOK(t, link.generation) /\ MiddleOK(t, link.generation)
         /\ t.pointerTimer = NoTimer /\ Reached(t) <= Reached(s)
         /\ s.server.position <= t.server.position
         /\ t.server = s.server \/ t.server.route = s.middleRevision
         /\ RouteCurrent(Here(s)) =>
              /\ t.lastButtons = s.lastButtons
              /\ Even(s) => Even(t)
              /\ Reached(t) = Reached(s) /\ t.server.position = Reached(s)
<1>1. Reached(s) \in Int /\ s.server.position \in Int
  BY ReachedType
<1>2. CASE s.pointerTimer = NoTimer
  <2>1. t = s
    BY <1>2 DEF FlushPointer
  <2> QED
    BY <1>1, <1>2, <2>1 DEF Kept, Reached
<1>3. CASE s.pointerTimer # NoTimer /\ RouteCurrent(Here(s))
  <2>1. t = WritePointer([s EXCEPT !.pointerTimer = NoTimer], s.pendingPointer)
    BY <1>3 DEF FlushPointer
  <2>2. /\ t \in IO /\ Kept(t, s) /\ PointerOK(t, link.generation) /\ MiddleOK(t, link.generation)
        /\ t.pointerTimer = NoTimer
        /\ t.lastButtons = s.lastButtons /\ Went(t, s, s.pointerTimer.revision)
        /\ t.server.route = s.pointerTimer.revision
        /\ Reached(t) = Reached(s) /\ t.server.position = Reached(s)
    BY <1>3, <2>1, DelayedWritten
  <2>3. s.pointerTimer.revision = s.middleRevision
    BY <1>3 DEF PointerOK
  <2> QED
    BY <1>1, <2>2, <2>3 DEF Went
<1>4. CASE s.pointerTimer # NoTimer /\ ~RouteCurrent(Here(s))
  <2>1. t = ResetPointer(s)
    BY <1>4 DEF FlushPointer
  <2>2. /\ t \in IO /\ Kept(t, s) /\ PointerOK(t, link.generation) /\ MiddleOK(t, link.generation)
        /\ t.server = s.server
        /\ t.pointerTimer = NoTimer /\ t.lastButtons = {} /\ Reached(t) <= Reached(s)
    BY <2>1, DelayedDropped
  <2> QED
    BY <1>1, <1>4, <2>2
<1> QED
  BY <1>2, <1>3, <1>4

----------------------------------------------------------------------------
(* Held keys *)

\* Taking out one element.
LEMMA Removed ==
  ASSUME NEW S, NEW q \in Seq(S), NEW k \in 1 .. Len(q)
  PROVE  /\ RemoveAt(q, k) \in Seq(S) /\ Len(RemoveAt(q, k)) = Len(q) - 1
         /\ \A i \in 1 .. Len(q) - 1 : RemoveAt(q, k)[i] = IF i < k THEN q[i] ELSE q[i + 1]
<1> DEFINE head == SubSeq(q, 1, k - 1)
           tail == SubSeq(q, k + 1, Len(q))
<1>1. /\ head \in Seq(S) /\ Len(head) = k - 1 /\ \A i \in 1 .. k - 1 : head[i] = q[i]
      /\ tail \in Seq(S) /\ Len(tail) = Len(q) - k /\ \A i \in 1 .. Len(q) - k : tail[i] = q[k + i]
  OBVIOUS
<1>2. RemoveAt(q, k) = head \o tail
  BY DEF RemoveAt
<1> HIDE DEF head, tail
<1>3. /\ head \o tail \in Seq(S) /\ Len(head \o tail) = Len(q) - 1
      /\ \A i \in 1 .. Len(q) - 1 : (head \o tail)[i] = IF i <= k - 1 THEN head[i] ELSE tail[i - (k - 1)]
  <2>1. /\ head \o tail \in Seq(S) /\ Len(head \o tail) = Len(head) + Len(tail)
        /\ \A i \in 1 .. Len(head) + Len(tail) :
             (head \o tail)[i] = IF i <= Len(head) THEN head[i] ELSE tail[i - Len(head)]
    BY <1>1, ConcatProperties
  <2> QED
    BY <1>1, <2>1
<1>4. ASSUME NEW i \in 1 .. Len(q) - 1
      PROVE  (head \o tail)[i] = IF i < k THEN q[i] ELSE q[i + 1]
  <2>1. CASE i < k
    BY <1>1, <1>3, <2>1
  <2>2. CASE ~(i < k)
    <3>1. i - (k - 1) \in 1 .. Len(q) - k /\ k + (i - (k - 1)) = i + 1
      BY <2>2
    <3> QED
      BY <1>1, <1>3, <2>2, <3>1
  <2> QED
    BY <2>1, <2>2
<1> QED
  BY <1>2, <1>3, <1>4

\* The indices of a sequence.
LEMMA Domain ==
  ASSUME NEW S, NEW q \in Seq(S)
  PROVE  DOMAIN q = 1 .. Len(q) /\ Len(q) \in Nat
OBVIOUS

\* What a key leaves alone.
Typed(t, s) ==
  /\ t.buttons = s.buttons /\ t.pointerPosition = s.pointerPosition /\ t.pointerTimer = s.pointerTimer
  /\ t.pendingPointer = s.pendingPointer /\ t.lastButtons = s.lastButtons /\ t.middle = s.middle
  /\ t.middleTimer = s.middleTimer /\ t.middleRevision = s.middleRevision /\ t.fed = s.fed
  /\ t.server.buttons = s.server.buttons /\ t.server.position = s.server.position
  /\ t.server.barrier = s.server.barrier

\* sendInput() for a key: held is what the server knows, under the symbol it was pressed with.
LEMMA KeySent ==
  ASSUME NEW s \in IO, KeysOK(s), Len(s.held) <= HeldKeys, NEW c, c.keyId \in Keys,
         c.symbol \in Symbols, c.down \in BOOLEAN, c.route \in Routes, ~NoRoom(s, c),
         NEW t, t = SendKey(s, c)
  PROVE  /\ t \in IO /\ KeysOK(t) /\ Len(t.held) <= HeldKeys /\ Typed(t, s)
         /\ t.server = s.server \/ t.server.route = c.route
         /\ KeyIds(t) = KeysAfter(KeyIds(s), c)
<1>1. s.held \in Seq(HeldKey) /\ s.server \in Server /\ s.server.keys \in SUBSET Symbols
  BY DEF IO, Server
<1>2. DOMAIN s.held = 1 .. Len(s.held) /\ Len(s.held) \in Nat
  BY <1>1, Domain
<1>3. Holding(s, c.keyId) <=> \E i \in 1 .. Len(s.held) : s.held[i].keyId = c.keyId
  BY <1>2 DEF Holding
<1>4. Holding(s, c.keyId) <=> c.keyId \in KeyIds(s)
  BY <1>3 DEF KeyIds
<1>5. \A i \in 1 .. Len(s.held) : s.held[i].keyId \in Keys /\ s.held[i].symbol \in Symbols
  <2>1. \A i \in 1 .. Len(s.held) : s.held[i] \in HeldKey
    BY <1>1
  <2> QED
    BY <2>1 DEF HeldKey
<1>6. CASE c.down = TRUE /\ ~Holding(s, c.keyId)
  <2> DEFINE e == [keyId |-> c.keyId, symbol |-> c.symbol]
             held == Append(s.held, e)
  <2>1. e \in HeldKey /\ e.keyId = c.keyId /\ e.symbol = c.symbol
    BY DEF HeldKey
  <2>2. t = [s EXCEPT !.held = held,
                      !.server.keys = @ \cup {held[CHOOSE i \in DOMAIN held :
                                                     held[i].keyId = c.keyId].symbol},
                      !.server.route = c.route]
    BY <1>6 DEF SendKey
  <2> HIDE DEF e
  <2>3. /\ held \in Seq(HeldKey) /\ Len(held) = Len(s.held) + 1 /\ held[Len(s.held) + 1] = e
        /\ \A i \in 1 .. Len(s.held) : held[i] = s.held[i]
    BY <1>1, <2>1
  <2> HIDE DEF held
  <2>4. DOMAIN held = 1 .. Len(s.held) + 1
    BY <2>3, Domain
  <2>5. \A i \in 1 .. Len(s.held) + 1 : held[i].keyId = c.keyId <=> i = Len(s.held) + 1
    BY <1>2, <1>3, <1>6, <2>1, <2>3
  <2>6. (CHOOSE i \in DOMAIN held : held[i].keyId = c.keyId) = Len(s.held) + 1
    <3>1. Len(s.held) + 1 \in DOMAIN held /\ held[Len(s.held) + 1].keyId = c.keyId
      BY <1>2, <2>1, <2>3, <2>4
    <3>2. \A i \in DOMAIN held : held[i].keyId = c.keyId => i = Len(s.held) + 1
      BY <2>4, <2>5
    <3> QED
      BY <3>1, <3>2
  <2>7. held[CHOOSE i \in DOMAIN held : held[i].keyId = c.keyId].symbol = c.symbol
    BY <2>1, <2>3, <2>6
  <2> DEFINE v == [s.server EXCEPT !.keys = @ \cup {c.symbol}, !.route = c.route]
  <2>8. /\ v \in Server /\ v.keys = s.server.keys \cup {c.symbol} /\ v.route = c.route
        /\ v.buttons = s.server.buttons /\ v.position = s.server.position
        /\ v.barrier = s.server.barrier
    BY <1>1 DEF Server
  <2>9. t = [s EXCEPT !.held = held, !.server = v]
    BY <1>1, <2>2, <2>7 DEF IO, Server
  <2> HIDE DEF v
  <2>10. t \in IO /\ t.held = held /\ t.server = v /\ Typed(t, s)
    BY <2>3, <2>8, <2>9 DEF IO, Typed
  <2>11. KeysOK(t)
    <3>1. \A i, j \in 1 .. Len(t.held) : t.held[i].keyId = t.held[j].keyId => i = j
      BY <1>2, <2>3, <2>5, <2>10 DEF KeysOK
    <3>2. ASSUME NEW y \in t.server.keys PROVE \E i \in 1 .. Len(t.held) : t.held[i].symbol = y
      <4>1. CASE y = c.symbol
        BY <1>2, <2>1, <2>3, <2>10, <4>1
      <4>2. CASE y \in s.server.keys
        <5>1. PICK i \in 1 .. Len(s.held) : s.held[i].symbol = y
          BY <4>2 DEF KeysOK
        <5>2. i \in 1 .. Len(held) /\ held[i].symbol = y
          BY <1>2, <2>3, <5>1
        <5> QED
          BY <2>10, <5>2
      <4> QED
        BY <2>8, <2>10, <4>1, <4>2
    <3> QED
      BY <3>1, <3>2 DEF KeysOK
  <2>12. Len(t.held) <= HeldKeys
    <3>1. Len(s.held) # HeldKeys /\ HeldKeys \in Nat
      BY <1>6, InputBounds DEF NoRoom
    <3> QED
      BY <1>2, <2>3, <2>10, <3>1
  <2>13. KeyIds(t) = KeyIds(s) \cup {c.keyId}
    <3>1. ASSUME NEW k PROVE k \in KeyIds(t) <=> k \in KeyIds(s) \/ k = c.keyId
      <4>1. ASSUME k \in KeyIds(t) PROVE k \in KeyIds(s) \/ k = c.keyId
        <5>1. PICK i \in 1 .. Len(held) : k = held[i].keyId
          BY <2>10, <4>1 DEF KeyIds
        <5>2. i \in 1 .. Len(s.held) \/ i = Len(s.held) + 1
          BY <1>2, <2>3
        <5> QED
          BY <2>1, <2>3, <5>1, <5>2 DEF KeyIds
      <4>2. ASSUME k \in KeyIds(s) PROVE k \in KeyIds(t)
        <5>1. PICK i \in 1 .. Len(s.held) : k = s.held[i].keyId
          BY <4>2 DEF KeyIds
        <5>2. i \in 1 .. Len(held) /\ k = held[i].keyId
          BY <1>2, <2>3, <5>1
        <5> QED
          BY <2>10, <5>2 DEF KeyIds
      <4>3. c.keyId \in KeyIds(t)
        <5>1. Len(s.held) + 1 \in 1 .. Len(held) /\ c.keyId = held[Len(s.held) + 1].keyId
          BY <1>2, <2>1, <2>3
        <5> QED
          BY <2>10, <5>1 DEF KeyIds
      <4> QED
        BY <4>1, <4>2, <4>3
    <3> QED
      BY <3>1
  <2> QED
    BY <1>6, <2>8, <2>10, <2>11, <2>12, <2>13 DEF KeysAfter
<1>7. CASE c.down = TRUE /\ Holding(s, c.keyId)
  <2> DEFINE x == CHOOSE i \in DOMAIN s.held : s.held[i].keyId = c.keyId
             y == s.held[x].symbol
             v == [s.server EXCEPT !.keys = @ \cup {y}, !.route = c.route]
  <2>1. x \in 1 .. Len(s.held)
    BY <1>2, <1>3, <1>7
  <2>2. t = [s EXCEPT !.held = s.held, !.server.keys = @ \cup {y}, !.server.route = c.route]
    BY <1>7 DEF SendKey
  <2> HIDE DEF x
  <2>3. y \in Symbols
    BY <1>5, <2>1
  <2>4. \E i \in 1 .. Len(s.held) : s.held[i].symbol = y
    BY <2>1
  <2> HIDE DEF y
  <2>5. /\ v \in Server /\ v.keys = s.server.keys \cup {y} /\ v.route = c.route
        /\ v.buttons = s.server.buttons /\ v.position = s.server.position
        /\ v.barrier = s.server.barrier
    BY <1>1, <2>3 DEF Server
  <2>6. t = [s EXCEPT !.server = v]
    BY <1>1, <2>2 DEF IO, Server
  <2> HIDE DEF v
  <2>7. t \in IO /\ t.held = s.held /\ t.server = v /\ Typed(t, s)
    BY <2>5, <2>6 DEF IO, Typed
  <2>8. KeysOK(t)
    BY <2>4, <2>5, <2>7 DEF KeysOK
  <2>9. KeyIds(t) = KeyIds(s) /\ KeyIds(s) = KeyIds(s) \cup {c.keyId}
    BY <1>4, <1>7, <2>7 DEF KeyIds
  <2> QED
    BY <1>7, <2>5, <2>7, <2>8, <2>9 DEF KeysAfter
<1>8. CASE c.down = FALSE /\ Holding(s, c.keyId)
  <2> DEFINE x == CHOOSE i \in DOMAIN s.held : s.held[i].keyId = c.keyId
             y == s.held[x].symbol
             held == RemoveAt(s.held, x)
             v == [s.server EXCEPT !.keys = @ \ {y}, !.route = c.route]
  <2>1. x \in 1 .. Len(s.held) /\ s.held[x].keyId = c.keyId
    BY <1>2, <1>3, <1>8
  <2>2. t = [s EXCEPT !.held = held, !.server.keys = @ \ {y}, !.server.route = c.route]
    BY <1>8 DEF SendKey, HeldIndex, ReleaseSymbol
  <2> HIDE DEF x
  <2>3. /\ held \in Seq(HeldKey) /\ Len(held) = Len(s.held) - 1
        /\ \A i \in 1 .. Len(s.held) - 1 : held[i] = IF i < x THEN s.held[i] ELSE s.held[i + 1]
    BY <1>1, <2>1, Removed
  <2> HIDE DEF held
  <2>4. /\ v \in Server /\ v.keys = s.server.keys \ {y} /\ v.route = c.route
        /\ v.buttons = s.server.buttons /\ v.position = s.server.position
        /\ v.barrier = s.server.barrier
    BY <1>1 DEF Server
  <2>5. t = [s EXCEPT !.held = held, !.server = v]
    BY <1>1, <2>2 DEF IO, Server
  <2> HIDE DEF v
  <2>6. t \in IO /\ t.held = held /\ t.server = v /\ Typed(t, s)
    BY <2>3, <2>4, <2>5 DEF IO, Typed
  <2>7. ASSUME NEW j \in 1 .. Len(s.held), j # x
        PROVE  \E i \in 1 .. Len(held) : held[i] = s.held[j]
    <3>1. CASE j < x
      BY <1>2, <2>1, <2>3, <3>1
    <3>2. CASE x < j
      <4>1. j - 1 \in 1 .. Len(held) /\ ~(j - 1 < x) /\ (j - 1) + 1 = j
        BY <1>2, <2>1, <2>3, <3>2
      <4>2. held[j - 1] = s.held[j]
        BY <2>3, <4>1
      <4> QED
        BY <4>1, <4>2
    <3> QED
      BY <1>2, <2>1, <2>7, <3>1, <3>2
  <2>8. ASSUME NEW i \in 1 .. Len(held)
        PROVE  \E j \in 1 .. Len(s.held) : j # x /\ held[i] = s.held[j] /\ (j = i \/ j = i + 1)
                                           /\ (j = i <=> i < x)
    <3>1. CASE i < x
      BY <1>2, <2>1, <2>3, <3>1
    <3>2. CASE ~(i < x)
      <4>1. i + 1 \in 1 .. Len(s.held) /\ i + 1 # x /\ held[i] = s.held[i + 1] /\ i + 1 # i
        BY <1>2, <2>1, <2>3, <3>2
      <4> QED
        BY <3>2, <4>1
    <3> QED
      BY <3>1, <3>2
  <2>9. KeysOK(t)
    <3>1. ASSUME NEW i \in 1 .. Len(held), NEW j \in 1 .. Len(held), held[i].keyId = held[j].keyId
          PROVE  i = j
      <4>1. PICK a \in 1 .. Len(s.held) : held[i] = s.held[a] /\ (a = i \/ a = i + 1) /\ (a = i <=> i < x)
        BY <2>8
      <4>2. PICK b \in 1 .. Len(s.held) : held[j] = s.held[b] /\ (b = j \/ b = j + 1) /\ (b = j <=> j < x)
        BY <2>8
      <4>3. a = b
        BY <3>1, <4>1, <4>2 DEF KeysOK
      <4> QED
        BY <1>2, <2>1, <2>3, <4>1, <4>2, <4>3
    <3>2. ASSUME NEW k \in t.server.keys PROVE \E i \in 1 .. Len(held) : held[i].symbol = k
      <4>1. k \in s.server.keys /\ k # y
        BY <2>4, <2>6
      <4>2. PICK j \in 1 .. Len(s.held) : s.held[j].symbol = k
        BY <4>1 DEF KeysOK
      <4>3. j # x
        BY <4>1, <4>2
      <4>4. PICK i \in 1 .. Len(held) : held[i] = s.held[j]
        BY <2>7, <4>3
      <4> QED
        BY <4>2, <4>4
    <3> QED
      BY <2>6, <3>1, <3>2 DEF KeysOK
  <2>10. KeyIds(t) = KeyIds(s) \ {c.keyId}
    <3>1. ASSUME NEW k \in KeyIds(t) PROVE k \in KeyIds(s) \ {c.keyId}
      <4>1. PICK i \in 1 .. Len(held) : k = held[i].keyId
        BY <2>6 DEF KeyIds
      <4>2. PICK j \in 1 .. Len(s.held) : j # x /\ held[i] = s.held[j]
        BY <2>8
      <4>3. s.held[j].keyId # c.keyId
        BY <2>1, <4>2 DEF KeysOK
      <4> QED
        BY <4>1, <4>2, <4>3 DEF KeyIds
    <3>2. ASSUME NEW k \in KeyIds(s) \ {c.keyId} PROVE k \in KeyIds(t)
      <4>1. PICK j \in 1 .. Len(s.held) : k = s.held[j].keyId
        BY DEF KeyIds
      <4>2. j # x
        BY <2>1, <4>1
      <4>3. PICK i \in 1 .. Len(held) : held[i] = s.held[j]
        BY <2>7, <4>2
      <4> QED
        BY <2>6, <4>1, <4>3 DEF KeyIds
    <3> QED
      BY <3>1, <3>2
  <2>11. Len(t.held) <= HeldKeys
    BY <1>2, <2>3, <2>6, InputBounds
  <2> QED
    BY <1>8, <2>4, <2>6, <2>9, <2>10, <2>11 DEF KeysAfter
<1>9. CASE c.down = FALSE /\ ~Holding(s, c.keyId)
  <2>1. t = s
    BY <1>9 DEF SendKey
  <2>2. KeyIds(s) = KeyIds(s) \ {c.keyId}
    BY <1>4, <1>9
  <2> QED
    BY <1>9, <2>1, <2>2 DEF Typed, KeysAfter
<1> QED
  BY <1>6, <1>7, <1>8, <1>9

\* releaseInput(): nothing stays pressed, and the pointer stays where it is.
LEMMA InputReleased ==
  ASSUME NEW s \in IO, NEW g, KeysOK(s), PointerOK(s, g), MiddleOK(s, g), NEW t, t = ReleaseInput(s)
  PROVE  /\ t \in IO /\ KeysOK(t) /\ PointerOK(t, g) /\ MiddleOK(t, g)
         /\ t.held = <<>> /\ t.buttons = {} /\ Clear(t) /\ Len(t.held) = 0 /\ KeyIds(t) = {}
         /\ t.server.position = s.server.position /\ Reached(t) = Reached(s)
         /\ t.server.barrier = s.server.barrier /\ t.server.route = s.server.route
         /\ t.pointerTimer = s.pointerTimer /\ t.lastButtons = s.lastButtons
         /\ t.middle = s.middle /\ t.middleTimer = s.middleTimer
         /\ t.middleRevision = s.middleRevision /\ t.fed = s.fed
<1> DEFINE keys == s.server.keys \ {s.held[i].symbol : i \in DOMAIN s.held}
           place == IF s.buttons # {} THEN s.pointerPosition ELSE s.server.position
           none == <<>>
           v == [s.server EXCEPT !.keys = keys, !.buttons = {}, !.position = place]
<1>1. s.held \in Seq(HeldKey) /\ s.server \in Server /\ s.server.keys \in SUBSET Symbols
  BY DEF IO, Server
<1>2. DOMAIN s.held = 1 .. Len(s.held)
  BY <1>1, Domain
<1>3. keys = {}
  BY <1>2 DEF KeysOK
<1>4. place = s.server.position
  BY DEF PointerOK
<1>5. {} \in Buttons /\ {} \in SUBSET Symbols
  BY DEF Buttons
<1>6. none \in Seq(HeldKey) /\ Len(none) = 0
  OBVIOUS
<1>7. t = [s EXCEPT !.held = none, !.buttons = {}, !.server.keys = keys, !.server.buttons = {},
                    !.server.position = place]
  BY DEF ReleaseInput
<1> HIDE DEF keys, place, none
<1>8. /\ v \in Server /\ v.keys = {} /\ v.buttons = {} /\ v.position = s.server.position
      /\ v.barrier = s.server.barrier /\ v.route = s.server.route
  BY <1>1, <1>3, <1>4, <1>5 DEF Server
<1>9. t = [s EXCEPT !.held = none, !.buttons = {}, !.server = v]
  BY <1>1, <1>7 DEF IO, Server
<1> HIDE DEF v
<1>10. /\ t \in IO /\ t.held = none /\ t.buttons = {} /\ t.server = v
       /\ t.pointerPosition = s.pointerPosition /\ t.pendingPointer = s.pendingPointer
       /\ t.pointerTimer = s.pointerTimer /\ t.lastButtons = s.lastButtons
       /\ t.middle = s.middle /\ t.middleTimer = s.middleTimer
       /\ t.middleRevision = s.middleRevision /\ t.fed = s.fed
  BY <1>5, <1>6, <1>8, <1>9 DEF IO
<1>11. KeysOK(t) /\ KeyIds(t) = {}
  BY <1>6, <1>8, <1>10 DEF KeysOK, KeyIds
<1>12. PointerOK(t, g) /\ Reached(t) = Reached(s) /\ Clear(t)
  BY <1>8, <1>10 DEF PointerOK, Reached, Clear
<1>13. MiddleOK(t, g)
  BY <1>10, <1>12 DEF MiddleOK
<1> QED
  BY <1>6, <1>8, <1>10, <1>11, <1>12, <1>13 DEF none

----------------------------------------------------------------------------
(* The queue *)

\* A queue is before its command; a base is what is known before the queue.
LEMMA QueueEmpty ==
  ASSUME NEW base, NEW x
  PROVE  /\ ButtonsTold(<<>>, base, x) <=> x = base
         /\ PlaceTold(<<>>, base, x) <=> x \in base
         /\ KeysTold(<<>>, base, x) <=> \A k \in Keys : k \in x <=> k \in base
<1> DEFINE q == <<>>
<1>1. Len(q) = 0 /\ 1 .. Len(q) = {} /\ Len(q) + 1 = 1 /\ 1 .. 0 = {}
  OBVIOUS
<1> HIDE DEF q
<1>2. ButtonsTold(q, base, x) <=> x = base
  BY <1>1 DEF ButtonsTold, ButtonsFit, ButtonsBefore, NoPointerIn
<1>3. PlaceTold(q, base, x) <=> x \in base
  BY <1>1 DEF PlaceTold, KeyFits, PlaceBefore, NoPointerIn
<1>4. KeysTold(q, base, x) <=> \A k \in Keys : k \in x <=> k \in base
  BY <1>1 DEF KeysTold, DownAtEnd, NoKeyIn
<1> QED
  BY <1>2, <1>3, <1>4 DEF q

\* A wider base has more places.
LEMMA PlacesWiden ==
  ASSUME NEW q, NEW base, NEW wide, \A p \in base : p \in wide, NEW trail, PlaceTold(q, base, trail)
  PROVE  PlaceTold(q, wide, trail)
BY DEF PlaceTold, KeyFits, PlaceBefore

\* Below n the entries before an entry only depend on those.
LEMMA SameBefore ==
  ASSUME NEW n \in Nat, NEW q, NEW r, \A i \in 1 .. n - 1 : r[i] = q[i], NEW base, NEW x
  PROVE  /\ ButtonsBefore(r, base, n, x) <=> ButtonsBefore(q, base, n, x)
         /\ PlaceBefore(r, base, n, x) <=> PlaceBefore(q, base, n, x)
<1>1. ASSUME NEW j \in 0 .. n - 1
      PROVE  NoPointerIn(r, j + 1, n - 1) <=> NoPointerIn(q, j + 1, n - 1)
  BY DEF NoPointerIn
<1>2. NoPointerIn(r, 1, n - 1) <=> NoPointerIn(q, 1, n - 1)
  BY DEF NoPointerIn
<1>3. \A j \in 1 .. n - 1 : NoPointerIn(r, j + 1, n - 1) <=> NoPointerIn(q, j + 1, n - 1)
  BY <1>1
<1>4. ButtonsBefore(r, base, n, x) <=> ButtonsBefore(q, base, n, x)
  BY <1>2, <1>3 DEF ButtonsBefore
<1>5. PlaceBefore(r, base, n, x) <=> PlaceBefore(q, base, n, x)
  BY <1>2, <1>3 DEF PlaceBefore
<1> QED
  BY <1>4, <1>5

\* After one more entry.
LEMMA OneMore ==
  ASSUME NEW n \in Nat, n >= 1, NEW q, NEW base, NEW x
  PROVE  /\ ButtonsBefore(q, base, n + 1, x) <=>
              IF IsPointer(q[n]) THEN x = q[n].buttons ELSE ButtonsBefore(q, base, n, x)
         /\ PlaceBefore(q, base, n + 1, x) <=>
              IF IsPointer(q[n]) THEN x = q[n].position ELSE PlaceBefore(q, base, n, x)
<1>1. (n + 1) - 1 = n /\ n \in 1 .. n /\ \A j \in 1 .. n : j = n \/ j \in 1 .. n - 1
  OBVIOUS
<1>2. CASE IsPointer(q[n])
  <2>1. \A j \in 1 .. n - 1 : ~NoPointerIn(q, j + 1, n)
    BY <1>2 DEF NoPointerIn
  <2>2. ~NoPointerIn(q, 1, n)
    BY <1>1, <1>2 DEF NoPointerIn
  <2>3. NoPointerIn(q, n + 1, n)
    BY DEF NoPointerIn
  <2>4. ButtonsBefore(q, base, n + 1, x) <=> x = q[n].buttons
    BY <1>1, <1>2, <2>1, <2>2, <2>3 DEF ButtonsBefore
  <2>5. PlaceBefore(q, base, n + 1, x) <=> x = q[n].position
    BY <1>1, <1>2, <2>1, <2>2, <2>3 DEF PlaceBefore
  <2> QED
    BY <1>2, <2>4, <2>5
<1>3. CASE ~IsPointer(q[n])
  <2>1. ASSUME NEW j \in 0 .. n - 1
        PROVE  NoPointerIn(q, j + 1, n) <=> NoPointerIn(q, j + 1, n - 1)
    <3>1. \A k \in j + 1 .. n : k = n \/ k \in j + 1 .. n - 1
      OBVIOUS
    <3>2. \A k \in j + 1 .. n - 1 : k \in j + 1 .. n
      OBVIOUS
    <3> QED
      BY <1>3, <3>1, <3>2 DEF NoPointerIn
  <2>2. \A j \in 1 .. n - 1 : NoPointerIn(q, j + 1, n) <=> NoPointerIn(q, j + 1, n - 1)
    BY <2>1
  <2>3. NoPointerIn(q, 1, n) <=> NoPointerIn(q, 1, n - 1)
    <3>1. 0 \in 0 .. n - 1 /\ 0 + 1 = 1
      OBVIOUS
    <3> QED
      BY <2>1, <3>1
  <2>4. ButtonsBefore(q, base, n + 1, x) <=> ButtonsBefore(q, base, n, x)
    BY <1>1, <1>3, <2>2, <2>3 DEF ButtonsBefore
  <2>5. PlaceBefore(q, base, n + 1, x) <=> PlaceBefore(q, base, n, x)
    BY <1>1, <1>3, <2>2, <2>3 DEF PlaceBefore
  <2> QED
    BY <1>3, <2>4, <2>5
<1> QED
  BY <1>2, <1>3

\* An entry is added, and the hosts are told.
LEMMA AppendedBefore ==
  ASSUME NEW q \in Seq(Command), NEW c \in Command, NEW r, r = Append(q, c), NEW base, NEW x
  PROVE  /\ r \in Seq(Command) /\ Len(r) = Len(q) + 1 /\ r[Len(q) + 1] = c
         /\ \A i \in 1 .. Len(q) : r[i] = q[i]
         /\ \A n \in 1 .. Len(q) + 1 :
              /\ ButtonsBefore(r, base, n, x) <=> ButtonsBefore(q, base, n, x)
              /\ PlaceBefore(r, base, n, x) <=> PlaceBefore(q, base, n, x)
<1>1. /\ r \in Seq(Command) /\ Len(r) = Len(q) + 1 /\ r[Len(q) + 1] = c /\ Len(q) \in Nat
      /\ \A i \in 1 .. Len(q) : r[i] = q[i]
  OBVIOUS
<1>2. ASSUME NEW n \in 1 .. Len(q) + 1
      PROVE  /\ ButtonsBefore(r, base, n, x) <=> ButtonsBefore(q, base, n, x)
             /\ PlaceBefore(r, base, n, x) <=> PlaceBefore(q, base, n, x)
  <2>1. n \in Nat /\ \A i \in 1 .. n - 1 : r[i] = q[i]
    BY <1>1
  <2> QED
    BY <2>1, SameBefore
<1> QED
  BY <1>1, <1>2

\* The buttons that the hosts count on, with one more command queued.
LEMMA ButtonsAppended ==
  ASSUME NEW q \in Seq(Command), NEW c \in Command, NEW r, r = Append(q, c), NEW base, NEW b,
         ButtonsTold(q, base, b)
  PROVE  /\ ~IsPointer(c) => ButtonsTold(r, base, b)
         /\ /\ IsPointer(c)
            /\ IF c.transition = TRUE THEN c.at = c.position ELSE c.buttons = b
            => ButtonsTold(r, base, c.buttons)
<1> DEFINE m == Len(q) + 1
<1>1. /\ Len(r) = m /\ r[m] = c /\ m \in Nat /\ m >= 1
      /\ \A i \in 1 .. Len(q) : r[i] = q[i]
      /\ \A i \in 1 .. m : i = m \/ i \in 1 .. Len(q)
  <2>1. Len(q) \in Nat
    OBVIOUS
  <2> QED
    BY <2>1, AppendedBefore
<1>2. \A n \in 1 .. m : \A x : ButtonsBefore(r, base, n, x) <=> ButtonsBefore(q, base, n, x)
  BY AppendedBefore
<1>3. \A i \in 1 .. Len(q) : i \in 1 .. m
  BY <1>1
<1>4. ButtonsFit(q, base) /\ ButtonsBefore(q, base, m, b)
  BY DEF ButtonsTold
<1> HIDE DEF m
<1>5. \A x : ButtonsBefore(r, base, m + 1, x) <=>
               IF IsPointer(c) THEN x = c.buttons ELSE ButtonsBefore(r, base, m, x)
  <2>1. \A x : ButtonsBefore(r, base, m + 1, x) <=>
                IF IsPointer(r[m]) THEN x = r[m].buttons ELSE ButtonsBefore(r, base, m, x)
    BY ONLY <1>1, OneMore
  <2> QED
    BY <1>1, <2>1
<1>6. m \in 1 .. m
  BY <1>1
<1>7. ASSUME IsPointer(c) => IF c.transition = TRUE THEN c.at = c.position ELSE c.buttons = b
      PROVE  ButtonsFit(r, base)
  <2> SUFFICES ASSUME NEW i \in 1 .. m, IsPointer(r[i])
               PROVE  IF r[i].transition = TRUE THEN r[i].at = r[i].position
                      ELSE ButtonsBefore(r, base, i, r[i].buttons)
    BY <1>1 DEF ButtonsFit
  <2>1. CASE i = m
    BY <1>1, <1>2, <1>4, <1>6, <1>7, <2>1
  <2>2. CASE i \in 1 .. Len(q)
    BY <1>1, <1>2, <1>4, <2>2 DEF ButtonsFit
  <2> QED
    BY <1>1, <2>1, <2>2
<1> QED
  BY <1>1, <1>2, <1>4, <1>5, <1>6, <1>7 DEF ButtonsTold

\* The place that the hosts count on, with one more command queued.
LEMMA PlaceAppended ==
  ASSUME NEW q \in Seq(Command), NEW c \in Command, NEW r, r = Append(q, c), NEW base, KeyFits(q, base)
  PROVE  /\ IsPointer(c) => PlaceTold(r, base, c.position)
         /\ \A p : /\ c.kind = "Key" /\ PlaceTold(q, base, p) /\ c.at = p
                   => PlaceTold(r, base, p)
<1> DEFINE m == Len(q) + 1
<1>1. /\ Len(r) = m /\ r[m] = c /\ m \in Nat /\ m >= 1
      /\ \A i \in 1 .. Len(q) : r[i] = q[i]
      /\ \A i \in 1 .. m : i = m \/ i \in 1 .. Len(q)
  <2>1. Len(q) \in Nat
    OBVIOUS
  <2> QED
    BY <2>1, AppendedBefore
<1>2. \A n \in 1 .. m : \A x : PlaceBefore(r, base, n, x) <=> PlaceBefore(q, base, n, x)
  BY AppendedBefore
<1>3. \A p : PlaceTold(q, base, p) => PlaceBefore(q, base, m, p)
  BY DEF PlaceTold
<1> HIDE DEF m
<1>4. \A x : PlaceBefore(r, base, m + 1, x) <=>
               IF IsPointer(c) THEN x = c.position ELSE PlaceBefore(r, base, m, x)
  <2>1. \A x : PlaceBefore(r, base, m + 1, x) <=>
                IF IsPointer(r[m]) THEN x = r[m].position ELSE PlaceBefore(r, base, m, x)
    BY ONLY <1>1, OneMore
  <2> QED
    BY <1>1, <2>1
<1>5. m \in 1 .. m
  BY <1>1
<1>6. ASSUME c.kind = "Key" => PlaceBefore(q, base, m, c.at)
      PROVE  KeyFits(r, base)
  <2> SUFFICES ASSUME NEW i \in 1 .. m, r[i].kind = "Key"
               PROVE  PlaceBefore(r, base, i, r[i].at)
    BY <1>1 DEF KeyFits
  <2>1. CASE i = m
    BY <1>1, <1>2, <1>5, <1>6, <2>1
  <2>2. CASE i \in 1 .. Len(q)
    BY <1>1, <1>2, <2>2 DEF KeyFits
  <2> QED
    BY <1>1, <2>1, <2>2
<1>7. "Key" # "Pointer"
  OBVIOUS
<1>8. IsPointer(c) => PlaceTold(r, base, c.position)
  BY <1>1, <1>4, <1>6, <1>7 DEF PlaceTold, IsPointer
<1>9. ASSUME NEW p, c.kind = "Key", PlaceTold(q, base, p), c.at = p
      PROVE  PlaceTold(r, base, p)
  BY <1>1, <1>2, <1>3, <1>4, <1>5, <1>6, <1>7, <1>9 DEF PlaceTold, IsPointer
<1> QED
  BY <1>8, <1>9

\* The keys that the hosts count on, with one more command queued.
LEMMA KeysAppended ==
  ASSUME NEW q \in Seq(Command), NEW c \in Command, NEW r, r = Append(q, c), NEW base, NEW down,
         KeysTold(q, base, down)
  PROVE  /\ IsPointer(c) => KeysTold(r, base, down)
         /\ c.kind = "Key" => KeysTold(r, base, KeysAfter(down, c))
<1> DEFINE m == Len(q) + 1
<1>1. /\ Len(r) = m /\ r[m] = c /\ m \in Nat /\ m >= 1
      /\ \A i \in 1 .. Len(q) : r[i] = q[i]
      /\ \A i \in 1 .. m : i = m \/ i \in 1 .. Len(q)
      /\ \A i \in 1 .. Len(q) : i \in 1 .. m /\ i # m
  <2>1. Len(q) \in Nat
    OBVIOUS
  <2> QED
    BY <2>1, AppendedBefore
<1> HIDE DEF m
<1>2. m \in 1 .. m
  BY <1>1
<1>3. ASSUME NEW k, NEW a \in 1 .. m
      PROVE  NoKeyIn(r, k, a) <=> NoKeyIn(q, k, a) /\ ~IsKey(c, k)
  <2>1. ASSUME NoKeyIn(r, k, a) PROVE NoKeyIn(q, k, a) /\ ~IsKey(c, k)
    <3>1. m \in a .. Len(r)
      BY <1>1
    <3>2. \A i \in a .. Len(q) : i \in a .. Len(r) /\ r[i] = q[i]
      <4>1. \A i \in a .. Len(q) : i \in 1 .. Len(q)
        BY <1>1
      <4>2. Len(q) \in Int
        OBVIOUS
      <4> QED
        BY <1>1, <4>1, <4>2
    <3> QED
      BY <1>1, <2>1, <3>1, <3>2 DEF NoKeyIn
  <2>2. ASSUME NoKeyIn(q, k, a), ~IsKey(c, k) PROVE NoKeyIn(r, k, a)
    <3>1. \A i \in a .. Len(r) : i = m \/ (i \in a .. Len(q) /\ r[i] = q[i])
      <4>1. \A i \in a .. Len(r) : i \in 1 .. m
        BY <1>1
      <4>2. Len(q) \in Int
        OBVIOUS
      <4> QED
        BY <1>1, <4>1, <4>2
    <3> QED
      BY <1>1, <2>2, <3>1 DEF NoKeyIn
  <2> QED
    BY <2>1, <2>2
<1>4. \A k : NoKeyIn(r, k, m + 1)
  BY <1>1 DEF NoKeyIn
<1>5. 1 \in 1 .. m /\ \A j \in 1 .. Len(q) : j + 1 \in 1 .. m
  <2>1. Len(q) \in Nat /\ m = Len(q) + 1
    BY DEF m
  <2> QED
    BY <2>1
<1>6. ASSUME NEW k
      PROVE  DownAtEnd(r, base, k) <=> IF IsKey(c, k) THEN c.down = TRUE ELSE DownAtEnd(q, base, k)
  <2>1. CASE IsKey(c, k)
    <3>1. \A j \in 1 .. m : NoKeyIn(r, k, j + 1) => j = m
      BY <1>1, <1>3, <1>5, <2>1
    <3>2. ~NoKeyIn(r, k, 1)
      BY <1>3, <1>5, <2>1
    <3> QED
      BY <1>1, <1>2, <1>4, <2>1, <3>1, <3>2 DEF DownAtEnd
  <2>2. CASE ~IsKey(c, k)
    <3>1. NoKeyIn(r, k, 1) <=> NoKeyIn(q, k, 1)
      BY <1>3, <1>5, <2>2
    <3>2. \A j \in 1 .. Len(q) : NoKeyIn(r, k, j + 1) <=> NoKeyIn(q, k, j + 1)
      BY <1>3, <1>5, <2>2
    <3> QED
      BY <1>1, <2>2, <3>1, <3>2 DEF DownAtEnd
  <2> QED
    BY <2>1, <2>2
<1>7. "Key" # "Pointer"
  OBVIOUS
<1>8. CASE IsPointer(c)
  <2>1. \A k : ~IsKey(c, k)
    BY <1>7, <1>8 DEF IsKey, IsPointer
  <2> QED
    BY <1>6, <1>7, <1>8, <2>1 DEF KeysTold, IsPointer
<1>9. CASE c.kind = "Key"
  <2>1. \A k : IsKey(c, k) <=> k = c.keyId
    BY <1>9 DEF IsKey
  <2>2. \A k \in Keys : k \in KeysAfter(down, c) <=> DownAtEnd(r, base, k)
    BY <1>6, <2>1 DEF KeysAfter, KeysTold
  <2> QED
    BY <1>7, <1>9, <2>2 DEF KeysTold, IsPointer
<1> QED
  BY <1>8, <1>9

\* A queue without its last entry.
LEMMA FrontOf ==
  ASSUME NEW S, NEW q \in Seq(S), q # <<>>
  PROVE  /\ Front(q) \in Seq(S) /\ Len(Front(q)) = Len(q) - 1
         /\ \A i \in 1 .. Len(q) - 1 : Front(q)[i] = q[i]
<1> DEFINE n == Len(q) - 1
<1>1. n \in Nat /\ n <= Len(q) /\ Len(q) \in Nat
  OBVIOUS
<1>2. \A i \in 1 .. n : q[i] \in S
  OBVIOUS
<1>3. Front(q) = SubSeq(q, 1, n)
  BY DEF Front
<1> HIDE DEF n
<1>4. /\ SubSeq(q, 1, n) \in Seq(S) /\ Len(SubSeq(q, 1, n)) = IF 1 <= n THEN n - 1 + 1 ELSE 0
      /\ \A i \in 1 .. n - 1 + 1 : SubSeq(q, 1, n)[i] = q[1 + i - 1]
  BY <1>1, <1>2, SubSeqProperties
<1>5. /\ SubSeq(q, 1, n) \in Seq(S) /\ Len(SubSeq(q, 1, n)) = n
      /\ \A i \in 1 .. n : SubSeq(q, 1, n)[i] = q[i]
  BY <1>1, <1>4
<1> QED
  BY <1>3, <1>5 DEF n

\* Motion is coalesced: without the last motion, the queue fits as well.
LEMMA FrontFits ==
  ASSUME NEW q \in Seq(Command), q # <<>>, IsPointer(q[Len(q)]), q[Len(q)].transition = FALSE,
         NEW r, r = Front(q)
  PROVE  \A bb, b, bp, bk, down, path :
           /\ ButtonsTold(q, bb, b) => ButtonsTold(r, bb, b)
           /\ KeyFits(q, bp) => KeyFits(r, bp)
           /\ KeysTold(q, bk, down) => KeysTold(r, bk, down)
           /\ Ordered(q, path) => Ordered(r, path)
<1> DEFINE m == Len(q)
<1>1. m \in Nat /\ m >= 1
  OBVIOUS
<1>2. /\ r \in Seq(Command) /\ Len(r) = m - 1 /\ \A i \in 1 .. m - 1 : r[i] = q[i]
  BY FrontOf
<1>3. IsPointer(q[m]) /\ q[m].transition = FALSE
  OBVIOUS
<1>10. Len(q) = m
  OBVIOUS
<1> HIDE DEF m
<1>4. ASSUME NEW n \in 1 .. m, NEW base, NEW x
      PROVE  /\ ButtonsBefore(r, base, n, x) <=> ButtonsBefore(q, base, n, x)
             /\ PlaceBefore(r, base, n, x) <=> PlaceBefore(q, base, n, x)
  <2>1. n \in Nat /\ \A i \in 1 .. n - 1 : r[i] = q[i]
    BY <1>1, <1>2
  <2> QED
    BY <2>1, SameBefore
<1>5. ASSUME NEW bb, NEW b, ButtonsTold(q, bb, b)
      PROVE  b = q[m].buttons /\ ButtonsBefore(q, bb, m, q[m].buttons)
  <2>0. ButtonsFit(q, bb) /\ ButtonsBefore(q, bb, m + 1, b)
    BY <1>5, <1>10 DEF ButtonsTold
  <2>1. ButtonsBefore(q, bb, m + 1, b) <=>
          IF IsPointer(q[m]) THEN b = q[m].buttons ELSE ButtonsBefore(q, bb, m, b)
    BY ONLY <1>1, OneMore
  <2>2. m \in 1 .. Len(q)
    BY <1>1, <1>10
  <2> QED
    BY <1>3, <2>0, <2>1, <2>2 DEF ButtonsFit
<1>6. m \in 1 .. m /\ (m - 1) + 1 = m /\ \A i \in 1 .. m - 1 : i \in 1 .. m
  BY <1>1
<1>7. ASSUME NEW bb, NEW b, ButtonsTold(q, bb, b) PROVE ButtonsTold(r, bb, b)
  <2>1. ButtonsFit(r, bb)
    BY <1>2, <1>4, <1>6, <1>7, <1>10 DEF ButtonsFit, ButtonsTold
  <2>2. ButtonsBefore(r, bb, m, b)
    BY <1>4, <1>5, <1>6, <1>7
  <2> QED
    BY <1>2, <1>6, <2>1, <2>2 DEF ButtonsTold
<1>8. ASSUME NEW bp, KeyFits(q, bp) PROVE KeyFits(r, bp)
  BY <1>2, <1>4, <1>6, <1>8, <1>10 DEF KeyFits
<1>9. ASSUME NEW bk, NEW down, KeysTold(q, bk, down) PROVE KeysTold(r, bk, down)
  <2>1. ASSUME NEW k, NEW a \in 1 .. m
        PROVE  NoKeyIn(q, k, a) <=> NoKeyIn(r, k, a)
    <3>1. ~IsKey(q[m], k)
      <4>1. "Key" # "Pointer"
        OBVIOUS
      <4> QED
        BY <1>3, <4>1 DEF IsKey, IsPointer
    <3>2. \A i \in a .. m : i = m \/ (i \in a .. m - 1 /\ r[i] = q[i])
      BY <1>1, <1>2
    <3>3. \A i \in a .. m - 1 : i \in a .. m /\ r[i] = q[i]
      BY <1>1, <1>2
    <3> QED
      BY <1>2, <1>10, <3>1, <3>2, <3>3 DEF NoKeyIn
  <2>2. ASSUME NEW k PROVE DownAtEnd(q, bk, k) <=> DownAtEnd(r, bk, k)
    <3>1. ~IsKey(q[m], k)
      <4>1. "Key" # "Pointer"
        OBVIOUS
      <4> QED
        BY <1>3, <4>1 DEF IsKey, IsPointer
    <3>2. 1 \in 1 .. m /\ \A j \in 1 .. m - 1 : j + 1 \in 1 .. m
      BY <1>1
    <3>3. NoKeyIn(q, k, 1) <=> NoKeyIn(r, k, 1)
      BY <2>1, <3>2
    <3>4. \A j \in 1 .. m - 1 : NoKeyIn(q, k, j + 1) <=> NoKeyIn(r, k, j + 1)
      BY <2>1, <3>2
    <3>5. \A j \in 1 .. m : j = m \/ j \in 1 .. m - 1
      BY <1>1
    <3> QED
      BY <1>2, <1>6, <1>10, <3>1, <3>3, <3>4, <3>5 DEF DownAtEnd
  <2> QED
    BY <1>9, <2>2 DEF KeysTold
<1>11. ASSUME NEW path, Ordered(q, path) PROVE Ordered(r, path)
  <2>1. \A i \in 1 .. m - 1 : \A j \in i + 1 .. m - 1 : j \in i + 1 .. m /\ j \in 1 .. m - 1
    BY <1>1
  <2> QED
    BY <1>2, <1>6, <1>10, <1>11, <2>1 DEF Ordered
<1> QED
  BY <1>7, <1>8, <1>9, <1>11

\* The worker takes the first entry.
LEMMA TailBefore ==
  ASSUME NEW q \in Seq(Command), q # <<>>, NEW r, r = Tail(q), NEW n \in 1 .. Len(q),
         NEW base, NEW x
  PROVE  /\ ButtonsBefore(q, base, n + 1, x)
              => ButtonsBefore(r, IF IsPointer(q[1]) THEN q[1].buttons ELSE base, n, x)
         /\ PlaceBefore(q, base, n + 1, x)
              => PlaceBefore(r, IF IsPointer(q[1]) THEN {q[1].position} ELSE base, n, x)
<1>1. /\ r \in Seq(Command) /\ Len(r) = Len(q) - 1 /\ \A i \in 1 .. Len(q) - 1 : r[i] = q[i + 1]
      /\ Len(q) \in Nat /\ Len(q) >= 1
  OBVIOUS
<1>2. ASSUME NEW a \in 1 .. n, NoPointerIn(q, a + 1, n)
      PROVE  NoPointerIn(r, a, n - 1)
  <2>1. ASSUME NEW k \in a .. n - 1 PROVE ~IsPointer(r[k])
    <3>1. k + 1 \in a + 1 .. n /\ k \in 1 .. Len(q) - 1
      BY <1>1
    <3> QED
      BY <1>1, <1>2, <3>1 DEF NoPointerIn
  <2> QED
    BY <2>1 DEF NoPointerIn
<1>3. (n + 1) - 1 = n /\ 1 \in 1 .. n
  BY <1>1
<1>4. ASSUME NEW j \in 1 .. n, j # 1, NoPointerIn(q, j + 1, n)
      PROVE  j - 1 \in 1 .. n - 1 /\ r[j - 1] = q[j] /\ NoPointerIn(r, (j - 1) + 1, n - 1)
  <2>1. j - 1 \in 1 .. n - 1 /\ j - 1 \in 1 .. Len(q) - 1 /\ (j - 1) + 1 = j
    BY <1>1, <1>4
  <2> QED
    BY <1>1, <1>2, <1>4, <2>1
<1>5. NoPointerIn(q, 1 + 1, n) => NoPointerIn(r, 1, n - 1)
  BY <1>2, <1>3
<1>6. NoPointerIn(q, 1, n) => ~IsPointer(q[1]) /\ NoPointerIn(q, 1 + 1, n)
  <2>1. \A k \in 1 + 1 .. n : k \in 1 .. n
    OBVIOUS
  <2> QED
    BY <1>3, <2>1 DEF NoPointerIn
<1>7. ASSUME ButtonsBefore(q, base, n + 1, x)
      PROVE  ButtonsBefore(r, IF IsPointer(q[1]) THEN q[1].buttons ELSE base, n, x)
  <2>1. CASE NoPointerIn(q, 1, n) /\ x = base
    BY <1>5, <1>6, <2>1 DEF ButtonsBefore
  <2>2. CASE IsPointer(q[1]) /\ q[1].buttons = x /\ NoPointerIn(q, 1 + 1, n)
    BY <1>5, <2>2 DEF ButtonsBefore
  <2>3. ASSUME NEW j \in 1 .. n, j # 1, IsPointer(q[j]), q[j].buttons = x, NoPointerIn(q, j + 1, n)
        PROVE  ButtonsBefore(r, IF IsPointer(q[1]) THEN q[1].buttons ELSE base, n, x)
    <3>1. j - 1 \in 1 .. n - 1 /\ r[j - 1] = q[j] /\ NoPointerIn(r, (j - 1) + 1, n - 1)
      BY <1>4, <2>3
    <3> QED
      BY <2>3, <3>1 DEF ButtonsBefore
  <2> QED
    BY <1>3, <1>7, <2>1, <2>2, <2>3 DEF ButtonsBefore
<1>8. ASSUME PlaceBefore(q, base, n + 1, x)
      PROVE  PlaceBefore(r, IF IsPointer(q[1]) THEN {q[1].position} ELSE base, n, x)
  <2>1. CASE NoPointerIn(q, 1, n) /\ x \in base
    BY <1>5, <1>6, <2>1 DEF PlaceBefore
  <2>2. CASE IsPointer(q[1]) /\ q[1].position = x /\ NoPointerIn(q, 1 + 1, n)
    BY <1>5, <2>2 DEF PlaceBefore
  <2>3. ASSUME NEW j \in 1 .. n, j # 1, IsPointer(q[j]), q[j].position = x, NoPointerIn(q, j + 1, n)
        PROVE  PlaceBefore(r, IF IsPointer(q[1]) THEN {q[1].position} ELSE base, n, x)
    <3>1. j - 1 \in 1 .. n - 1 /\ r[j - 1] = q[j] /\ NoPointerIn(r, (j - 1) + 1, n - 1)
      BY <1>4, <2>3
    <3> QED
      BY <2>3, <3>1 DEF PlaceBefore
  <2> QED
    BY <1>3, <1>8, <2>1, <2>2, <2>3 DEF PlaceBefore
<1> QED
  BY <1>7, <1>8

\* Taking the head of a queue: what is told is what the rest makes of what the head made.
LEMMA TailOf ==
  ASSUME NEW q \in Seq(Command), q # <<>>, NEW r, r = Tail(q), NEW c, c = Head(q)
  PROVE  /\ r \in Seq(Command) /\ Len(r) = Len(q) - 1 /\ \A i \in 1 .. Len(r) : r[i] = q[i + 1]
         /\ c \in Command /\ c = q[1] /\ 1 \in 1 .. Len(q)
OBVIOUS

\* The buttons: what the rest of the queue makes of what its head made.
LEMMA TailButtons ==
  ASSUME NEW q \in Seq(Command), q # <<>>, NEW r, r = Tail(q), NEW c, c = Head(q),
         NEW bb, NEW b, ButtonsTold(q, bb, b)
  PROVE  /\ ButtonsTold(r, IF IsPointer(c) THEN c.buttons ELSE bb, b)
         /\ IsPointer(c) => IF c.transition = TRUE THEN c.at = c.position ELSE c.buttons = bb
<1> DEFINE m == Len(q)
           base1 == IF IsPointer(c) THEN c.buttons ELSE bb
<1>1. /\ r \in Seq(Command) /\ Len(r) = m - 1 /\ \A i \in 1 .. m - 1 : r[i] = q[i + 1]
      /\ m \in Nat /\ m >= 1 /\ c = q[1] /\ q[1] \in Command
  OBVIOUS
<1>2. ASSUME NEW n \in 1 .. m, NEW x
      PROVE  ButtonsBefore(q, bb, n + 1, x) => ButtonsBefore(r, base1, n, x)
  BY <1>1, TailBefore
<1>3. ButtonsFit(q, bb) /\ ButtonsBefore(q, bb, m + 1, b)
  BY DEF ButtonsTold
<1>4. Len(q) = m
  OBVIOUS
<1> HIDE DEF m, base1
<1>5. /\ m \in 1 .. m /\ 1 \in 1 .. m /\ (m - 1) + 1 = m
      /\ \A i \in 1 .. m - 1 : i + 1 \in 1 .. m /\ i \in 1 .. m
  BY <1>1
<1>6. ButtonsTold(r, base1, b)
  <2>1. ButtonsFit(r, base1)
    <3> SUFFICES ASSUME NEW i \in 1 .. m - 1, IsPointer(r[i])
                 PROVE  IF r[i].transition = TRUE THEN r[i].at = r[i].position
                        ELSE ButtonsBefore(r, base1, i, r[i].buttons)
      BY <1>1 DEF ButtonsFit
    <3>1. i + 1 \in 1 .. Len(q) /\ i \in 1 .. m /\ r[i] = q[i + 1]
      BY <1>1, <1>4, <1>5
    <3>2. IF r[i].transition = TRUE THEN r[i].at = r[i].position
          ELSE ButtonsBefore(q, bb, i + 1, r[i].buttons)
      BY <1>3, <3>1 DEF ButtonsFit
    <3> QED
      BY <1>2, <3>1, <3>2
  <2>2. ButtonsBefore(r, base1, m, b)
    BY <1>2, <1>3, <1>5
  <2> QED
    BY <1>1, <1>5, <2>1, <2>2 DEF ButtonsTold
<1>9. IsPointer(c) => IF c.transition = TRUE THEN c.at = c.position ELSE c.buttons = bb
  <2>1. \A x : ButtonsBefore(q, bb, 1, x) => x = bb
    BY DEF ButtonsBefore
  <2> QED
    BY <1>1, <1>3, <1>4, <1>5, <2>1 DEF ButtonsFit
<1> QED
  BY <1>6, <1>9 DEF base1

\* The place: what the rest of the queue makes of what its head made.
LEMMA TailPlace ==
  ASSUME NEW q \in Seq(Command), q # <<>>, NEW r, r = Tail(q), NEW c, c = Head(q),
         NEW bp, NEW p, PlaceTold(q, bp, p)
  PROVE  /\ PlaceTold(r, IF IsPointer(c) THEN {c.position} ELSE bp, p)
         /\ c.kind = "Key" => c.at \in bp
<1> DEFINE m == Len(q)
           base2 == IF IsPointer(c) THEN {c.position} ELSE bp
<1>1. /\ r \in Seq(Command) /\ Len(r) = m - 1 /\ \A i \in 1 .. m - 1 : r[i] = q[i + 1]
      /\ m \in Nat /\ m >= 1 /\ c = q[1] /\ q[1] \in Command
  OBVIOUS
<1>2. ASSUME NEW n \in 1 .. m, NEW x
      PROVE  PlaceBefore(q, bp, n + 1, x) => PlaceBefore(r, base2, n, x)
  BY <1>1, TailBefore
<1>3. KeyFits(q, bp) /\ PlaceBefore(q, bp, m + 1, p)
  BY DEF PlaceTold
<1>4. Len(q) = m
  OBVIOUS
<1> HIDE DEF m, base2
<1>5. /\ m \in 1 .. m /\ 1 \in 1 .. m /\ (m - 1) + 1 = m
      /\ \A i \in 1 .. m - 1 : i + 1 \in 1 .. m /\ i \in 1 .. m
  BY <1>1
<1>7. PlaceTold(r, base2, p)
  <2>1. KeyFits(r, base2)
    <3> SUFFICES ASSUME NEW i \in 1 .. m - 1, r[i].kind = "Key"
                 PROVE  PlaceBefore(r, base2, i, r[i].at)
      BY <1>1 DEF KeyFits
    <3>1. i + 1 \in 1 .. Len(q) /\ i \in 1 .. m /\ r[i] = q[i + 1]
      BY <1>1, <1>4, <1>5
    <3>2. PlaceBefore(q, bp, i + 1, r[i].at)
      BY <1>3, <3>1 DEF KeyFits
    <3> QED
      BY <1>2, <3>1, <3>2
  <2>2. PlaceBefore(r, base2, m, p)
    BY <1>2, <1>3, <1>5
  <2> QED
    BY <1>1, <1>5, <2>1, <2>2 DEF PlaceTold
<1>8. c.kind = "Key" => c.at \in bp
  <2>1. \A x : PlaceBefore(q, bp, 1, x) => x \in bp
    BY DEF PlaceBefore
  <2> QED
    BY <1>1, <1>3, <1>4, <1>5, <2>1 DEF KeyFits
<1> QED
  BY <1>7, <1>8 DEF base2

\* The keys: what the rest of the queue makes of what its head made.
LEMMA TailKeys ==
  ASSUME NEW q \in Seq(Command), q # <<>>, NEW r, r = Tail(q), NEW c, c = Head(q),
         NEW bk, NEW down, KeysTold(q, bk, down)
  PROVE  KeysTold(r, IF c.kind = "Key" THEN KeysAfter(bk, c) ELSE bk, down)
<1> DEFINE m == Len(q)
<1>1. /\ r \in Seq(Command) /\ Len(r) = m - 1 /\ \A i \in 1 .. m - 1 : r[i] = q[i + 1]
      /\ m \in Nat /\ m >= 1 /\ c = q[1] /\ q[1] \in Command
  OBVIOUS
<1>4. Len(q) = m
  OBVIOUS
<1> HIDE DEF m
<1>5. /\ m \in 1 .. m /\ 1 \in 1 .. m /\ (m - 1) + 1 = m
      /\ \A i \in 1 .. m - 1 : i + 1 \in 1 .. m /\ i \in 1 .. m
  BY <1>1
<1>10. KeysTold(r, IF c.kind = "Key" THEN KeysAfter(bk, c) ELSE bk, down)
  <2>1. ASSUME NEW k, NEW a \in 1 .. m
        PROVE  NoKeyIn(q, k, a + 1) <=> NoKeyIn(r, k, a)
    <3>1. \A i \in a .. m - 1 : i + 1 \in a + 1 .. m /\ r[i] = q[i + 1]
      BY <1>1
    <3>2. \A i \in a + 1 .. m : i - 1 \in a .. m - 1 /\ r[i - 1] = q[i]
      <4> SUFFICES ASSUME NEW i \in a + 1 .. m PROVE i - 1 \in a .. m - 1 /\ r[i - 1] = q[i]
        OBVIOUS
      <4>1. i - 1 \in 1 .. m - 1 /\ (i - 1) + 1 = i /\ i - 1 \in a .. m - 1
        BY <1>1
      <4> QED
        BY <1>1, <4>1
    <3> QED
      BY <1>1, <1>4, <3>1, <3>2 DEF NoKeyIn
  <2>2. ASSUME NEW k PROVE NoKeyIn(q, k, 1) <=> ~IsKey(c, k) /\ NoKeyIn(r, k, 1)
    <3>1. \A i \in 1 .. m : i = 1 \/ i \in 1 + 1 .. m
      BY <1>1
    <3>2. \A i \in 1 + 1 .. m : i \in 1 .. m
      BY <1>1
    <3>3. NoKeyIn(q, k, 1 + 1) <=> NoKeyIn(r, k, 1)
      BY <1>5, <2>1
    <3> QED
      BY <1>1, <1>4, <1>5, <3>1, <3>2, <3>3 DEF NoKeyIn
  <2> DEFINE base == IF c.kind = "Key" THEN KeysAfter(bk, c) ELSE bk
  <2>3. \A k : k \in base <=> IF IsKey(c, k) THEN c.down = TRUE ELSE k \in bk
    BY DEF IsKey, KeysAfter
  <2> HIDE DEF base
  <2>4. ASSUME NEW k PROVE DownAtEnd(q, bk, k) <=> DownAtEnd(r, base, k)
    <3>1. ASSUME NEW j \in 1 .. m - 1
          PROVE  /\ j + 1 \in 1 .. m /\ r[j] = q[j + 1]
                 /\ NoKeyIn(q, k, (j + 1) + 1) <=> NoKeyIn(r, k, j + 1)
      <4>1. j + 1 \in 1 .. m
        BY <1>5
      <4> QED
        BY <1>1, <2>1, <4>1
    <3>2. ASSUME NEW j \in 1 .. m, j # 1
          PROVE  /\ j - 1 \in 1 .. m - 1 /\ r[j - 1] = q[j]
                 /\ NoKeyIn(q, k, j + 1) <=> NoKeyIn(r, k, (j - 1) + 1)
      <4>1. j - 1 \in 1 .. m - 1 /\ (j - 1) + 1 = j
        BY <1>1, <3>2
      <4>2. r[j - 1] = q[(j - 1) + 1]
        BY <1>1, <4>1
      <4> QED
        BY <2>1, <4>1, <4>2
    <3>3. NoKeyIn(q, k, 1 + 1) <=> NoKeyIn(r, k, 1)
      BY <1>5, <2>1
    <3>4. ASSUME DownAtEnd(q, bk, k) PROVE DownAtEnd(r, base, k)
      <4>1. CASE NoKeyIn(q, k, 1) /\ k \in bk
        BY <2>2, <2>3, <4>1 DEF DownAtEnd
      <4>2. ASSUME NEW j \in 1 .. m, IsKey(q[j], k), q[j].down = TRUE, NoKeyIn(q, k, j + 1)
            PROVE  DownAtEnd(r, base, k)
        <5>1. CASE j = 1
          BY <1>1, <2>3, <3>3, <4>2, <5>1 DEF DownAtEnd
        <5>2. CASE j # 1
          BY <1>1, <3>2, <4>2, <5>2 DEF DownAtEnd
        <5> QED
          BY <5>1, <5>2
      <4> QED
        BY <1>4, <3>4, <4>1, <4>2 DEF DownAtEnd
    <3>5. ASSUME DownAtEnd(r, base, k) PROVE DownAtEnd(q, bk, k)
      <4>1. CASE NoKeyIn(r, k, 1) /\ k \in base
        BY <1>1, <1>4, <1>5, <2>2, <2>3, <3>3, <4>1 DEF DownAtEnd
      <4>2. ASSUME NEW j \in 1 .. m - 1, IsKey(r[j], k), r[j].down = TRUE, NoKeyIn(r, k, j + 1)
            PROVE  DownAtEnd(q, bk, k)
        BY <1>4, <3>1, <4>2 DEF DownAtEnd
      <4> QED
        BY <1>1, <3>5, <4>1, <4>2 DEF DownAtEnd
    <3> QED
      BY <3>4, <3>5
  <2> QED
    BY <2>4 DEF KeysTold, base
<1> QED
  BY <1>10

\* The rest of the queue goes on from its head.
LEMMA TailOrder ==
  ASSUME NEW q \in Seq(Command), q # <<>>, NEW r, r = Tail(q), NEW c, c = Head(q),
         NEW path, Ordered(q, path)
  PROVE  Ordered(r, path) /\ (IsPointer(c) => Follows(r, c.position) /\ c.position <= path)
<1> DEFINE m == Len(q)
<1>1. /\ r \in Seq(Command) /\ Len(r) = m - 1 /\ \A i \in 1 .. m - 1 : r[i] = q[i + 1]
      /\ m \in Nat /\ m >= 1 /\ c = q[1] /\ q[1] \in Command
  OBVIOUS
<1>4. Len(q) = m
  OBVIOUS
<1> HIDE DEF m
<1>5. /\ m \in 1 .. m /\ 1 \in 1 .. m /\ (m - 1) + 1 = m
      /\ \A i \in 1 .. m - 1 : i + 1 \in 1 .. m /\ i \in 1 .. m
  BY <1>1
<1>11. Ordered(r, path)
  <2> SUFFICES ASSUME NEW i \in 1 .. m - 1, IsPointer(r[i])
               PROVE  /\ r[i].position <= path
                      /\ \A j \in i + 1 .. m - 1 : IsPointer(r[j]) => r[i].position <= r[j].position
    BY <1>1 DEF Ordered
  <2>1. i + 1 \in 1 .. Len(q) /\ r[i] = q[i + 1]
    BY <1>1, <1>4, <1>5
  <2>2. \A j \in i + 1 .. m - 1 : j + 1 \in (i + 1) + 1 .. Len(q) /\ j \in 1 .. m - 1 /\ r[j] = q[j + 1]
    BY <1>1, <1>4
  <2> QED
    BY <2>1, <2>2 DEF Ordered
<1>12. IsPointer(c) => Follows(r, c.position) /\ c.position <= path
  <2>1. \A j \in 1 .. m - 1 : j + 1 \in 1 + 1 .. Len(q) /\ r[j] = q[j + 1]
    BY <1>1, <1>4
  <2> QED
    BY <1>1, <1>4, <1>5, <2>1 DEF Ordered, Follows
<1> QED
  BY <1>11, <1>12

----------------------------------------------------------------------------
(* Steps of the hosts *)

\* The constants, and the least place, route and set of buttons.
LEMMA Bounds ==
  /\ {Capacity, HeldKeys, Hosts, MaxPosition, MaxRevision, MaxGeneration} \subseteq Nat \ {0}
  /\ Capacity \in Nat \ {0} /\ HeldKeys \in Nat \ {0} /\ Hosts \in Nat \ {0} /\ MaxPosition \in Nat \ {0}
  /\ MaxRevision \in Nat \ {0} /\ 0 \in Places /\ 0 \in Routes /\ {} \in Buttons
  /\ (\A r \in Routes : r \in Int) /\ (\A p \in Places : p \in Int)
BY InputBounds DEF Places, Routes, Buttons

\* What the types say of each variable.
LEMMA MailboxType ==
  ASSUME mailbox \in Mailbox
  PROVE  /\ mailbox.generation \in Nat /\ mailbox.routingRevision \in 1 .. MaxRevision
         /\ mailbox.connected \in BOOLEAN /\ mailbox.focused \in BOOLEAN
         /\ mailbox.viewOnly \in BOOLEAN /\ mailbox.releasePending \in BOOLEAN
         /\ mailbox.emulateMiddle \in BOOLEAN /\ mailbox.buttons \in Buttons
         /\ mailbox.queue \in Seq(Command)
BY DEF Mailbox

\* The host releases everything: what is in hand is overtaken, and nothing is told.
LEMMA HostReleases ==
  ASSUME InputInv, waking < Hosts, waking' = waking + 1, UNCHANGED <<worker, link, io, wake>>,
         told' = Forgotten(told), NEW r \in 1 .. MaxRevision, NEW f \in BOOLEAN, NEW v \in BOOLEAN,
         NEW e \in BOOLEAN,
         mailbox' = [mailbox EXCEPT !.queue = <<>>, !.buttons = {}, !.releasePending = mailbox.connected,
                                    !.routingRevision = r, !.focused = f, !.viewOnly = v,
                                    !.emulateMiddle = e],
         \/ r = mailbox.routingRevision + 1
         \/ /\ r = mailbox.routingRevision /\ ~Allowed
            /\ f = mailbox.focused /\ v = mailbox.viewOnly /\ e = mailbox.emulateMiddle
  PROVE  InputInv'
<1> DEFINE none == <<>>
<1>1. /\ Types /\ IoKnown /\ LinkKnown /\ QueueKnown /\ HandKnown /\ RoutesKnown /\ PressKnown
      /\ PathKnown /\ Accounted /\ Budgeted
  BY DEF InputInv
<1>2. /\ none \in Seq(Command) /\ Len(none) = 0 /\ 1 .. Len(none) = {}
  OBVIOUS
<1>3. mailbox' = [mailbox EXCEPT !.queue = none, !.buttons = {}, !.releasePending = mailbox.connected,
                                 !.routingRevision = r, !.focused = f, !.viewOnly = v,
                                 !.emulateMiddle = e]
  OBVIOUS
<1> HIDE DEF none
<1>4. /\ mailbox \in Mailbox /\ told \in Told /\ worker \in Worker /\ io \in IO /\ link \in Link
      /\ waking \in 0 .. Hosts /\ wake \in BOOLEAN /\ Len(io.held) <= HeldKeys
  BY <1>1 DEF Types
<1>5. /\ mailbox' \in Mailbox /\ mailbox'.generation = mailbox.generation
      /\ mailbox'.queue = none /\ mailbox'.buttons = {} /\ mailbox'.releasePending = mailbox.connected
      /\ mailbox'.routingRevision = r /\ mailbox'.focused = f /\ mailbox'.viewOnly = v
      /\ mailbox'.emulateMiddle = e /\ mailbox'.connected = mailbox.connected
  BY ONLY <1>2, <1>3, <1>4, Bounds, r \in 1 .. MaxRevision, f \in BOOLEAN, v \in BOOLEAN, e \in BOOLEAN
     DEF Mailbox
<1>6. /\ told' \in Told /\ told'.path = told.path /\ told'.trail = 0 /\ told'.down = {}
  BY <1>4, Bounds DEF Told, Forgotten, NothingTold
<1>7. worker' = worker /\ link' = link /\ io' = io /\ wake' = wake
  OBVIOUS
<1>8. mailbox.connected \in BOOLEAN /\ mailbox.releasePending \in BOOLEAN /\ link.ready \in BOOLEAN
      /\ mailbox.routingRevision \in Int /\ r \in Int /\ r >= 1 /\ r >= mailbox.routingRevision
  BY <1>4, MailboxType, Bounds DEF Link
<1>9. Types'
  BY <1>2, <1>4, <1>5, <1>6, <1>7, <1>8, Bounds DEF Types
<1>10. IoKnown'
  BY <1>1, <1>7 DEF IoKnown
<1>11. LinkKnown'
  BY <1>1, <1>5, <1>6, <1>7 DEF LinkKnown, Untold, Blank, none
<1>12. QueueKnown'
  BY <1>2, <1>5, <1>6 DEF QueueKnown, Untold, Allowed, none
<1>13. worker.pc = "send" => worker.revision \in 1 .. mailbox.routingRevision /\ link.ready = TRUE /\ worker.revision \in Int
  BY <1>1 DEF HandKnown, LinkKnown
<1>14. InHand => worker.revision # r /\ mailbox'.releasePending = TRUE
  <2>1. CASE r = mailbox.routingRevision + 1
    BY <1>1, <1>5, <1>8, <1>13, <2>1 DEF InHand, LinkKnown
  <2>2. CASE r = mailbox.routingRevision /\ e = mailbox.emulateMiddle /\ ~Allowed
    BY <1>1, <1>5, <1>13, <2>2 DEF InHand, LinkKnown, HandKnown
  <2> QED
    BY <2>1, <2>2
<1>15. HandKnown'
  <2>1. InHand' = InHand
    BY <1>7 DEF InHand
  <2>2. worker.pc = "send" => worker.revision \in 1 .. r
    BY <1>8, <1>13
  <2> QED
    BY <1>1, <1>5, <1>7, <1>14, <2>1, <2>2 DEF HandKnown
<1>16. io.server.barrier \in Int /\ io.middleRevision \in Int /\ io.pointerTimer.revision \in Int
  BY <1>4, Bounds DEF IO, Server, Timer
<1>17. OnRoute' => OnRoute /\ r = mailbox.routingRevision /\ e = mailbox.emulateMiddle
  BY <1>1, <1>5, <1>7, <1>8, <1>16 DEF OnRoute, RoutesKnown
<1>18. RoutesKnown'
  <2>1. /\ io.server.barrier <= r /\ io.middleRevision <= r /\ io.pointerTimer.revision <= r
        /\ io.pointerTimer.revision = r => r = mailbox.routingRevision
    BY <1>1, <1>8, <1>16 DEF RoutesKnown
  <2>2. r = mailbox.routingRevision => Allowed' = Allowed
    BY <1>5, <1>8 DEF Allowed
  <2> QED
    BY <1>1, <1>5, <1>7, <1>17, <2>1, <2>2 DEF RoutesKnown
<1>19. link.ready = FALSE => Clear(io) /\ ~OnRoute' /\ io.held = <<>> /\ worker.pc # "send"
  BY <1>1, <1>5, <1>7, <1>8 DEF LinkKnown, Blank, OnRoute
<1>20. mailbox'.releasePending = link.ready
  BY <1>1, <1>5 DEF LinkKnown
<1>21. PressKnown'
  <2>1. mailbox'.releasePending = FALSE => Clear(io') /\ ~OnRoute'
    BY <1>7, <1>19, <1>20
  <2>2. worker'.pc = "closed" => Clear(io')
    BY <1>1, <1>7 DEF PressKnown
  <2> QED
    BY <2>1, <2>2 DEF PressKnown
<1>22. PathKnown'
  BY <1>1, <1>2, <1>5, <1>6, <1>7 DEF PathKnown, AheadOf, Ordered, Follows, InHand
<1>23. /\ BaseButtons' = {} /\ BasePlaces' = {0} /\ BaseKeys' = {}
  <2>1. CASE mailbox'.releasePending = TRUE
    BY <2>1 DEF BaseButtons, BasePlaces, BaseKeys, ToRelease
  <2>2. CASE mailbox'.releasePending = FALSE
    <3>1. ~OnRoute' /\ worker'.pc # "send" /\ io'.held = <<>>
      BY <1>7, <1>19, <1>20, <2>2
    <3>2. ~InHand' /\ ~Releasing' /\ ~ToRelease'
      BY <2>2, <3>1 DEF InHand, Releasing, ToRelease
    <3>3. KeyIds(io') = {}
      BY <1>2, <3>1 DEF KeyIds, none
    <3> QED
      BY <3>1, <3>2, <3>3 DEF BaseButtons, BasePlaces, BaseKeys, IoButtons, IoPlaces
  <2> QED
    BY <1>8, <1>20, <2>1, <2>2
<1>24. Accounted'
  <2>1. ButtonsTold(none, {}, {}) /\ PlaceTold(none, {0}, 0) /\ KeysTold(none, {}, {})
    BY QueueEmpty DEF none
  <2>2. (InHand /\ mailbox.releasePending = FALSE)' => FALSE
    BY <1>7, <1>14 DEF InHand
  <2> QED
    BY <1>5, <1>6, <1>23, <2>1, <2>2 DEF Accounted
<1>25. Budgeted'
  <2>1. waking' # 0
    BY <1>4
  <2> QED
    BY <2>1 DEF Budgeted
<1> QED
  BY <1>9, <1>10, <1>11, <1>12, <1>15, <1>18, <1>21, <1>22, <1>24, <1>25 DEF InputInv

\* Input starts again, or may: there is nothing it could be told apart from.
LEMMA HostReroutes ==
  ASSUME InputInv, waking < Hosts, waking' = waking + 1, UNCHANGED <<worker, link, io, wake>>,
         told' = told, ~Allowed, NEW f \in BOOLEAN, NEW v \in BOOLEAN,
         mailbox.routingRevision + 1 \in 1 .. MaxRevision,
         mailbox' = [mailbox EXCEPT !.routingRevision = @ + 1, !.focused = f, !.viewOnly = v]
  PROVE  InputInv'
<1> DEFINE r == mailbox.routingRevision + 1
<1>1. /\ Types /\ IoKnown /\ LinkKnown /\ QueueKnown /\ HandKnown /\ RoutesKnown /\ PressKnown
      /\ PathKnown /\ Accounted /\ Budgeted
  BY DEF InputInv
<1>2. /\ mailbox \in Mailbox /\ told \in Told /\ worker \in Worker /\ io \in IO /\ link \in Link
      /\ waking \in 0 .. Hosts /\ wake \in BOOLEAN /\ Len(io.held) <= HeldKeys
      /\ Len(mailbox.queue) <= Capacity
  BY <1>1 DEF Types
<1>3. mailbox' = [mailbox EXCEPT !.routingRevision = r, !.focused = f, !.viewOnly = v]
  OBVIOUS
<1>4. r \in 1 .. MaxRevision /\ r \in Int /\ mailbox.routingRevision \in Int
      /\ mailbox.routingRevision < r /\ r >= 1
  BY <1>2, MailboxType, Bounds
<1> HIDE DEF r
<1>5. /\ mailbox' \in Mailbox /\ mailbox'.generation = mailbox.generation
      /\ mailbox'.queue = mailbox.queue /\ mailbox'.buttons = mailbox.buttons
      /\ mailbox'.releasePending = mailbox.releasePending
      /\ mailbox'.routingRevision = r /\ mailbox'.focused = f /\ mailbox'.viewOnly = v
      /\ mailbox'.emulateMiddle = mailbox.emulateMiddle /\ mailbox'.connected = mailbox.connected
  BY ONLY <1>2, <1>3, <1>4, f \in BOOLEAN, v \in BOOLEAN DEF Mailbox
<1>6. worker' = worker /\ link' = link /\ io' = io /\ wake' = wake /\ told' = told
  OBVIOUS
<1>7. mailbox.queue = <<>> /\ Untold /\ Len(mailbox.queue) = 0
  <2>1. Len(<<>>) = 0
    OBVIOUS
  <2> QED
    BY <1>1, <2>1 DEF QueueKnown
<1>8. mailbox.releasePending \in BOOLEAN
  BY <1>2, MailboxType
<1>9. InHand => mailbox.releasePending = TRUE /\ worker.revision # r
  <2>1. InHand => worker.revision \in 1 .. mailbox.routingRevision
    BY <1>1 DEF HandKnown, InHand
  <2>2. worker.revision \in 1 .. mailbox.routingRevision => worker.revision # r
    BY <1>4
  <2> QED
    BY <1>1, <1>8, <2>1, <2>2 DEF HandKnown
<1>10. io.server.barrier \in Int /\ io.middleRevision \in Int /\ io.pointerTimer.revision \in Int
  BY <1>2, Bounds DEF IO, Server, Timer
<1>11. ~OnRoute'
  BY <1>1, <1>4, <1>5, <1>6, <1>10 DEF OnRoute, RoutesKnown
<1>12. Types'
  BY <1>2, <1>5, <1>6, Bounds DEF Types
<1>13. IoKnown'
  BY <1>1, <1>6 DEF IoKnown
<1>14. LinkKnown'
  BY <1>1, <1>5, <1>6 DEF LinkKnown, Untold, Blank
<1>15. QueueKnown'
  <2>1. 1 .. Len(mailbox.queue) = {}
    BY <1>7
  <2> QED
    BY <1>5, <1>6, <1>7, <2>1 DEF QueueKnown, Untold
<1>16. InHand' = InHand
  BY <1>6 DEF InHand
<1>17. HandKnown'
  <2>1. worker.pc = "send" => worker.revision \in 1 .. r
    BY <1>1, <1>4 DEF HandKnown
  <2> QED
    BY <1>1, <1>5, <1>6, <1>9, <1>16, <2>1 DEF HandKnown
<1>18. RoutesKnown'
  <2>1. /\ io.server.barrier <= r /\ io.middleRevision <= r /\ io.pointerTimer.revision <= r
        /\ io.pointerTimer.revision # r
    BY <1>1, <1>4, <1>10 DEF RoutesKnown
  <2> QED
    BY <1>1, <1>5, <1>6, <1>11, <2>1 DEF RoutesKnown
<1>19. PressKnown'
  <2>1. Settled' = Settled
    BY <1>6, <1>16 DEF Settled
  <2>2. mailbox.releasePending = FALSE /\ Settled => Clear(io)
    BY <1>1 DEF PressKnown
  <2>3. worker.pc = "closed" => Clear(io)
    BY <1>1 DEF PressKnown
  <2> QED
    BY <1>5, <1>6, <1>11, <2>1, <2>2, <2>3 DEF PressKnown
<1>20. PathKnown'
  BY <1>1, <1>5, <1>6, <1>16 DEF PathKnown
<1>21. Accounted'
  <2> SUFFICES ASSUME worker.pc # "overflow" PROVE Accounted'
    BY <1>6 DEF Accounted
  <2>1. ToRelease' = ToRelease
    BY <1>5, <1>6 DEF ToRelease, Releasing
  <2>2. InHand => ToRelease
    BY <1>9 DEF ToRelease
  <2>3. BaseButtons' = {} /\ 0 \in BasePlaces' /\ BaseKeys' = BaseKeys
    BY <1>6, <1>11, <1>16, <2>1, <2>2 DEF BaseButtons, BasePlaces, BaseKeys, IoButtons, IoPlaces
  <2>4. KeysTold(<<>>, BaseKeys, told.down)
    BY <1>1, <1>7 DEF Accounted
  <2>5. ButtonsTold(<<>>, {}, {}) /\ PlaceTold(<<>>, BasePlaces', 0)
    BY <2>3, QueueEmpty
  <2>6. (InHand /\ mailbox.releasePending = FALSE)' => FALSE
    BY <1>5, <1>9, <1>16
  <2> QED
    BY <1>5, <1>6, <1>7, <2>3, <2>4, <2>5, <2>6 DEF Accounted, Untold
<1>22. Budgeted'
  <2>1. waking' # 0
    BY <1>2
  <2> QED
    BY <2>1 DEF Budgeted
<1> QED
  BY <1>12, <1>13, <1>14, <1>15, <1>17, <1>18, <1>19, <1>20, <1>21, <1>22 DEF InputInv

\* A call that changes nothing, and a signal.
LEMMA HostCalls ==
  ASSUME InputInv, waking' \in 0 .. Hosts, wake' \in BOOLEAN, waking' # 0 \/ wake' = TRUE,
         UNCHANGED <<mailbox, told, worker, link, io>>
  PROVE  InputInv'
<1>1. /\ Types /\ IoKnown /\ LinkKnown /\ QueueKnown /\ HandKnown /\ RoutesKnown /\ PressKnown
      /\ PathKnown /\ Accounted /\ Budgeted
  BY DEF InputInv
<1>2. Types'
  BY <1>1 DEF Types
<1>3. IoKnown' /\ LinkKnown' /\ QueueKnown'
  BY <1>1 DEF IoKnown, LinkKnown, QueueKnown, Untold, Blank, Allowed
<1>4. InHand' = InHand /\ OnRoute' = OnRoute /\ Settled' = Settled /\ Allowed' = Allowed /\ ToRelease' = ToRelease
  BY DEF InHand, OnRoute, Settled, Allowed, ToRelease, Releasing
<1>5. HandKnown' /\ RoutesKnown' /\ PressKnown'
  BY <1>1, <1>4 DEF HandKnown, RoutesKnown, PressKnown
<1>6. PathKnown'
  BY <1>1, <1>4 DEF PathKnown
<1>7. Accounted'
  <2>1. IoButtons' = IoButtons /\ IoPlaces' = IoPlaces
    BY <1>4 DEF IoButtons, IoPlaces
  <2>2. BaseButtons' = BaseButtons /\ BasePlaces' = BasePlaces /\ BaseKeys' = BaseKeys
    BY <1>4, <2>1 DEF BaseButtons, BasePlaces, BaseKeys
  <2> QED
    BY <1>1, <1>4, <2>1, <2>2 DEF Accounted
<1>8. Budgeted'
  BY DEF Budgeted
<1> QED
  BY <1>1, <1>2, <1>3, <1>5, <1>6, <1>7, <1>8 DEF InputInv

\* The host uses input: the queue becomes r, and the host is told t.
LEMMA HostQueues ==
  ASSUME InputInv, waking < Hosts, waking' = waking + 1, UNCHANGED <<worker, link, io, wake>>,
         mailbox.connected = TRUE, Allowed,
         NEW r \in Seq(Command), Len(r) <= Capacity,
         \A i \in 1 .. Len(r) : r[i].route = mailbox.routingRevision,
         NEW b \in Buttons, mailbox' = [mailbox EXCEPT !.queue = r, !.buttons = b],
         NEW t \in Told, told' = t, told.path <= t.path,
         ButtonsTold(mailbox.queue, BaseButtons, mailbox.buttons) => ButtonsTold(r, BaseButtons, b),
         PlaceTold(mailbox.queue, BasePlaces, told.trail) => PlaceTold(r, BasePlaces, t.trail),
         KeysTold(mailbox.queue, BaseKeys, told.down) => KeysTold(r, BaseKeys, t.down),
         Ordered(r, t.path), AheadOf(r, io),
         InHand /\ IsPointer(worker.command) => Follows(r, worker.command.position)
  PROVE  InputInv'
<1>1. /\ Types /\ IoKnown /\ LinkKnown /\ QueueKnown /\ HandKnown /\ RoutesKnown /\ PressKnown
      /\ PathKnown /\ Accounted /\ Budgeted
  BY DEF InputInv
<1>2. /\ mailbox \in Mailbox /\ told \in Told /\ worker \in Worker /\ io \in IO /\ link \in Link
      /\ waking \in 0 .. Hosts /\ wake \in BOOLEAN /\ Len(io.held) <= HeldKeys
  BY <1>1 DEF Types
<1>3. /\ mailbox' \in Mailbox /\ mailbox'.generation = mailbox.generation
      /\ mailbox'.queue = r /\ mailbox'.buttons = b
      /\ mailbox'.releasePending = mailbox.releasePending
      /\ mailbox'.routingRevision = mailbox.routingRevision /\ mailbox'.focused = mailbox.focused
      /\ mailbox'.viewOnly = mailbox.viewOnly
      /\ mailbox'.emulateMiddle = mailbox.emulateMiddle /\ mailbox'.connected = mailbox.connected
  BY <1>2 DEF Mailbox
<1>4. worker' = worker /\ link' = link /\ io' = io /\ wake' = wake /\ told' = t
  OBVIOUS
<1>5. Types'
  BY <1>2, <1>3, <1>4, Bounds DEF Types
<1>6. IoKnown'
  BY <1>1, <1>4 DEF IoKnown
<1>7. link.ready = TRUE /\ worker.pc # "closed"
  BY <1>1 DEF LinkKnown
<1>8. LinkKnown'
  BY <1>1, <1>3, <1>4, <1>7 DEF LinkKnown
<1>9. Allowed' = Allowed /\ InHand' = InHand /\ OnRoute' = OnRoute /\ Settled' = Settled
      /\ ToRelease' = ToRelease
  BY <1>3, <1>4 DEF Allowed, InHand, OnRoute, Settled, ToRelease, Releasing
<1>10. QueueKnown'
  BY <1>3, <1>9 DEF QueueKnown
<1>11. HandKnown' /\ RoutesKnown' /\ PressKnown'
  BY <1>1, <1>3, <1>4, <1>9 DEF HandKnown, RoutesKnown, PressKnown
<1>12. told.path \in Int /\ t.path \in Int /\ Reached(io) \in Int /\ io.middle.lastPosition \in Int
  BY <1>2, ReachedType, Bounds DEF Told, IO, Emulator
<1>13. PathKnown'
  <2>1. Ahead(io, t.path)
    BY <1>1, <1>7, <1>12 DEF PathKnown, Ahead
  <2>2. ASSUME InHand, IsPointer(worker.command)
        PROVE  Ahead(io, worker.command.position) /\ worker.command.position <= t.path
    <3>1. Ahead(io, worker.command.position) /\ worker.command.position <= told.path
      BY <1>1, <1>7, <2>2 DEF PathKnown
    <3>2. worker.command.position \in Int
      BY <1>2, <2>2, Bounds DEF Worker, Command, KeyCommand, PointerCommand, InHand, IsPointer
    <3> QED
      BY <1>12, <3>1, <3>2
  <2> QED
    BY <1>3, <1>4, <1>9, <2>1, <2>2 DEF PathKnown
<1>14. Accounted'
  <2>1. IoButtons' = IoButtons /\ IoPlaces' = IoPlaces
    BY <1>3, <1>4, <1>9 DEF IoButtons, IoPlaces
  <2>2. BaseButtons' = BaseButtons /\ BasePlaces' = BasePlaces /\ BaseKeys' = BaseKeys
    BY <1>4, <1>9, <2>1 DEF BaseButtons, BasePlaces, BaseKeys
  <2> QED
    BY <1>1, <1>3, <1>4, <1>9, <2>1, <2>2 DEF Accounted
<1>15. Budgeted'
  <2>1. waking' # 0
    BY <1>2
  <2> QED
    BY <2>1 DEF Budgeted
<1> QED
  BY <1>5, <1>6, <1>8, <1>10, <1>11, <1>13, <1>14, <1>15 DEF InputInv

\* The routes of a queue with one more entry.
LEMMA RoutesAppended ==
  ASSUME NEW q \in Seq(Command), NEW c \in Command, NEW r, r = Append(q, c), NEW v,
         \A i \in 1 .. Len(q) : q[i].route = v, c.route = v
  PROVE  \A i \in 1 .. Len(r) : r[i].route = v
<1>1. /\ r \in Seq(Command) /\ Len(r) = Len(q) + 1 /\ r[Len(q) + 1] = c
      /\ \A i \in 1 .. Len(q) : r[i] = q[i]
  BY AppendedBefore
<1>2. Len(q) \in Nat
  OBVIOUS
<1>3. \A i \in 1 .. Len(r) : i = Len(q) + 1 \/ i \in 1 .. Len(q)
  BY <1>1, <1>2
<1> QED
  BY <1>1, <1>3

\* ... and its order: a pointer is where the host is.
LEMMA PathAppended ==
  ASSUME NEW q \in Seq(Command), NEW c \in Command, NEW r, r = Append(q, c),
         NEW path \in Places, NEW next \in Places, path <= next, Ordered(q, path),
         IsPointer(c) => c.position = next, NEW s
  PROVE  /\ Ordered(r, next)
         /\ AheadOf(q, s) /\ (IsPointer(c) => Ahead(s, next)) => AheadOf(r, s)
<1> DEFINE m == Len(q) + 1
<1>1. /\ Len(r) = m /\ r[m] = c /\ m \in Nat /\ m >= 1
      /\ \A i \in 1 .. m - 1 : r[i] = q[i]
      /\ \A i \in 1 .. m : i = m \/ i \in 1 .. m - 1
      /\ Len(q) = m - 1
  <2>1. Len(q) \in Nat
    OBVIOUS
  <2> QED
    BY <2>1, AppendedBefore
<1>2. path \in Int /\ next \in Int /\ \A p \in Places : p \in Int
  BY Bounds
<1>3. \A i \in 1 .. Len(q) : IsPointer(q[i]) => q[i].position \in Int
  <2> SUFFICES ASSUME NEW i \in 1 .. Len(q), IsPointer(q[i]) PROVE q[i].position \in Int
    OBVIOUS
  <2>1. q[i] \in Command
    OBVIOUS
  <2> QED
    BY <1>2, <2>1 DEF Command, KeyCommand, PointerCommand, IsPointer
<1> HIDE DEF m
<1>4. \A i \in 1 .. m - 1 : IsPointer(q[i]) => q[i].position \in Int /\ q[i].position <= next
  <2>1. \A i \in 1 .. m - 1 : IsPointer(q[i]) => q[i].position \in Int /\ q[i].position <= path
    BY <1>1, <1>3 DEF Ordered
  <2> QED
    BY <1>2, <2>1
<1>5. Ordered(r, next)
  <2> SUFFICES ASSUME NEW i \in 1 .. m, IsPointer(r[i])
               PROVE  /\ r[i].position <= next
                      /\ \A j \in i + 1 .. m : IsPointer(r[j]) => r[i].position <= r[j].position
    BY <1>1 DEF Ordered
  <2>1. CASE i = m
    <3>1. i + 1 .. m = {}
      BY <1>1, <2>1
    <3> QED
      BY <1>1, <1>2, <2>1, <3>1
  <2>2. CASE i \in 1 .. m - 1
    <3>1. r[i].position <= next
      BY <1>1, <1>4, <2>2
    <3>2. ASSUME NEW j \in i + 1 .. m, IsPointer(r[j]) PROVE r[i].position <= r[j].position
      <4>1. j = m \/ (j \in 1 .. m - 1 /\ j \in i + 1 .. Len(q))
        BY <1>1, <2>2
      <4>2. CASE j = m
        BY <1>1, <3>1, <3>2, <4>2
      <4>3. CASE j \in 1 .. m - 1 /\ j \in i + 1 .. Len(q)
        <5>1. r[i] = q[i] /\ r[j] = q[j] /\ i \in 1 .. Len(q)
          BY <1>1, <2>2, <4>3
        <5> QED
          BY <3>2, <4>3, <5>1 DEF Ordered
      <4> QED
        BY <4>1, <4>2, <4>3
    <3> QED
      BY <3>1, <3>2
  <2> QED
    BY <1>1, <2>1, <2>2
<1>6. AheadOf(q, s) /\ (IsPointer(c) => Ahead(s, next)) => AheadOf(r, s)
  BY <1>1 DEF AheadOf
<1> QED
  BY <1>5, <1>6

\* A command appended at or after a place keeps the queue after it.
LEMMA FollowsAppended ==
  ASSUME NEW q \in Seq(Command), NEW c \in Command, NEW r, r = Append(q, c), NEW p, Follows(q, p),
         IsPointer(c) => p <= c.position
  PROVE  Follows(r, p)
<1>1. /\ r \in Seq(Command) /\ Len(r) = Len(q) + 1 /\ r[Len(q) + 1] = c
      /\ \A i \in 1 .. Len(q) : r[i] = q[i]
  BY AppendedBefore
<1>2. Len(q) \in Nat
  OBVIOUS
<1>3. \A i \in 1 .. Len(r) : i = Len(q) + 1 \/ i \in 1 .. Len(q)
  BY <1>1, <1>2
<1> QED
  BY <1>1, <1>3 DEF Follows

\* A full queue is a release.
LEMMA HostOverflows ==
  ASSUME InputInv, waking < Hosts, waking' = waking + 1, UNCHANGED <<worker, link, io, wake>>,
         MayReroute, mailbox' = Overflowed(mailbox), told' = Forgotten(told)
  PROVE  InputInv'
<1>1. mailbox \in Mailbox
  BY DEF InputInv, Types
<1>2. mailbox.routingRevision + 1 \in 1 .. MaxRevision /\ FALSE \in BOOLEAN
  BY <1>1, MailboxType, Bounds DEF MayReroute
<1>3. /\ mailbox.viewOnly \in BOOLEAN /\ mailbox.emulateMiddle \in BOOLEAN
  BY <1>1, MailboxType
<1>4. mailbox' = [mailbox EXCEPT !.queue = <<>>, !.buttons = {}, !.releasePending = mailbox.connected,
                                 !.routingRevision = mailbox.routingRevision + 1, !.focused = FALSE,
                                 !.viewOnly = mailbox.viewOnly, !.emulateMiddle = mailbox.emulateMiddle]
  BY <1>1 DEF Overflowed, Released, Rerouted, Mailbox
<1> QED
  BY <1>2, <1>3, <1>4, HostReleases

\* key()
LEMMA KeyStep ==
  ASSUME InputInv, NEW g \in 1 .. MaxGeneration, NEW key \in Keys, NEW symbol \in Symbols,
         NEW down \in BOOLEAN, Key(g, key, symbol, down)
  PROVE  InputInv'
<1> DEFINE c == [kind |-> "Key", keyId |-> key, symbol |-> symbol, down |-> down,
                 route |-> mailbox.routingRevision, attempt |-> g, at |-> told.trail]
           t == [told EXCEPT !.down = IF down THEN @ \cup {key} ELSE @ \ {key}]
           q == mailbox.queue
           r == Append(q, c)
<1>1. /\ waking < Hosts /\ waking' = waking + 1 /\ UNCHANGED <<worker, link, io, wake>>
      /\ Check(g) /\ Push(c, t)
  BY DEF Key, Calls
<1>2. /\ mailbox \in Mailbox /\ told \in Told /\ Len(q) <= Capacity
  BY DEF InputInv, Types
<1>3. mailbox.connected = TRUE /\ Allowed
  BY <1>1, <1>2, MailboxType DEF Check, Allowed
<1>4. mailbox.routingRevision \in Routes /\ g \in Nat /\ told.trail \in Places
  BY <1>2, MailboxType, Bounds DEF Told, Routes
<1>5. /\ c \in Command /\ c.kind = "Key" /\ ~IsPointer(c) /\ c.route = mailbox.routingRevision
      /\ c.at = told.trail /\ c.keyId = key /\ c.down = down
  BY <1>4 DEF Command, KeyCommand, IsPointer
<1>6. t \in Told /\ t.path = told.path /\ t.trail = told.trail /\ t.down = KeysAfter(told.down, c)
      /\ told.path \in Places
  BY <1>2, <1>5 DEF Told, KeysAfter
<1>7. q \in Seq(Command) /\ mailbox.buttons \in Buttons /\ Len(q) \in Nat
  BY <1>2, MailboxType
<1>8. Push(c, t) <=>
        IF Len(q) = Capacity
        THEN MayReroute /\ mailbox' = Overflowed(mailbox) /\ told' = Forgotten(told)
        ELSE mailbox' = [mailbox EXCEPT !.queue = r, !.buttons = mailbox.buttons] /\ told' = t
  BY <1>2, <1>5 DEF Push, Mailbox, IsPointer
<1> HIDE DEF c, t, q
<1>9. CASE Len(q) = Capacity
  BY <1>1, <1>8, <1>9, HostOverflows
<1>10. CASE Len(q) # Capacity
  <2>1. /\ mailbox' = [mailbox EXCEPT !.queue = r, !.buttons = mailbox.buttons] /\ told' = t
    BY <1>1, <1>8, <1>10
  <2>2. r \in Seq(Command) /\ Len(r) <= Capacity
    BY <1>2, <1>5, <1>7, <1>10, Bounds
  <2>3. \A i \in 1 .. Len(r) : r[i].route = mailbox.routingRevision
    <3>1. \A i \in 1 .. Len(q) : q[i].route = mailbox.routingRevision
      BY DEF InputInv, QueueKnown, q
    <3> QED
      BY <1>5, <1>7, <3>1, RoutesAppended
  <2>4. worker.pc # "closed"
    BY <1>3 DEF InputInv, LinkKnown
  <2>5. /\ Ordered(q, told.path) /\ AheadOf(q, io)
        /\ InHand /\ IsPointer(worker.command) => Follows(q, worker.command.position)
    BY <2>4 DEF InputInv, PathKnown, q
  <2>6. told.path <= t.path
    BY <1>6, Bounds
  <2>7. /\ Ordered(r, t.path) /\ AheadOf(r, io)
        /\ InHand /\ IsPointer(worker.command) => Follows(r, worker.command.position)
    <3>1. Ordered(r, t.path) /\ AheadOf(r, io)
      BY <1>5, <1>6, <1>7, <2>5, <2>6, PathAppended
    <3>2. Follows(q, worker.command.position) => Follows(r, worker.command.position)
      <4> SUFFICES ASSUME Follows(q, worker.command.position)
                   PROVE  Follows(r, worker.command.position)
        OBVIOUS
      <4> DEFINE p == worker.command.position
      <4>1. IsPointer(c) => p <= c.position
        BY <1>5
      <4>2. Follows(q, p) /\ c \in Command /\ q \in Seq(Command) /\ r = Append(q, c)
        BY <1>5, <1>7
      <4> HIDE DEF p, r
      <4>3. Follows(r, p)
        BY ONLY <4>1, <4>2, FollowsAppended
      <4> QED
        BY <4>3 DEF p
    <3> QED
      BY <2>5, <3>1, <3>2
  <2>8. ButtonsTold(q, BaseButtons, mailbox.buttons) => ButtonsTold(r, BaseButtons, mailbox.buttons)
    BY <1>5, <1>7, ButtonsAppended
  <2>9. PlaceTold(q, BasePlaces, told.trail) => PlaceTold(r, BasePlaces, t.trail)
    <3>1. PlaceTold(q, BasePlaces, told.trail) => KeyFits(q, BasePlaces)
      BY DEF PlaceTold
    <3> QED
      BY <1>5, <1>6, <1>7, <3>1, PlaceAppended
  <2>10. KeysTold(q, BaseKeys, told.down) => KeysTold(r, BaseKeys, t.down)
    BY <1>5, <1>6, <1>7, KeysAppended
  <2> HIDE DEF r
  <2>11. q = mailbox.queue
    BY DEF q
  <2> QED
    BY <1>1, <1>3, <1>6, <1>7, <2>1, <2>2, <2>3, <2>6, <2>7, <2>8, <2>9, <2>10, <2>11, HostQueues
<1> QED
  BY <1>9, <1>10

\* pointer(), coalesced with the last command or not.
LEMMA PointerStep ==
  ASSUME InputInv, NEW g \in 1 .. MaxGeneration, NEW position \in Positions, NEW buttons \in Masks,
         Pointer(g, position, buttons)
  PROVE  InputInv'
<1> DEFINE transition == buttons # mailbox.buttons
           made == IF transition THEN position ELSE told.made
           c == [kind |-> "Pointer", position |-> position, buttons |-> buttons,
                 transition |-> transition, route |-> mailbox.routingRevision,
                 attempt |-> g, at |-> made]
           t == [told EXCEPT !.path = position, !.trail = position, !.made = made]
           q == mailbox.queue
           r == Append(q, c)
           s == Append(Front(q), c)
<1>1. /\ waking < Hosts /\ waking' = waking + 1 /\ UNCHANGED <<worker, link, io, wake>>
      /\ Check(g) /\ position \in {told.path, told.path + 1}
      /\ IF Coalesces(transition)
         THEN /\ mailbox' = [mailbox EXCEPT !.queue = s]
              /\ told' = t
         ELSE Push(c, t)
  BY DEF Pointer, Calls
<1>2. /\ mailbox \in Mailbox /\ told \in Told /\ Len(q) <= Capacity /\ worker \in Worker
  BY DEF InputInv, Types
<1>3. mailbox.connected = TRUE /\ Allowed
  BY <1>1, <1>2, MailboxType DEF Check, Allowed
<1>4. mailbox.routingRevision \in Routes /\ g \in Nat /\ told.made \in Places /\ told.path \in Places
      /\ position \in Places /\ buttons \in Buttons
  <2>1. told.made \in Places /\ told.path \in Places
    BY <1>2 DEF Told
  <2>2. position \in Places
    BY Bounds DEF Positions, Places
  <2>3. buttons \in Buttons
    BY InputBounds DEF Buttons
  <2> QED
    BY <1>2, <2>1, <2>2, <2>3, MailboxType, Bounds DEF Routes
<1>5. /\ c \in Command /\ c.kind = "Pointer" /\ IsPointer(c) /\ c.route = mailbox.routingRevision
      /\ c.position = position /\ c.buttons = buttons /\ c.transition \in BOOLEAN
      /\ c.transition = TRUE <=> buttons # mailbox.buttons
      /\ c.transition = TRUE => c.at = position
  BY <1>4 DEF Command, PointerCommand, IsPointer
<1>22. made \in Places
  BY <1>4
<1> HIDE DEF made
<1>23. told.path <= position
  BY <1>1, <1>4, Bounds
<1>6. t \in Told /\ t.path = position /\ t.trail = position /\ t.down = told.down /\ told.path <= position
  BY <1>2, <1>4, <1>22, <1>23 DEF Told
<1>7. q \in Seq(Command) /\ mailbox.buttons \in Buttons /\ Len(q) \in Nat
  BY <1>2, MailboxType
<1>8. Push(c, t) <=>
        IF Len(q) = Capacity
        THEN MayReroute /\ mailbox' = Overflowed(mailbox) /\ told' = Forgotten(told)
        ELSE mailbox' = [mailbox EXCEPT !.queue = r, !.buttons = buttons] /\ told' = t
  BY <1>2, <1>5 DEF Push, Mailbox
<1>9. [mailbox EXCEPT !.queue = s] = [mailbox EXCEPT !.queue = s, !.buttons = mailbox.buttons]
  BY <1>2 DEF Mailbox
<1>10. Coalesces(transition) =>
         /\ q # <<>> /\ IsPointer(q[Len(q)]) /\ q[Len(q)].transition = FALSE
         /\ buttons = mailbox.buttons
  <2> SUFFICES ASSUME Coalesces(transition)
               PROVE  /\ q # <<>> /\ IsPointer(q[Len(q)]) /\ q[Len(q)].transition = FALSE
                      /\ buttons = mailbox.buttons
    OBVIOUS
  <2>1. /\ q # <<>> /\ q[Len(q)].kind = "Pointer" /\ ~q[Len(q)].transition
        /\ buttons = mailbox.buttons
    BY DEF Coalesces, Last
  <2>2. Len(q) \in 1 .. Len(q)
    BY <1>7, <2>1
  <2>3. q[Len(q)] \in Command
    BY <1>7, <2>2
  <2>4. q[Len(q)].transition \in BOOLEAN
    BY <2>1, <2>3 DEF Command, KeyCommand, PointerCommand
  <2> QED
    BY <2>1, <2>4 DEF IsPointer
<1> HIDE DEF c, t, q, transition
<1>11. \A i \in 1 .. Len(q) : q[i].route = mailbox.routingRevision
  BY DEF InputInv, QueueKnown, q
<1>12. worker.pc # "closed"
  BY <1>3 DEF InputInv, LinkKnown
<1>13. /\ Ordered(q, told.path) /\ AheadOf(q, io) /\ Ahead(io, told.path)
       /\ InHand /\ IsPointer(worker.command) =>
            Follows(q, worker.command.position) /\ worker.command.position <= told.path
  BY <1>12 DEF InputInv, PathKnown, q
<1>14. told.path \in Int /\ position \in Int
  BY <1>4, Bounds
<1>15. Ahead(io, position)
  <2>1. Reached(io) \in Int /\ io.middle.lastPosition \in Int
    BY ReachedType, Bounds DEF InputInv, Types, IO, Emulator
  <2> QED
    BY <1>6, <1>13, <1>14, <2>1 DEF Ahead
<1>16. InHand /\ IsPointer(worker.command) => worker.command.position <= position
  <2>1. InHand /\ IsPointer(worker.command) => worker.command.position \in Int
    BY <1>2, Bounds DEF Worker, Command, KeyCommand, PointerCommand, InHand, IsPointer
  <2> QED
    BY <1>6, <1>13, <1>14, <2>1
<1>17. q = mailbox.queue
  BY DEF q
<1>18. PlaceTold(q, BasePlaces, told.trail) => KeyFits(q, BasePlaces)
  BY DEF PlaceTold
<1>19. CASE ~Coalesces(transition) /\ Len(q) = Capacity
  BY <1>1, <1>8, <1>19, HostOverflows
<1>20. CASE ~Coalesces(transition) /\ Len(q) # Capacity
  <2>1. /\ mailbox' = [mailbox EXCEPT !.queue = r, !.buttons = buttons] /\ told' = t
    BY <1>1, <1>8, <1>20
  <2>2. r \in Seq(Command) /\ Len(r) <= Capacity
    BY <1>2, <1>5, <1>7, <1>20, Bounds
  <2>3. \A i \in 1 .. Len(r) : r[i].route = mailbox.routingRevision
    BY <1>5, <1>7, <1>11, RoutesAppended
  <2>4. /\ Ordered(r, position) /\ AheadOf(r, io)
        /\ InHand /\ IsPointer(worker.command) => Follows(r, worker.command.position)
    <3>1. /\ Ordered(r, position)
          /\ AheadOf(q, io) /\ (IsPointer(c) => Ahead(io, position)) => AheadOf(r, io)
      BY <1>4, <1>5, <1>6, <1>7, <1>13, PathAppended
    <3>2. Follows(q, worker.command.position) /\ worker.command.position <= position
            => Follows(r, worker.command.position)
      BY <1>5, <1>7, FollowsAppended
    <3> QED
      BY <1>13, <1>15, <1>16, <3>1, <3>2
  <2>5. ButtonsTold(q, BaseButtons, mailbox.buttons) => ButtonsTold(r, BaseButtons, buttons)
    BY <1>5, <1>7, ButtonsAppended
  <2>6. PlaceTold(q, BasePlaces, told.trail) => PlaceTold(r, BasePlaces, t.trail)
    BY <1>5, <1>6, <1>7, <1>18, PlaceAppended
  <2>7. KeysTold(q, BaseKeys, told.down) => KeysTold(r, BaseKeys, t.down)
    BY <1>5, <1>6, <1>7, KeysAppended
  <2> HIDE DEF r
  <2> QED
    BY <1>1, <1>3, <1>4, <1>6, <1>17, <2>1, <2>2, <2>3, <2>4, <2>5, <2>6, <2>7, HostQueues
<1>21. CASE Coalesces(transition)
  <2> DEFINE h == Front(q)
  <2>1. /\ mailbox' = [mailbox EXCEPT !.queue = s, !.buttons = mailbox.buttons] /\ told' = t
        /\ buttons = mailbox.buttons
    BY <1>1, <1>9, <1>10, <1>21
  <2>2. /\ h \in Seq(Command) /\ Len(h) = Len(q) - 1 /\ \A i \in 1 .. Len(h) : h[i] = q[i]
    BY <1>7, <1>10, <1>21, FrontOf
  <2>3. \A bb, b, bp, bk, down :
          /\ ButtonsTold(q, bb, b) => ButtonsTold(h, bb, b)
          /\ KeyFits(q, bp) => KeyFits(h, bp)
          /\ KeysTold(q, bk, down) => KeysTold(h, bk, down)
    BY <1>7, <1>10, <1>21, FrontFits
  <2>4. Ordered(h, told.path)
    BY <1>7, <1>10, <1>13, <1>21, FrontFits
  <2>5. /\ \A i \in 1 .. Len(h) : h[i].route = mailbox.routingRevision
        /\ AheadOf(h, io)
        /\ InHand /\ IsPointer(worker.command) => Follows(h, worker.command.position)
    <3>1. \A i \in 1 .. Len(h) : i \in 1 .. Len(q) /\ h[i] = q[i]
      BY <1>7, <2>2
    <3> QED
      BY <1>11, <1>13, <3>1 DEF AheadOf, Follows
  <2> HIDE DEF h
  <2>6. s = Append(h, c)
    BY DEF h
  <2> HIDE DEF s
  <2>7. s \in Seq(Command) /\ Len(s) <= Capacity
    BY <1>2, <1>5, <1>7, <2>2, <2>6
  <2>8. \A i \in 1 .. Len(s) : s[i].route = mailbox.routingRevision
    BY <1>5, <2>2, <2>5, <2>6, RoutesAppended
  <2>9. /\ Ordered(s, position) /\ AheadOf(s, io)
        /\ InHand /\ IsPointer(worker.command) => Follows(s, worker.command.position)
    <3>1. /\ Ordered(s, position)
          /\ AheadOf(h, io) /\ (IsPointer(c) => Ahead(io, position)) => AheadOf(s, io)
      BY <1>4, <1>5, <1>6, <2>2, <2>4, <2>6, PathAppended
    <3>2. Follows(h, worker.command.position) /\ worker.command.position <= position
            => Follows(s, worker.command.position)
      BY <1>5, <2>2, <2>6, FollowsAppended
    <3> QED
      BY <1>15, <1>16, <2>5, <3>1, <3>2
  <2>10. ButtonsTold(q, BaseButtons, mailbox.buttons) => ButtonsTold(s, BaseButtons, mailbox.buttons)
    BY <1>5, <2>1, <2>2, <2>3, <2>6, ButtonsAppended
  <2>11. PlaceTold(q, BasePlaces, told.trail) => PlaceTold(s, BasePlaces, t.trail)
    BY <1>5, <1>6, <1>18, <2>2, <2>3, <2>6, PlaceAppended
  <2>12. KeysTold(q, BaseKeys, told.down) => KeysTold(s, BaseKeys, t.down)
    BY <1>5, <1>6, <2>2, <2>3, <2>6, KeysAppended
  <2> QED
    BY <1>1, <1>3, <1>6, <1>7, <1>17, <2>1, <2>7, <2>8, <2>9, <2>10, <2>11, <2>12, HostQueues
<1> QED
  BY <1>19, <1>20, <1>21

\* A change of focus or policy, in each of its forms.
LEMMA RerouteStep ==
  ASSUME InputInv, waking < Hosts, waking' = waking + 1, UNCHANGED <<worker, link, io, wake>>,
         NEW f \in BOOLEAN, NEW v \in BOOLEAN, NEW e \in BOOLEAN, NEW changed \in BOOLEAN,
         NEW release \in BOOLEAN,
         Reroute([mailbox EXCEPT !.focused = f, !.viewOnly = v, !.emulateMiddle = e], changed, release),
         changed = FALSE => f = mailbox.focused /\ v = mailbox.viewOnly /\ e = mailbox.emulateMiddle,
         release = FALSE => e = mailbox.emulateMiddle,
         changed = FALSE /\ release = TRUE => ~Allowed,
         changed = TRUE /\ release = FALSE => ~Allowed
  PROVE  InputInv'
<1>1. mailbox \in Mailbox
  BY DEF InputInv, Types
<1>2. /\ mailbox.routingRevision \in 1 .. MaxRevision
      /\ mailbox.routingRevision < MaxRevision => mailbox.routingRevision + 1 \in 1 .. MaxRevision
  BY <1>1, MailboxType, Bounds
<1>3. CASE release = TRUE /\ changed = TRUE
  <2>1. /\ mailbox.routingRevision + 1 \in 1 .. MaxRevision /\ told' = Forgotten(told)
        /\ mailbox' = [mailbox EXCEPT !.queue = <<>>, !.buttons = {}, !.releasePending = mailbox.connected,
                                      !.routingRevision = mailbox.routingRevision + 1,
                                      !.focused = f, !.viewOnly = v, !.emulateMiddle = e]
    BY <1>1, <1>2, <1>3 DEF Reroute, Released, Rerouted, MayReroute, Mailbox
  <2> QED
    BY <2>1, HostReleases
<1>4. CASE release = TRUE /\ changed = FALSE
  <2>1. /\ told' = Forgotten(told)
        /\ mailbox' = [mailbox EXCEPT !.queue = <<>>, !.buttons = {}, !.releasePending = mailbox.connected,
                                      !.routingRevision = mailbox.routingRevision,
                                      !.focused = f, !.viewOnly = v, !.emulateMiddle = e]
    BY <1>1, <1>4 DEF Reroute, Released, Mailbox
  <2> QED
    BY <1>2, <1>4, <2>1, HostReleases
<1>5. CASE release = FALSE /\ changed = TRUE
  <2>1. /\ mailbox.routingRevision + 1 \in 1 .. MaxRevision /\ told' = told
        /\ mailbox' = [mailbox EXCEPT !.routingRevision = @ + 1, !.focused = f, !.viewOnly = v]
    BY <1>1, <1>2, <1>5 DEF Reroute, Rerouted, MayReroute, Mailbox
  <2> QED
    BY <1>5, <2>1, HostReroutes
<1>6. CASE release = FALSE /\ changed = FALSE
  <2>1. mailbox' = mailbox /\ told' = told
    BY <1>1, <1>6 DEF Reroute, Mailbox
  <2>2. waking' \in 0 .. Hosts /\ waking' # 0 /\ wake' \in BOOLEAN
    BY Bounds DEF InputInv, Types
  <2> QED
    BY <2>1, <2>2, HostCalls
<1> QED
  BY <1>3, <1>4, <1>5, <1>6

\* setFocused()
LEMMA SetFocusedStep ==
  ASSUME InputInv, NEW g, NEW focused \in BOOLEAN, SetFocused(g, focused)
  PROVE  InputInv'
<1>1. /\ waking < Hosts /\ waking' = waking + 1 /\ UNCHANGED <<worker, link, io, wake>>
      /\ Reroute([mailbox EXCEPT !.focused = focused], mailbox.focused # focused, ~focused)
  BY DEF SetFocused, Calls
<1>2. mailbox \in Mailbox
  BY DEF InputInv, Types
<1>3. mailbox.viewOnly \in BOOLEAN /\ mailbox.emulateMiddle \in BOOLEAN /\ mailbox.focused \in BOOLEAN
  BY <1>2, MailboxType
<1>4. [mailbox EXCEPT !.focused = focused]
        = [mailbox EXCEPT !.focused = focused, !.viewOnly = mailbox.viewOnly,
                          !.emulateMiddle = mailbox.emulateMiddle]
  BY <1>2 DEF Mailbox
<1> DEFINE changed == mailbox.focused # focused
           release == ~focused
<1>5. /\ changed \in BOOLEAN /\ release \in BOOLEAN
      /\ changed = FALSE => focused = mailbox.focused
      /\ changed = FALSE /\ release = TRUE => ~Allowed
      /\ changed = TRUE /\ release = FALSE => ~Allowed
  BY <1>3 DEF Allowed
<1>6. Reroute([mailbox EXCEPT !.focused = focused, !.viewOnly = mailbox.viewOnly,
                              !.emulateMiddle = mailbox.emulateMiddle], changed, release)
  BY <1>1, <1>4
<1> HIDE DEF changed, release
<1> QED
  BY <1>1, <1>3, <1>5, <1>6, RerouteStep

\* setPolicy()
LEMMA SetPolicyStep ==
  ASSUME InputInv, NEW viewOnly \in BOOLEAN, NEW emulate \in BOOLEAN, SetPolicy(viewOnly, emulate)
  PROVE  InputInv'
<1> DEFINE changed == mailbox.viewOnly # viewOnly \/ mailbox.emulateMiddle # emulate
           release == viewOnly \/ mailbox.emulateMiddle # emulate
<1>1. /\ waking < Hosts /\ waking' = waking + 1 /\ UNCHANGED <<worker, link, io, wake>>
      /\ Reroute([mailbox EXCEPT !.viewOnly = viewOnly, !.emulateMiddle = emulate], changed, release)
  BY DEF SetPolicy, Calls
<1>2. mailbox \in Mailbox
  BY DEF InputInv, Types
<1>3. mailbox.viewOnly \in BOOLEAN /\ mailbox.emulateMiddle \in BOOLEAN /\ mailbox.focused \in BOOLEAN
  BY <1>2, MailboxType
<1>4. [mailbox EXCEPT !.viewOnly = viewOnly, !.emulateMiddle = emulate]
        = [mailbox EXCEPT !.focused = mailbox.focused, !.viewOnly = viewOnly, !.emulateMiddle = emulate]
  BY <1>2 DEF Mailbox
<1>5. /\ changed \in BOOLEAN /\ release \in BOOLEAN
      /\ changed = FALSE => viewOnly = mailbox.viewOnly /\ emulate = mailbox.emulateMiddle
      /\ release = FALSE => emulate = mailbox.emulateMiddle
      /\ changed = FALSE /\ release = TRUE => ~Allowed
      /\ changed = TRUE /\ release = FALSE => ~Allowed
  BY <1>3 DEF Allowed
<1>6. Reroute([mailbox EXCEPT !.focused = mailbox.focused, !.viewOnly = viewOnly,
                              !.emulateMiddle = emulate], changed, release)
  BY <1>1, <1>4
<1> HIDE DEF changed, release
<1> QED
  BY <1>1, <1>3, <1>5, <1>6, RerouteStep

\* releaseAll()
LEMMA ReleaseAllStep ==
  ASSUME InputInv, NEW g, ReleaseAll(g)
  PROVE  InputInv'
<1>1. /\ waking < Hosts /\ waking' = waking + 1 /\ UNCHANGED <<worker, link, io, wake>>
      /\ Reroute(mailbox, TRUE, TRUE)
  BY DEF ReleaseAll, Calls
<1>2. mailbox \in Mailbox
  BY DEF InputInv, Types
<1>3. mailbox.viewOnly \in BOOLEAN /\ mailbox.emulateMiddle \in BOOLEAN /\ mailbox.focused \in BOOLEAN
  BY <1>2, MailboxType
<1>4. mailbox = [mailbox EXCEPT !.focused = mailbox.focused, !.viewOnly = mailbox.viewOnly,
                                !.emulateMiddle = mailbox.emulateMiddle]
  BY <1>2 DEF Mailbox
<1>5. Reroute([mailbox EXCEPT !.focused = mailbox.focused, !.viewOnly = mailbox.viewOnly,
                              !.emulateMiddle = mailbox.emulateMiddle], TRUE, TRUE)
  BY <1>1, <1>4
<1> QED
  BY <1>1, <1>3, <1>5, RerouteStep

\* wake()
LEMMA WakeStep ==
  ASSUME InputInv, Wake
  PROVE  InputInv'
<1>1. waking' \in 0 .. Hosts /\ wake' = TRUE /\ UNCHANGED <<mailbox, told, worker, link, io>>
  BY Bounds DEF Wake, InputInv, Types
<1> QED
  BY <1>1, HostCalls

\* Every step of a host.
LEMMA HostInput ==
  ASSUME InputInv, HostStep
  PROVE  InputInv'
<1>1. CASE Wake
  BY <1>1, WakeStep
<1>2. ASSUME NEW g \in 1 .. MaxGeneration, NEW key \in Keys, NEW symbol \in Symbols,
             NEW down \in BOOLEAN, Key(g, key, symbol, down)
      PROVE  InputInv'
  BY <1>2, KeyStep
<1>3. ASSUME NEW g \in 1 .. MaxGeneration, NEW position \in Positions, NEW buttons \in Masks,
             Pointer(g, position, buttons)
      PROVE  InputInv'
  BY <1>3, PointerStep
<1>4. ASSUME NEW g \in 1 .. MaxGeneration, NEW focused \in BOOLEAN, SetFocused(g, focused)
      PROVE  InputInv'
  BY <1>4, SetFocusedStep
<1>5. ASSUME NEW g \in 1 .. MaxGeneration, ReleaseAll(g) PROVE InputInv'
  BY <1>5, ReleaseAllStep
<1>6. ASSUME NEW viewOnly \in BOOLEAN, NEW emulate \in {FALSE, MayEmulate}, SetPolicy(viewOnly, emulate)
      PROVE  InputInv'
  <2>1. emulate \in BOOLEAN
    BY InputBounds
  <2> QED
    BY <1>6, <2>1, SetPolicyStep
<1> QED
  BY <1>1, <1>2, <1>3, <1>4, <1>5, <1>6 DEF HostStep

----------------------------------------------------------------------------
(* Steps of the worker *)

\* Between rounds: only the place of the worker changes.
LEMMA WorkerMoves ==
  ASSUME InputInv, {worker.pc, worker'.pc} \subseteq {"drain", "work", "asleep"}, worker' \in Worker,
         UNCHANGED <<mailbox, told, link, io>>, waking' = waking, wake' \in BOOLEAN, Budgeted'
  PROVE  InputInv'
<1>1. /\ Types /\ IoKnown /\ LinkKnown /\ QueueKnown /\ HandKnown /\ RoutesKnown /\ PressKnown
      /\ PathKnown /\ Accounted
  BY DEF InputInv
<1>2. /\ worker.pc \in {"drain", "work", "asleep"} /\ worker'.pc \in {"drain", "work", "asleep"}
      /\ mailbox' = mailbox /\ told' = told /\ link' = link /\ io' = io
  OBVIOUS
<1>3. Types'
  BY <1>1 DEF Types
<1>4. IoKnown' /\ LinkKnown' /\ QueueKnown'
  BY <1>1, <1>2 DEF IoKnown, LinkKnown, QueueKnown, Untold, Blank, Allowed
<1>5. /\ ~InHand /\ ~InHand' /\ OnRoute' = OnRoute /\ Settled /\ Settled' /\ Allowed' = Allowed
      /\ ~Releasing /\ ~Releasing' /\ ToRelease' = ToRelease
  BY <1>2 DEF InHand, OnRoute, Settled, Allowed, ToRelease, Releasing
<1>6. HandKnown' /\ RoutesKnown' /\ PressKnown'
  BY <1>1, <1>2, <1>5 DEF HandKnown, RoutesKnown, PressKnown
<1>7. PathKnown'
  BY <1>1, <1>2, <1>5 DEF PathKnown
<1>8. Accounted'
  <2>1. IoButtons' = IoButtons /\ IoPlaces' = IoPlaces
    BY <1>2, <1>5 DEF IoButtons, IoPlaces
  <2>2. BaseButtons' = BaseButtons /\ BasePlaces' = BasePlaces /\ BaseKeys' = BaseKeys
    BY <1>2, <1>5, <2>1 DEF BaseButtons, BasePlaces, BaseKeys
  <2> QED
    BY <1>1, <1>2, <1>5, <2>1, <2>2 DEF Accounted
<1> QED
  BY <1>3, <1>4, <1>6, <1>7, <1>8 DEF InputInv

\* What the worker has left to take, in terms of the queue and the release.
LEMMA OwedType ==
  ASSUME mailbox \in Mailbox
  PROVE  Owed \in Nat /\ Len(mailbox.queue) \in Nat /\ Owed <= Len(mailbox.queue) + 1
         /\ Owed >= Len(mailbox.queue) /\ (mailbox.releasePending = TRUE => Owed = Len(mailbox.queue) + 1)
         /\ (Owed = 0 => mailbox.queue = <<>> /\ mailbox.releasePending = FALSE)
<1>1. mailbox.queue \in Seq(Command) /\ mailbox.releasePending \in BOOLEAN
  BY MailboxType
<1>2. Len(mailbox.queue) \in Nat /\ (Len(mailbox.queue) = 0 => mailbox.queue = <<>>)
  BY <1>1
<1> DEFINE n == Len(mailbox.queue)
           o == Owed
<1>3. n \in Nat
  BY <1>2
<1>4. CASE mailbox.releasePending = TRUE
  <2>1. o = n + 1
    BY <1>4 DEF Owed
  <2> HIDE DEF n, o
  <2>2. o \in Nat /\ o <= n + 1 /\ o >= n /\ o # 0
    BY ONLY <1>3, <2>1
  <2> QED
    BY <1>3, <1>4, <2>1, <2>2 DEF n, o
<1>5. CASE mailbox.releasePending = FALSE
  <2>1. o = n + 0
    BY <1>5 DEF Owed
  <2> HIDE DEF n, o
  <2>2. o \in Nat /\ o <= n + 1 /\ o >= n /\ (o = 0 => n = 0)
    BY ONLY <1>3, <2>1
  <2> QED
    BY <1>2, <1>3, <1>5, <2>2 DEF n, o
<1> QED
  BY <1>1, <1>4, <1>5

\* The end of a round: all is taken, or the round was as long as what was there.
LEMMA DrainedStep ==
  ASSUME InputInv, Drained
  PROVE  InputInv'
<1>1. /\ worker.pc = "drain" /\ worker' = [worker EXCEPT !.pc = "work"]
      /\ UNCHANGED <<mailbox, told, link, io, waking, wake>>
      /\ \/ ~link.ready \/ ~mailbox.connected \/ worker.count > RoundLimit
         \/ ~mailbox.releasePending /\ mailbox.queue = <<>>
  BY DEF Drained
<1>2. worker \in Worker /\ mailbox \in Mailbox /\ link \in Link /\ wake \in BOOLEAN
  BY DEF InputInv, Types
<1>3. worker' \in Worker /\ worker'.pc = "work"
  BY <1>1, <1>2 DEF Worker
<1>4. mailbox.releasePending \in BOOLEAN /\ mailbox.connected \in BOOLEAN /\ link.ready \in BOOLEAN
      /\ worker.count \in Int /\ mailbox.connected = link.ready
  BY <1>2, MailboxType, Bounds DEF Link, Worker, InputInv, LinkKnown
<1>5. ASSUME link.ready = TRUE, waking = 0, wake = FALSE
      PROVE  mailbox.queue = <<>> /\ mailbox.releasePending = FALSE
  <2>1. worker.count + Owed <= Capacity + 1
    BY <1>1, <1>5 DEF InputInv, Budgeted
  <2>2. CASE worker.count > RoundLimit
    <3>1. Owed \in Nat /\ Capacity \in Int /\ worker.count \in Int /\ worker.count > Capacity
      BY <1>2, <1>4, <2>2, Bounds, OwedType DEF RoundLimit
    <3>2. Owed = 0
      BY ONLY <2>1, <3>1
    <3> QED
      BY <1>2, <3>2, OwedType
  <2>3. CASE ~mailbox.releasePending /\ mailbox.queue = <<>>
    BY <1>4, <2>3
  <2> QED
    BY <1>1, <1>4, <1>5, <2>2, <2>3
<1>6. Budgeted'
  BY <1>1, <1>3, <1>5 DEF Budgeted
<1> QED
  BY <1>1, <1>2, <1>3, <1>6, WorkerMoves

\* The worker goes to sleep with nothing owed, or with a signal to come.
LEMMA SleepStep ==
  ASSUME InputInv, Sleep
  PROVE  InputInv'
<1>1. /\ worker.pc = "work" /\ worker' = [worker EXCEPT !.pc = "asleep"]
      /\ UNCHANGED <<mailbox, told, link, io, waking, wake>>
  BY DEF Sleep
<1>2. worker \in Worker /\ wake \in BOOLEAN
  BY DEF InputInv, Types
<1>3. worker' \in Worker /\ worker'.pc = "asleep"
  BY <1>1, <1>2 DEF Worker
<1>4. Budgeted'
  BY <1>1, <1>3 DEF Budgeted, InputInv, Blank
<1> QED
  BY <1>1, <1>2, <1>3, <1>4, WorkerMoves

\* A new round: a full queue and a release fit in it.
LEMMA WaitReturnsStep ==
  ASSUME InputInv, WaitReturns
  PROVE  InputInv'
<1>1. /\ worker.pc = "asleep" /\ worker' = [worker EXCEPT !.pc = "drain", !.count = 0] /\ wake' = FALSE
      /\ UNCHANGED <<mailbox, told, link, io, waking>>
  BY DEF WaitReturns
<1>2. worker \in Worker /\ mailbox \in Mailbox /\ Len(mailbox.queue) <= Capacity
  BY DEF InputInv, Types
<1>3. worker' \in Worker /\ worker'.pc = "drain" /\ worker'.count = 0
  <2>1. 0 \in 0 .. Capacity + 1
    BY Bounds
  <2> QED
    BY <1>1, <1>2, <2>1 DEF Worker
<1>4. Owed' = Owed /\ Owed <= Capacity + 1
  <2>1. Owed' = Owed
    BY <1>1 DEF Owed
  <2>2. Owed \in Nat /\ Len(mailbox.queue) \in Nat /\ Owed <= Len(mailbox.queue) + 1 /\ Capacity \in Nat
    BY <1>2, OwedType, Bounds
  <2> DEFINE n == Len(mailbox.queue)
             o == Owed
  <2>3. o \in Nat /\ n \in Nat /\ o <= n + 1 /\ n <= Capacity /\ Capacity \in Nat
    BY <1>2, <2>2
  <2> HIDE DEF n, o
  <2>4. o <= Capacity + 1
    BY ONLY <2>3
  <2> QED
    BY <2>1, <2>4 DEF o
<1>5. Budgeted'
  <2>1. 0 + Owed = Owed
    BY <1>2, OwedType
  <2> QED
    BY <1>1, <1>3, <1>4, <2>1 DEF Budgeted
<1> QED
  BY <1>1, <1>3, <1>5, WorkerMoves

\* initDone(): the connection takes input from now on.
LEMMA InitDoneStep ==
  ASSUME InputInv, InitDone
  PROVE  InputInv'
<1>1. /\ Types /\ IoKnown /\ LinkKnown /\ QueueKnown /\ HandKnown /\ RoutesKnown /\ PressKnown
      /\ PathKnown /\ Accounted
  BY DEF InputInv
<1>2. /\ worker.pc = "work" /\ ~link.ready /\ link' = [link EXCEPT !.ready = TRUE]
      /\ mailbox' = [mailbox EXCEPT !.connected = TRUE]
      /\ told' = told /\ worker' = worker /\ io' = io /\ waking' = waking /\ wake' = wake
  BY DEF InitDone
<1>3. link \in Link /\ mailbox \in Mailbox
  BY <1>1 DEF Types
<1>4. link' \in Link /\ link'.generation = link.generation /\ link'.ready = TRUE /\ link.ready = FALSE
  BY <1>2, <1>3 DEF Link
<1>5. /\ mailbox' \in Mailbox /\ mailbox'.generation = mailbox.generation
      /\ mailbox'.queue = mailbox.queue /\ mailbox'.buttons = mailbox.buttons
      /\ mailbox'.releasePending = mailbox.releasePending
      /\ mailbox'.routingRevision = mailbox.routingRevision /\ mailbox'.focused = mailbox.focused
      /\ mailbox'.viewOnly = mailbox.viewOnly
      /\ mailbox'.emulateMiddle = mailbox.emulateMiddle /\ mailbox'.connected = TRUE
  BY <1>2, <1>3 DEF Mailbox
<1>6. Types'
  BY <1>1, <1>2, <1>4, <1>5 DEF Types
<1>7. IoKnown'
  BY <1>1, <1>2, <1>4 DEF IoKnown
<1>8. LinkKnown'
  BY <1>1, <1>2, <1>4, <1>5 DEF LinkKnown
<1>9. /\ ~InHand /\ ~InHand' /\ OnRoute' = OnRoute /\ Settled /\ Settled' /\ Allowed' = Allowed
      /\ ~Releasing /\ ~Releasing' /\ ToRelease' = ToRelease
  BY <1>2, <1>5 DEF InHand, OnRoute, Settled, Allowed, ToRelease, Releasing
<1>10. QueueKnown'
  BY <1>1, <1>2, <1>5, <1>9 DEF QueueKnown, Untold
<1>11. HandKnown' /\ RoutesKnown' /\ PressKnown'
  BY <1>1, <1>2, <1>5, <1>9 DEF HandKnown, RoutesKnown, PressKnown
<1>12. PathKnown'
  BY <1>1, <1>2, <1>5, <1>9 DEF PathKnown
<1>13. Accounted'
  <2>1. IoButtons' = IoButtons /\ IoPlaces' = IoPlaces
    BY <1>2, <1>5, <1>9 DEF IoButtons, IoPlaces
  <2>2. BaseButtons' = BaseButtons /\ BasePlaces' = BasePlaces /\ BaseKeys' = BaseKeys
    BY <1>2, <1>9, <2>1 DEF BaseButtons, BasePlaces, BaseKeys
  <2> QED
    BY <1>1, <1>2, <1>5, <1>9, <2>1, <2>2 DEF Accounted
<1>14. Budgeted'
  <2>1. mailbox.queue = <<>> /\ mailbox.releasePending = FALSE
    BY <1>1, <1>4 DEF LinkKnown
  <2> QED
    BY <1>2, <1>5, <2>1 DEF Budgeted
<1> QED
  BY <1>6, <1>7, <1>8, <1>10, <1>11, <1>12, <1>13, <1>14 DEF InputInv

\* Between connections there is no input: the mailbox starts anew and the connection is blank.
LEMMA Unconnected ==
  ASSUME InputInv, NEW g \in Nat \ {0}, mailbox' = Begun(mailbox, g), told' = NothingTold,
         link' \in Link, link'.generation = g, link'.ready = FALSE,
         worker' \in Worker, worker'.pc \in {"closed", "drain"}, waking' = waking, wake' = wake,
         io' \in IO, KeysOK(io'), PointerOK(io', g), MiddleOK(io', g),
         io'.held = <<>>, Clear(io'), io'.buttons = {}, io'.lastButtons = {}, io'.pointerTimer = NoTimer,
         io'.middleTimer = NoTimer, io'.middleRevision = 0,
         io'.server.barrier <= mailbox.routingRevision,
         worker'.pc = "drain" => Reached(io') <= 0
  PROVE  InputInv'
<1> DEFINE none == <<>>
<1>1. mailbox \in Mailbox /\ waking \in 0 .. Hosts /\ wake \in BOOLEAN
  BY DEF InputInv, Types
<1>2. /\ none \in Seq(Command) /\ Len(none) = 0 /\ 1 .. Len(none) = {}
      /\ none = <<>>
  OBVIOUS
<1>3. mailbox' = [mailbox EXCEPT !.queue = none, !.buttons = {}, !.generation = g,
                                 !.connected = FALSE, !.releasePending = FALSE]
  BY DEF Begun
<1> HIDE DEF none
<1>4. /\ mailbox' \in Mailbox /\ mailbox'.generation = g
      /\ mailbox'.queue = none /\ mailbox'.buttons = {} /\ mailbox'.releasePending = FALSE
      /\ mailbox'.routingRevision = mailbox.routingRevision /\ mailbox'.connected = FALSE
  BY ONLY <1>1, <1>2, <1>3, Bounds, g \in Nat \ {0} DEF Mailbox
<1>5. told' \in Told /\ told'.path = 0 /\ told'.trail = 0 /\ told'.down = {}
  BY Bounds DEF Told, NothingTold
<1>6. mailbox.routingRevision \in 1 .. MaxRevision /\ mailbox.routingRevision \in Int
      /\ mailbox.routingRevision >= 1 /\ mailbox.routingRevision # 0
  BY <1>1, MailboxType, Bounds
<1>7. Types'
  <2>1. Len(io'.held) <= HeldKeys /\ Len(mailbox'.queue) <= Capacity
    BY <1>2, <1>4, Bounds
  <2> QED
    BY <1>1, <1>4, <1>5, <2>1 DEF Types
<1>8. IoKnown'
  BY DEF IoKnown
<1>9. LinkKnown'
  BY <1>2, <1>4, <1>5 DEF LinkKnown, Untold, Blank
<1>10. QueueKnown'
  BY <1>2, <1>4, <1>5 DEF QueueKnown, Untold
<1>11. ~InHand' /\ ~Releasing' /\ ~ToRelease' /\ ~OnRoute'
  BY <1>4, <1>6 DEF InHand, Releasing, ToRelease, OnRoute
<1>12. HandKnown' /\ PressKnown'
  BY <1>11 DEF HandKnown, PressKnown
<1>13. RoutesKnown'
  <2>1. io'.pointerTimer.revision <= mailbox.routingRevision
    BY <1>6, BlankTypes
  <2> QED
    BY <1>4, <1>6, <1>11, <2>1 DEF RoutesKnown
<1>14. PathKnown'
  BY <1>2, <1>4, <1>5, <1>11 DEF PathKnown, Ahead, AheadOf, Ordered
<1>15. Accounted'
  <2>1. ButtonsTold(none, {}, {}) /\ PlaceTold(none, {0}, 0) /\ KeysTold(none, {}, {})
    BY <1>2, QueueEmpty
  <2>2. KeyIds(io') = {}
    BY <1>2 DEF KeyIds
  <2>3. BaseButtons' = {} /\ BasePlaces' = {0} /\ BaseKeys' = {}
    BY <1>11, <2>2 DEF BaseButtons, BasePlaces, BaseKeys, IoButtons, IoPlaces
  <2> QED
    BY <1>4, <1>5, <1>11, <2>1, <2>3 DEF Accounted
<1>16. Budgeted'
  BY DEF Budgeted
<1> QED
  BY <1>7, <1>8, <1>9, <1>10, <1>12, <1>13, <1>14, <1>15, <1>16 DEF InputInv

\* What a connection that is not ready has.
LEMMA NotReady ==
  ASSUME InputInv, link.ready = FALSE
  PROVE  /\ io \in IO /\ KeysOK(io) /\ PointerOK(io, link.generation) /\ MiddleOK(io, link.generation)
         /\ io.held = <<>> /\ Clear(io) /\ io.buttons = {} /\ io.lastButtons = {} /\ io.pointerTimer = NoTimer
         /\ io.middleTimer = NoTimer /\ io.middleRevision = 0
         /\ io.server.barrier <= mailbox.routingRevision
BY DEF InputInv, Types, IoKnown, LinkKnown, Blank, RoutesKnown

\* prepareAttempt()
LEMMA PrepareAttemptStep ==
  ASSUME InputInv, NEW g \in 1 .. MaxGeneration, PrepareAttempt(g)
  PROVE  InputInv'
<1>1. /\ worker.pc = "closed" /\ link' = [link EXCEPT !.generation = g] /\ mailbox' = Begun(mailbox, g)
      /\ told' = NothingTold /\ worker' = worker /\ io' = io /\ waking' = waking /\ wake' = wake
  BY DEF PrepareAttempt
<1>2. link \in Link /\ worker \in Worker /\ g \in Nat \ {0}
  BY Bounds DEF InputInv, Types
<1>3. link.ready = FALSE
  BY <1>1 DEF InputInv, LinkKnown
<1>4. link' \in Link /\ link'.generation = g /\ link'.ready = FALSE
  BY <1>1, <1>2, <1>3 DEF Link
<1>5. /\ io \in IO /\ KeysOK(io) /\ PointerOK(io, link.generation) /\ MiddleOK(io, link.generation)
      /\ io.held = <<>> /\ Clear(io) /\ io.buttons = {} /\ io.lastButtons = {} /\ io.pointerTimer = NoTimer
      /\ io.middleTimer = NoTimer /\ io.middleRevision = 0
      /\ io.server.barrier <= mailbox.routingRevision
  BY <1>3, NotReady
<1>6. PointerOK(io, g) /\ MiddleOK(io, g)
  BY <1>5 DEF PointerOK, MiddleOK
<1> QED
  BY <1>1, <1>2, <1>4, <1>5, <1>6, Unconnected

\* The input state of a new connection.
LEMMA NewIOType ==
  /\ NewIO \in IO /\ KeysOK(NewIO) /\ (\A g : PointerOK(NewIO, g) /\ MiddleOK(NewIO, g))
  /\ NewIO.held = <<>> /\ Clear(NewIO) /\ NewIO.buttons = {} /\ NewIO.lastButtons = {}
  /\ NewIO.pointerTimer = NoTimer /\ NewIO.middleTimer = NoTimer /\ NewIO.middleRevision = 0
  /\ NewIO.server.barrier = 0 /\ Reached(NewIO) = 0
<1> DEFINE none == <<>>
<1>1. none \in Seq(HeldKey) /\ Len(none) = 0 /\ 1 .. Len(none) = {}
  OBVIOUS
<1>2. /\ NewServer \in Server /\ NewServer.keys = {} /\ NewServer.buttons = {} /\ NewServer.position = 0
      /\ NewServer.route = 0 /\ NewServer.barrier = 0
  BY Bounds DEF NewServer, Server
<1>3. NewIO = [held |-> none, buttons |-> {}, pointerPosition |-> 0,
               pointerTimer |-> NoTimer, pendingPointer |-> NoPointer, lastButtons |-> {},
               middle |-> NewEmulator, middleTimer |-> NoTimer, middleRevision |-> 0, fed |-> 0,
               server |-> NewServer]
  BY DEF NewIO
<1> HIDE DEF none
<1>4. /\ NewIO \in IO /\ NewIO.held = none /\ NewIO.buttons = {} /\ NewIO.lastButtons = {}
      /\ NewIO.pointerPosition = 0 /\ NewIO.middle = NewEmulator /\ NewIO.fed = 0
      /\ NewIO.pointerTimer = NoTimer /\ NewIO.middleTimer = NoTimer /\ NewIO.middleRevision = 0
      /\ NewIO.server = NewServer
  BY <1>1, <1>2, <1>3, Bounds, BlankTypes DEF IO
<1>5. KeysOK(NewIO)
  BY <1>1, <1>2, <1>4 DEF KeysOK
<1>6. \A g : PointerOK(NewIO, g)
  BY <1>2, <1>4 DEF PointerOK
<1>7. \A g : MiddleOK(NewIO, g)
  BY <1>4, BlankTypes DEF MiddleOK
<1>8. Clear(NewIO) /\ Reached(NewIO) = 0
  BY <1>2, <1>4 DEF Clear, Reached
<1> QED
  BY <1>2, <1>4, <1>5, <1>6, <1>7, <1>8 DEF none

\* start()
LEMMA StartStep ==
  ASSUME InputInv, Start
  PROVE  InputInv'
<1>1. /\ worker.pc = "closed" /\ mailbox' = Begun(mailbox, link.generation) /\ link' = link
      /\ told' = NothingTold /\ worker' = [worker EXCEPT !.pc = "drain", !.count = 0] /\ io' = NewIO
      /\ waking' = waking /\ wake' = wake
  BY DEF Start
<1>2. link \in Link /\ worker \in Worker /\ link.generation \in Nat \ {0} /\ mailbox \in Mailbox
  BY DEF InputInv, Types, Link
<1>3. link.ready = FALSE
  BY <1>1 DEF InputInv, LinkKnown
<1>4. 0 \in 0 .. Capacity + 1
  BY Bounds
<1>5. worker' \in Worker /\ worker'.pc = "drain"
  BY <1>1, <1>2, <1>4 DEF Worker
<1>6. 0 <= mailbox.routingRevision /\ 0 <= 0
  BY <1>2, MailboxType, Bounds
<1> DEFINE s == NewIO
<1>7. /\ s \in IO /\ KeysOK(s) /\ (\A g : PointerOK(s, g) /\ MiddleOK(s, g))
      /\ s.held = <<>> /\ Clear(s) /\ s.buttons = {} /\ s.lastButtons = {}
      /\ s.pointerTimer = NoTimer /\ s.middleTimer = NoTimer /\ s.middleRevision = 0
      /\ s.server.barrier = 0 /\ Reached(s) = 0 /\ io' = s
  BY <1>1, NewIOType
<1> HIDE DEF s
<1>8. io' \in IO /\ KeysOK(io') /\ PointerOK(io', link.generation) /\ MiddleOK(io', link.generation)
  BY <1>7
<1> QED
  BY <1>1, <1>2, <1>3, <1>5, <1>6, <1>7, <1>8, Unconnected

\* finish(): what is held is released on the wire.
LEMMA FinishStep ==
  ASSUME InputInv, Finish
  PROVE  InputInv'
<1> DEFINE s == ResetMiddle(ResetPointer(io))
           g == link.generation + 1
<1>1. /\ link' = [generation |-> g, ready |-> FALSE] /\ mailbox' = Begun(mailbox, g)
      /\ told' = NothingTold /\ worker' = AtRest /\ io' = AtEnd(s) /\ waking' = waking /\ wake' = wake
  BY DEF Finish
<1>2. /\ link \in Link /\ io \in IO /\ mailbox \in Mailbox /\ KeysOK(io)
      /\ PointerOK(io, link.generation) /\ MiddleOK(io, link.generation)
      /\ io.server.barrier <= mailbox.routingRevision
  BY DEF InputInv, Types, IoKnown, RoutesKnown
<1>3. Reset(s, io) /\ s.middleRevision = 0 /\ PointerOK(s, link.generation) /\ MiddleOK(s, link.generation)
  BY <1>2, BothReset
<1> HIDE DEF s, g
<1>4. s \in IO /\ KeysOK(s) /\ s.server = io.server /\ s.pointerTimer = NoTimer /\ s.middleTimer = NoTimer
      /\ s.lastButtons = {} /\ s.held = io.held /\ s.buttons = io.buttons
  BY <1>2, <1>3 DEF Reset, KeysOK
<1>5. g \in Nat \ {0}
  BY <1>2 DEF Link, g
<1>6. link' \in Link /\ link'.generation = g /\ link'.ready = FALSE
  BY <1>1, <1>5 DEF Link
<1>7. AtRest \in Worker /\ AtRest.pc = "closed"
  <2>1. 0 \in 0 .. Capacity + 1
    BY Bounds
  <2> QED
    BY <2>1, Bounds DEF AtRest, Worker
<1>8. /\ io' \in IO /\ KeysOK(io') /\ PointerOK(io', link.generation) /\ MiddleOK(io', link.generation)
      /\ io'.held = <<>> /\ Clear(io') /\ io'.buttons = {} /\ io'.lastButtons = {}
      /\ io'.pointerTimer = NoTimer /\ io'.middleTimer = NoTimer /\ io'.middleRevision = 0
      /\ io'.server.barrier <= mailbox.routingRevision
  <2>1. CASE link.ready = TRUE
    <3>1. io' = ReleaseInput(s)
      BY <1>1, <2>1 DEF AtEnd
    <3>2. /\ io' \in IO /\ KeysOK(io') /\ PointerOK(io', link.generation) /\ MiddleOK(io', link.generation)
          /\ io'.held = <<>> /\ io'.buttons = {} /\ Clear(io')
          /\ io'.server.barrier = s.server.barrier
          /\ io'.pointerTimer = s.pointerTimer /\ io'.lastButtons = s.lastButtons
          /\ io'.middleTimer = s.middleTimer
          /\ io'.middleRevision = s.middleRevision
      BY <1>3, <1>4, <3>1, InputReleased
    <3> QED
      BY <1>2, <1>3, <1>4, <3>2
  <2>2. CASE link.ready = FALSE
    <3>1. io' = s
      BY <1>1, <2>2 DEF AtEnd
    <3>2. io.held = <<>> /\ Clear(io) /\ io.buttons = {}
      BY <2>2, NotReady
    <3> QED
      BY <1>2, <1>3, <1>4, <3>1, <3>2 DEF Clear
  <2>3. link.ready \in BOOLEAN
    BY <1>2 DEF Link
  <2> QED
    BY <2>1, <2>2, <2>3
<1>9. PointerOK(io', g) /\ MiddleOK(io', g)
  BY <1>8 DEF PointerOK, MiddleOK
<1> QED
  BY <1>1, <1>5, <1>6, <1>7, <1>8, <1>9, Unconnected

\* What take() leaves of the round's budget.
LEMMA TakeBudget ==
  ASSUME InputInv, worker.pc = "drain", worker'.pc = "send", worker'.count = worker.count + 1,
         link' = link, waking' = waking, wake' = wake, mailbox' \in Mailbox, Owed = Owed' + 1
  PROVE  Budgeted'
<1>1. worker.count \in Int /\ mailbox \in Mailbox /\ Capacity \in Int
  BY Bounds DEF InputInv, Types, Worker
<1>2. Owed' \in Int
  <2>1. mailbox'.queue \in Seq(Command)
    BY DEF Mailbox
  <2>2. Len(mailbox'.queue) \in Int
    BY <2>1
  <2> QED
    BY <2>2 DEF Owed
<1> DEFINE n == worker.count
           o == Owed'
<1>3. ASSUME link.ready = TRUE, waking = 0, wake = FALSE
      PROVE  worker'.count + Owed' <= Capacity + 1
  <2>1. n + (o + 1) <= Capacity + 1 /\ worker'.count = n + 1 /\ n \in Int /\ o \in Int
    BY <1>1, <1>2, <1>3 DEF InputInv, Budgeted
  <2> HIDE DEF n, o
  <2>2. (n + 1) + o <= Capacity + 1
    BY ONLY <1>1, <2>1
  <2> QED
    BY <2>1, <2>2 DEF o
<1> QED
  BY <1>3 DEF Budgeted

\* take() of a release.
LEMMA TakeRelease ==
  ASSUME InputInv, Take, mailbox.releasePending = TRUE
  PROVE  InputInv'
<1>1. /\ Types /\ IoKnown /\ LinkKnown /\ QueueKnown /\ HandKnown /\ RoutesKnown /\ PressKnown
      /\ PathKnown /\ Accounted
  BY DEF InputInv
<1>2. /\ worker.pc = "drain" /\ link.ready /\ worker.count <= RoundLimit /\ mailbox.connected
      /\ worker' = [pc |-> "send", count |-> worker.count + 1, command |-> ReleaseCommand,
                    revision |-> mailbox.routingRevision, emulate |-> mailbox.emulateMiddle]
      /\ mailbox' = [mailbox EXCEPT !.releasePending = FALSE]
      /\ told' = told /\ link' = link /\ io' = io /\ waking' = waking /\ wake' = wake
  BY DEF Take
<1>3. worker \in Worker /\ mailbox \in Mailbox /\ link \in Link /\ link.ready = TRUE
  BY <1>1, <1>2 DEF Types, Link
<1>4. /\ mailbox' \in Mailbox /\ mailbox'.generation = mailbox.generation
      /\ mailbox'.queue = mailbox.queue /\ mailbox'.buttons = mailbox.buttons
      /\ mailbox'.releasePending = FALSE /\ mailbox'.connected = mailbox.connected
      /\ mailbox'.routingRevision = mailbox.routingRevision /\ mailbox'.focused = mailbox.focused
      /\ mailbox'.viewOnly = mailbox.viewOnly
      /\ mailbox'.emulateMiddle = mailbox.emulateMiddle
  BY <1>2, <1>3 DEF Mailbox
<1>5. /\ mailbox.routingRevision \in 1 .. MaxRevision /\ mailbox.emulateMiddle \in BOOLEAN
      /\ mailbox.routingRevision \in 1 .. mailbox.routingRevision /\ mailbox.routingRevision \in Routes
      /\ worker.count + 1 \in 0 .. Capacity + 1
  BY <1>2, <1>3, MailboxType, Bounds DEF Worker, RoundLimit, Routes
<1>6. /\ worker' \in Worker /\ worker'.pc = "send" /\ worker'.command = ReleaseCommand
      /\ worker'.revision = mailbox.routingRevision /\ worker'.count = worker.count + 1
      /\ worker'.emulate = mailbox.emulateMiddle
  BY <1>2, <1>5 DEF Worker
<1>7. Types'
  BY <1>1, <1>2, <1>4, <1>6 DEF Types
<1>8. IoKnown'
  BY <1>1, <1>2 DEF IoKnown
<1>9. LinkKnown'
  BY <1>1, <1>2, <1>3, <1>4, <1>6 DEF LinkKnown
<1>10. /\ ~InHand /\ ~InHand' /\ OnRoute' = OnRoute /\ Allowed' = Allowed
       /\ Releasing' /\ ToRelease /\ ToRelease' /\ ~Settled'
  BY <1>2, <1>4, <1>6 DEF InHand, OnRoute, Settled, Allowed, ToRelease, Releasing
<1>11. QueueKnown'
  BY <1>1, <1>2, <1>4, <1>10 DEF QueueKnown, Untold
<1>12. HandKnown' /\ PressKnown'
  BY <1>4, <1>5, <1>6, <1>10 DEF HandKnown, PressKnown
<1>13. RoutesKnown'
  BY <1>1, <1>2, <1>4, <1>6, <1>10 DEF RoutesKnown, OnRoute
<1>14. PathKnown'
  BY <1>1, <1>2, <1>4, <1>10 DEF PathKnown
<1>15. Accounted'
  <2>1. BaseButtons' = BaseButtons /\ BasePlaces' = BasePlaces /\ BaseKeys' = BaseKeys
    BY <1>10 DEF BaseButtons, BasePlaces, BaseKeys
  <2> QED
    BY <1>1, <1>2, <1>4, <1>10, <2>1 DEF Accounted
<1>16. Budgeted'
  <2>1. Owed = Owed' + 1
    <3>1. Len(mailbox.queue) \in Nat
      BY <1>3, OwedType
    <3> DEFINE n == Len(mailbox.queue)
    <3>2. Owed = n + 1 /\ Owed' = n + 0 /\ n \in Nat
      BY <1>4, <3>1 DEF Owed
    <3> HIDE DEF n
    <3> QED
      BY ONLY <3>2
  <2> QED
    BY <1>2, <1>4, <1>6, <2>1, TakeBudget
<1> QED
  BY <1>7, <1>8, <1>9, <1>11, <1>12, <1>13, <1>14, <1>15, <1>16 DEF InputInv

\* take() of the oldest command.
LEMMA TakeCommand ==
  ASSUME InputInv, Take, mailbox.releasePending = FALSE
  PROVE  InputInv'
<1> DEFINE q == mailbox.queue
           r == Tail(q)
           c == Head(q)
<1>1. /\ Types /\ IoKnown /\ LinkKnown /\ QueueKnown /\ HandKnown /\ RoutesKnown /\ PressKnown
      /\ PathKnown /\ Accounted
  BY DEF InputInv
<1>2. /\ worker.pc = "drain" /\ link.ready /\ worker.count <= RoundLimit /\ mailbox.connected
      /\ worker' = [pc |-> "send", count |-> worker.count + 1, command |-> c,
                    revision |-> mailbox.routingRevision, emulate |-> mailbox.emulateMiddle]
      /\ mailbox' = [mailbox EXCEPT !.queue = r] /\ q # <<>>
      /\ told' = told /\ link' = link /\ io' = io /\ waking' = waking /\ wake' = wake
  BY DEF Take
<1>3. worker \in Worker /\ mailbox \in Mailbox /\ link \in Link /\ link.ready = TRUE
  BY <1>1, <1>2 DEF Types, Link
<1>4. /\ ~InHand /\ ~Releasing /\ ~ToRelease /\ Settled /\ worker.pc # "overflow" /\ worker.pc # "closed"
  BY <1>2 DEF InHand, Settled, ToRelease, Releasing
<1>5. /\ ButtonsTold(q, IoButtons, mailbox.buttons) /\ PlaceTold(q, IoPlaces, told.trail)
      /\ KeysTold(q, KeyIds(io), told.down) /\ Ordered(q, told.path)
  BY <1>1, <1>4 DEF Accounted, BaseButtons, BasePlaces, BaseKeys, PathKnown
<1>6. q \in Seq(Command) /\ mailbox.routingRevision \in 1 .. MaxRevision /\ Len(q) <= Capacity
  BY <1>1, <1>3, MailboxType DEF Types
<1>7. r = Tail(q) /\ c = Head(q) /\ q = mailbox.queue
  OBVIOUS
<1> HIDE DEF q, r, c
<1>8. /\ r \in Seq(Command) /\ Len(r) = Len(q) - 1 /\ (\A i \in 1 .. Len(r) : r[i] = q[i + 1])
      /\ c \in Command /\ c = q[1] /\ 1 \in 1 .. Len(q)
      /\ c.kind = "Key" => c.at \in IoPlaces
      /\ IsPointer(c) => IF c.transition = TRUE THEN c.at = c.position ELSE c.buttons = IoButtons
      /\ Ordered(r, told.path)
      /\ IsPointer(c) => Follows(r, c.position) /\ c.position <= told.path
  <2>1. q # <<>>
    BY <1>2
  <2>2. /\ r \in Seq(Command) /\ Len(r) = Len(q) - 1 /\ (\A i \in 1 .. Len(r) : r[i] = q[i + 1])
        /\ c \in Command /\ c = q[1] /\ 1 \in 1 .. Len(q)
    BY ONLY <1>6, <1>7, <2>1, TailOf
  <2>3. c.kind = "Key" => c.at \in IoPlaces
    BY ONLY <1>5, <1>6, <1>7, <2>1, TailPlace
  <2>4. IsPointer(c) => IF c.transition = TRUE THEN c.at = c.position ELSE c.buttons = IoButtons
    BY ONLY <1>5, <1>6, <1>7, <2>1, TailButtons
  <2>5. Ordered(r, told.path) /\ (IsPointer(c) => Follows(r, c.position) /\ c.position <= told.path)
    BY ONLY <1>5, <1>6, <1>7, <2>1, TailOrder
  <2> QED
    BY <2>2, <2>3, <2>4, <2>5
<1>9. /\ ButtonsTold(r, IF IsPointer(c) THEN c.buttons ELSE IoButtons, mailbox.buttons)
      /\ PlaceTold(r, IF IsPointer(c) THEN {c.position} ELSE IoPlaces, told.trail)
      /\ KeysTold(r, IF c.kind = "Key" THEN KeysAfter(KeyIds(io), c) ELSE KeyIds(io), told.down)
  <2>1. q # <<>>
    BY <1>2
  <2>2. ButtonsTold(r, IF IsPointer(c) THEN c.buttons ELSE IoButtons, mailbox.buttons)
    BY ONLY <1>5, <1>6, <1>7, <2>1, TailButtons
  <2>3. PlaceTold(r, IF IsPointer(c) THEN {c.position} ELSE IoPlaces, told.trail)
    BY ONLY <1>5, <1>6, <1>7, <2>1, TailPlace
  <2>4. KeysTold(r, IF c.kind = "Key" THEN KeysAfter(KeyIds(io), c) ELSE KeyIds(io), told.down)
    BY ONLY <1>5, <1>6, <1>7, <2>1, TailKeys
  <2> QED
    BY <2>2, <2>3, <2>4
<1>10. c # ReleaseCommand /\ c.kind \in {"Key", "Pointer"} /\ c.route = mailbox.routingRevision /\ Allowed
  <2>1. c.kind \in {"Key", "Pointer"}
    BY <1>8 DEF Command, KeyCommand, PointerCommand
  <2>2. c # ReleaseCommand
    BY <2>1 DEF ReleaseCommand
  <2>3. c.route = mailbox.routingRevision /\ Allowed
    BY <1>1, <1>2, <1>7, <1>8 DEF QueueKnown
  <2> QED
    BY <2>1, <2>2, <2>3
<1>11. /\ mailbox' \in Mailbox /\ mailbox'.generation = mailbox.generation
      /\ mailbox'.queue = r /\ mailbox'.buttons = mailbox.buttons
      /\ mailbox'.releasePending = FALSE /\ mailbox'.connected = mailbox.connected
      /\ mailbox'.routingRevision = mailbox.routingRevision /\ mailbox'.focused = mailbox.focused
      /\ mailbox'.viewOnly = mailbox.viewOnly
      /\ mailbox'.emulateMiddle = mailbox.emulateMiddle
  BY <1>2, <1>3, <1>8 DEF Mailbox
<1>12. /\ mailbox.emulateMiddle \in BOOLEAN
      /\ mailbox.routingRevision \in 1 .. mailbox.routingRevision /\ mailbox.routingRevision \in Routes
      /\ worker.count + 1 \in 0 .. Capacity + 1
  BY <1>2, <1>3, <1>6, MailboxType, Bounds DEF Worker, RoundLimit, Routes
<1>13. /\ worker' \in Worker /\ worker'.pc = "send" /\ worker'.command = c
      /\ worker'.revision = mailbox.routingRevision /\ worker'.count = worker.count + 1
      /\ worker'.emulate = mailbox.emulateMiddle
  BY <1>2, <1>8, <1>12 DEF Worker
<1>14. Types'
  <2>1. Len(r) <= Capacity
    BY <1>6, <1>8, Bounds
  <2> QED
    BY <1>1, <1>2, <1>11, <1>13, <2>1 DEF Types
<1>15. IoKnown'
  BY <1>1, <1>2 DEF IoKnown
<1>16. LinkKnown'
  BY <1>1, <1>2, <1>3, <1>11, <1>13 DEF LinkKnown
<1>17. /\ InHand' /\ OnRoute' = OnRoute /\ Allowed' /\ ~Releasing' /\ ~ToRelease' /\ Settled'
  BY <1>2, <1>10, <1>11, <1>13 DEF InHand, OnRoute, Settled, Allowed, ToRelease, Releasing
<1>18. QueueKnown'
  <2>1. \A i \in 1 .. Len(r) : r[i].route = mailbox.routingRevision
    <3> SUFFICES ASSUME NEW i \in 1 .. Len(r) PROVE r[i].route = mailbox.routingRevision
      OBVIOUS
    <3>1. i + 1 \in 1 .. Len(q)
      BY <1>6, <1>8
    <3> QED
      BY <1>1, <1>7, <1>8, <3>1 DEF QueueKnown
  <2> QED
    BY <1>11, <1>17, <2>1 DEF QueueKnown
<1>19. HandKnown'
  BY <1>10, <1>11, <1>12, <1>13, <1>17 DEF HandKnown
<1>20. PressKnown'
  <2>1. mailbox.releasePending = FALSE /\ Allowed /\ worker'.pc # "closed"
    BY <1>10, <1>13
  <2> QED
    BY <1>1, <1>2, <1>4, <1>11, <1>13, <1>17, <2>1 DEF PressKnown
<1>21. RoutesKnown'
  BY <1>1, <1>2, <1>10, <1>11, <1>13, <1>17 DEF RoutesKnown, OnRoute
<1>22. PathKnown'
  <2>1. Ahead(io, told.path) /\ AheadOf(q, io)
    BY <1>1, <1>4, <1>7 DEF PathKnown
  <2>2. IsPointer(c) => Ahead(io, c.position)
    BY <1>8, <2>1 DEF AheadOf
  <2>3. AheadOf(r, io)
    <3> SUFFICES ASSUME NEW i \in 1 .. Len(r), IsPointer(r[i]) PROVE Ahead(io, r[i].position)
      BY DEF AheadOf
    <3>1. i + 1 \in 1 .. Len(q)
      BY <1>6, <1>8
    <3> QED
      BY <1>8, <2>1, <3>1 DEF AheadOf
  <2> QED
    BY <1>2, <1>8, <1>11, <1>13, <2>1, <2>2, <2>3 DEF PathKnown
<1>23. Accounted'
  <2>1. IoButtons' = IoButtons /\ IoPlaces' = IoPlaces /\ KeyIds(io') = KeyIds(io)
    BY <1>2, <1>11, <1>17 DEF IoButtons, IoPlaces
  <2>2. /\ BaseButtons' = IF IsPointer(c) THEN c.buttons ELSE IoButtons
        /\ BasePlaces' = IF IsPointer(c) THEN {c.position} ELSE IoPlaces
        /\ BaseKeys' = IF c.kind = "Key" THEN KeysAfter(KeyIds(io), c) ELSE KeyIds(io)
    BY <1>2, <1>13, <1>17, <2>1 DEF BaseButtons, BasePlaces, BaseKeys
  <2>3. /\ ButtonsTold(r, BaseButtons', mailbox.buttons) /\ PlaceTold(r, BasePlaces', told.trail)
        /\ KeysTold(r, BaseKeys', told.down)
    BY <1>9, <2>2
  <2>4. Accounted' <=> (worker.pc # "overflow" =>
    /\ ButtonsTold(mailbox.queue, BaseButtons, mailbox.buttons)
    /\ PlaceTold(mailbox.queue, BasePlaces, told.trail)
    /\ KeysTold(mailbox.queue, BaseKeys, told.down)
    /\ InHand /\ mailbox.releasePending = FALSE =>
         /\ worker.command.kind = "Key" => worker.command.at \in IoPlaces
         /\ IsPointer(worker.command) =>
              IF worker.command.transition = TRUE THEN worker.command.at = worker.command.position
              ELSE worker.command.buttons = IoButtons)'
    BY DEF Accounted
  <2> QED
    BY <1>2, <1>8, <1>11, <1>13, <2>1, <2>3, <2>4
<1>24. Budgeted'
  <2>1. Owed = Owed' + 1
    <3> DEFINE n == Len(q)
               m == Len(r)
    <3>1. n \in Nat /\ m \in Nat
      BY <1>6, <1>8
    <3>2. Owed = n + 0 /\ Owed' = m + 0 /\ n \in Nat /\ m \in Nat /\ m = n - 1
      BY <1>7, <1>8, <1>11, <3>1 DEF Owed
    <3> HIDE DEF n, m
    <3> QED
      BY ONLY <3>2
  <2> QED
    BY <1>2, <1>4, <1>11, <1>13, <2>1, TakeBudget
<1> QED
  BY <1>14, <1>15, <1>16, <1>18, <1>19, <1>20, <1>21, <1>22, <1>23, <1>24 DEF InputInv

\* take()
LEMMA TakeStep ==
  ASSUME InputInv, Take
  PROVE  InputInv'
<1>1. mailbox.releasePending \in BOOLEAN
  BY MailboxType DEF InputInv, Types
<1> QED
  BY <1>1, TakeRelease, TakeCommand

\* The command in hand is done: the worker has what it made, and nothing else has changed.
LEMMA CommandDone ==
  ASSUME InputInv, worker.pc = "send", UNCHANGED <<mailbox, told, link, waking, wake>>,
         NEW pc \in {"drain", "overflow"}, worker' = Sent(pc),
         io' \in IO, KeysOK(io'), PointerOK(io', link.generation), MiddleOK(io', link.generation),
         Len(io'.held) <= HeldKeys, io'.middleRevision = worker.revision,
         io'.server.barrier <= mailbox.routingRevision,
         io'.fed # 0 /\ OnRoute' => mailbox.emulateMiddle = TRUE,
         pc = "drain" /\ mailbox.releasePending = FALSE =>
           /\ ~(OnRoute' /\ Allowed) => Clear(io')
           /\ OnRoute' => Even(io') /\ (mailbox.emulateMiddle = TRUE => Shows(io'))
           /\ IoButtons' = BaseButtons /\ BasePlaces \subseteq IoPlaces' /\ KeyIds(io') = BaseKeys,
         \A p \in Places :
           Ahead(io, p) /\ (InHand /\ IsPointer(worker.command) => worker.command.position <= p)
             => Ahead(io', p)
  PROVE  InputInv'
<1>1. /\ Types /\ IoKnown /\ LinkKnown /\ QueueKnown /\ HandKnown /\ RoutesKnown /\ PressKnown
      /\ PathKnown /\ Accounted /\ Budgeted
  BY DEF InputInv
<1>2. /\ mailbox' = mailbox /\ told' = told /\ link' = link /\ waking' = waking /\ wake' = wake
      /\ worker \in Worker /\ mailbox \in Mailbox /\ told \in Told /\ mailbox.queue \in Seq(Command)
  BY <1>1, MailboxType DEF Types
<1>3. /\ worker' \in Worker /\ worker'.pc = pc /\ worker'.count = worker.count
  <2>1. worker.count \in 0 .. Capacity + 1
    BY <1>2 DEF Worker
  <2> QED
    BY <2>1, Bounds DEF Sent, AtRest, Worker
<1>4. Types'
  BY <1>1, <1>2, <1>3 DEF Types
<1>5. IoKnown'
  BY <1>2 DEF IoKnown
<1>6. LinkKnown'
  BY <1>1, <1>2, <1>3 DEF LinkKnown
<1>7. /\ ~InHand' /\ ~Releasing' /\ Allowed' = Allowed /\ worker'.pc \notin {"send", "closed"}
      /\ ToRelease' <=> mailbox.releasePending = TRUE
      /\ Settled' <=> pc = "drain"
  BY <1>2, <1>3 DEF InHand, Allowed, ToRelease, Releasing, Settled
<1>8. QueueKnown'
  BY <1>1, <1>2, <1>7 DEF QueueKnown, Untold
<1>9. HandKnown'
  BY <1>7 DEF HandKnown
<1>10. RoutesKnown'
  <2>1. io'.middleRevision <= mailbox.routingRevision
    BY <1>1, <1>2, MailboxType DEF HandKnown
  <2>2. io'.middleRevision # 0
    BY <1>1, <1>2, MailboxType DEF HandKnown
  <2>3. io'.pointerTimer.revision <= mailbox.routingRevision
    <3>1. 0 <= mailbox.routingRevision
      BY <1>2, MailboxType, Bounds
    <3> QED
      BY <2>1, <2>2, <3>1, BlankTypes DEF PointerOK
  <2> QED
    BY <1>2, <1>7, <2>1, <2>2, <2>3 DEF RoutesKnown
<1>11. PressKnown'
  BY <1>2, <1>7 DEF PressKnown
<1>12. PathKnown'
  <2>1. /\ Ahead(io, told.path) /\ AheadOf(mailbox.queue, io) /\ Ordered(mailbox.queue, told.path)
        /\ InHand /\ IsPointer(worker.command) =>
             worker.command.position <= told.path /\ Follows(mailbox.queue, worker.command.position)
    BY <1>1 DEF PathKnown
  <2>2. Ahead(io', told.path)
    BY <1>2, <2>1 DEF Told
  <2>3. AheadOf(mailbox.queue, io')
    <3> SUFFICES ASSUME NEW i \in 1 .. Len(mailbox.queue), IsPointer(mailbox.queue[i])
                 PROVE  Ahead(io', mailbox.queue[i].position)
      BY DEF AheadOf
    <3>1. mailbox.queue[i] \in Command
      BY <1>2
    <3>2. mailbox.queue[i].position \in Places
      BY <3>1 DEF Command, KeyCommand, PointerCommand, IsPointer
    <3> QED
      BY <2>1, <3>2 DEF AheadOf, Follows
  <2> QED
    BY <1>2, <1>7, <2>1, <2>2, <2>3 DEF PathKnown
<1>13. Accounted'
  <2> SUFFICES ASSUME pc = "drain"
               PROVE  /\ ButtonsTold(mailbox.queue, BaseButtons', mailbox.buttons)
                      /\ PlaceTold(mailbox.queue, BasePlaces', told.trail)
                      /\ KeysTold(mailbox.queue, BaseKeys', told.down)
    BY <1>2, <1>3, <1>7 DEF Accounted
  <2>1. /\ ButtonsTold(mailbox.queue, BaseButtons, mailbox.buttons)
        /\ PlaceTold(mailbox.queue, BasePlaces, told.trail)
        /\ KeysTold(mailbox.queue, BaseKeys, told.down)
    BY <1>1 DEF Accounted
  <2>2. CASE mailbox.releasePending = TRUE
    <3>1. ToRelease /\ ToRelease'
      BY <1>7, <2>2 DEF ToRelease
    <3>2. BaseButtons' = BaseButtons /\ BasePlaces' = BasePlaces /\ BaseKeys' = BaseKeys
      BY <3>1 DEF BaseButtons, BasePlaces, BaseKeys
    <3> QED
      BY <2>1, <3>2
  <2>3. CASE mailbox.releasePending = FALSE
    <3>1. ~ToRelease'
      BY <1>7, <2>3
    <3>2. /\ BaseButtons' = BaseButtons /\ BaseKeys' = BaseKeys
          /\ BasePlaces' = IoPlaces' /\ \A p \in BasePlaces : p \in BasePlaces'
      BY <1>7, <2>3, <3>1 DEF BaseButtons, BasePlaces, BaseKeys
    <3>3. PlaceTold(mailbox.queue, BasePlaces', told.trail)
      BY ONLY <2>1, <3>2, PlacesWiden
    <3> QED
      BY <2>1, <3>2, <3>3
  <2> QED
    BY <1>2, <2>2, <2>3, MailboxType
<1>14. Budgeted'
  <2>1. Owed' = Owed
    BY <1>2 DEF Owed
  <2> QED
    BY <1>1, <1>2, <1>3, <2>1 DEF Budgeted
<1> QED
  BY <1>4, <1>5, <1>6, <1>8, <1>9, <1>10, <1>11, <1>12, <1>13, <1>14 DEF InputInv

\* What the worker has when it starts on the command in hand: the barrier is down.
LEMMA BeforeSending ==
  ASSUME InputInv, worker.pc = "send", NEW s, s = Barrier(io, worker.command)
  PROVE  /\ s \in IO /\ KeysOK(s) /\ PointerOK(s, link.generation) /\ MiddleOK(s, link.generation)
         /\ s.middleRevision = worker.revision /\ worker.revision \in Routes /\ worker.revision # 0
         /\ s.held = io.held /\ s.server = io.server /\ s.buttons = io.buttons
         /\ s.server.barrier <= worker.revision
         /\ s.server.barrier <= mailbox.routingRevision /\ Len(s.held) <= HeldKeys
         /\ s.fed # 0 /\ worker.revision = mailbox.routingRevision => mailbox.emulateMiddle = TRUE
         /\ s.fed # 0 => worker.emulate = TRUE
         /\ \A p \in Places : Ahead(io, p) => Ahead(s, p)
         /\ worker.revision = io.middleRevision /\ worker.command.kind # "ReleaseAll" => s = io
         /\ worker.revision # io.middleRevision \/ worker.command.kind = "ReleaseAll" => Reset(s, io)
<1>1. /\ worker \in Worker /\ io \in IO /\ Len(io.held) <= HeldKeys /\ mailbox \in Mailbox
      /\ KeysOK(io) /\ PointerOK(io, link.generation) /\ MiddleOK(io, link.generation)
      /\ io.server.barrier <= worker.revision /\ io.server.barrier <= mailbox.routingRevision
      /\ worker.revision \in 1 .. mailbox.routingRevision
  BY DEF InputInv, Types, IoKnown, RoutesKnown, HandKnown
<1>2. worker.revision \in Routes /\ worker.revision # 0
  BY <1>1, MailboxType, Bounds DEF Worker
<1>3. /\ s \in IO /\ PointerOK(s, link.generation) /\ MiddleOK(s, link.generation)
      /\ s.middleRevision = worker.revision
      /\ s.held = io.held /\ s.server = io.server /\ s.buttons = io.buttons
      /\ worker.revision = io.middleRevision /\ worker.command.kind # "ReleaseAll" => s = io
      /\ worker.revision # io.middleRevision \/ worker.command.kind = "ReleaseAll" => Reset(s, io)
  BY <1>1, BarrierDone
<1>4. KeysOK(s)
  BY <1>1, <1>3 DEF KeysOK
<1>5. CASE worker.revision = io.middleRevision /\ worker.command.kind # "ReleaseAll"
  <2>1. s = io
    BY <1>3, <1>5
  <2>2. /\ io.fed # 0 /\ OnRoute => mailbox.emulateMiddle = TRUE
        /\ io.fed # 0 => worker.emulate = TRUE
    BY <1>5 DEF InputInv, RoutesKnown
  <2> QED
    BY <1>1, <1>2, <1>3, <1>4, <1>5, <2>1, <2>2 DEF OnRoute
<1>6. CASE worker.revision # io.middleRevision \/ worker.command.kind = "ReleaseAll"
  <2>1. Reset(s, io)
    BY <1>3, <1>6
  <2>2. s.fed = 0 /\ s.middleTimer = NoTimer /\ Reached(s) <= Reached(io)
    BY <2>1 DEF Reset
  <2>3. \A p \in Places : Ahead(io, p) => Ahead(s, p)
    <3>1. Reached(io) \in Int /\ Reached(s) \in Int /\ \A p \in Places : p \in Int
      BY <1>1, <1>3, ReachedType
    <3> QED
      BY <2>2, <3>1 DEF Ahead
  <2> QED
    BY <1>1, <1>2, <1>3, <1>4, <1>6, <2>2, <2>3
<1> QED
  BY <1>5, <1>6

\* Without a release to come, the command in hand may be sent where the mailbox accepted
\* it, and the worker has what the hosts counted on.
LEMMA HandBefore ==
  ASSUME InputInv, InHand, mailbox.releasePending = FALSE, NEW s, s = Barrier(io, worker.command),
         worker.command.kind # "ReleaseAll"
  PROVE  /\ worker.revision = mailbox.routingRevision /\ Allowed /\ worker.emulate = mailbox.emulateMiddle
         /\ RouteCurrent(Here(s)) /\ Even(s) /\ (mailbox.emulateMiddle = TRUE => Shows(s))
         /\ IoButtons = IF mailbox.emulateMiddle = TRUE THEN s.middle.lastButtons ELSE s.lastButtons
         /\ mailbox.emulateMiddle # TRUE => IoPlaces \subseteq {0, Reached(s)}
         /\ IoPlaces \subseteq Places
<1>1. /\ worker.pc = "send" /\ Settled
      /\ worker.revision = mailbox.routingRevision /\ Allowed /\ worker.emulate = mailbox.emulateMiddle
  BY DEF InHand, Settled, InputInv, HandKnown
<1>2. /\ s \in IO /\ s.middleRevision = worker.revision /\ s.server = io.server
      /\ worker.revision = io.middleRevision => s = io
      /\ worker.revision # io.middleRevision => Reset(s, io)
  BY <1>1, BeforeSending
<1>3. RouteCurrent(Here(s))
  <2>1. /\ link.ready = TRUE /\ mailbox.connected = TRUE /\ mailbox.generation = link.generation
    BY <1>1 DEF InputInv, LinkKnown
  <2> QED
    BY <1>1, <1>2, <2>1 DEF RouteCurrent, Here, Allowed
<1>4. 0 \in Places
  BY Bounds
<1>5. CASE OnRoute
  <2>1. s = io
    BY <1>1, <1>2, <1>5 DEF OnRoute
  <2>2. Even(io) /\ (mailbox.emulateMiddle = TRUE => Shows(io))
    BY <1>1, <1>5 DEF InputInv, PressKnown
  <2>3. Reached(s) \in Places
    BY <1>2, ReachedType
  <2> QED
    BY <1>1, <1>3, <1>4, <1>5, <2>1, <2>2, <2>3 DEF IoButtons, IoPlaces
<1>6. CASE ~OnRoute
  <2>1. Reset(s, io)
    BY <1>1, <1>2, <1>6 DEF OnRoute
  <2>2. /\ s.pointerTimer = NoTimer /\ s.lastButtons = {} /\ s.middle = NewEmulator
        /\ s.server = io.server
    BY <2>1 DEF Reset
  <2>3. Clear(io)
    BY <1>1, <1>6 DEF InputInv, PressKnown
  <2>4. Even(s)
    BY <2>2, <2>3 DEF Even, Clear
  <2>5. s.middle.lastButtons = {} /\ Shows(s)
    BY <2>2, BlankTypes DEF Shows
  <2> QED
    BY <1>1, <1>3, <1>4, <1>6, <2>2, <2>4, <2>5 DEF IoButtons, IoPlaces
<1> QED
  BY <1>5, <1>6

\* releaseAll: everything is released, and nothing older will be written.
LEMMA SendRelease ==
  ASSUME InputInv, Send, worker.command.kind = "ReleaseAll"
  PROVE  InputInv'
<1> DEFINE s == Barrier(io, worker.command)
           u == ReleaseInput(s)
<1>1. /\ worker.pc = "send" /\ UNCHANGED <<mailbox, told, link, waking, wake>>
      /\ io' = [u EXCEPT !.server.route = 0, !.server.barrier = worker.revision]
      /\ worker' = Sent("drain")
  BY DEF Send
<1>2. /\ s \in IO /\ KeysOK(s) /\ PointerOK(s, link.generation) /\ MiddleOK(s, link.generation)
      /\ s.middleRevision = worker.revision /\ worker.revision \in Routes /\ worker.revision # 0
      /\ (\A p \in Places : Ahead(io, p) => Ahead(s, p))
      /\ Reset(s, io)
  BY <1>1, BeforeSending
<1> HIDE DEF s
<1>3. s.pointerTimer = NoTimer /\ s.lastButtons = {} /\ s.middle = NewEmulator /\ s.middleTimer = NoTimer
      /\ s.fed = 0
  BY <1>2 DEF Reset
<1>4. /\ u \in IO /\ KeysOK(u) /\ PointerOK(u, link.generation) /\ MiddleOK(u, link.generation)
      /\ u.held = <<>> /\ u.buttons = {} /\ Clear(u) /\ Len(u.held) = 0 /\ KeyIds(u) = {}
      /\ Reached(u) = Reached(s)
      /\ u.pointerTimer = s.pointerTimer /\ u.lastButtons = s.lastButtons
      /\ u.middle = s.middle /\ u.middleTimer = s.middleTimer
      /\ u.middleRevision = s.middleRevision /\ u.fed = s.fed
  BY <1>2, InputReleased
<1> HIDE DEF u
<1>5. /\ io' \in IO /\ io'.held = u.held /\ io'.buttons = u.buttons /\ io'.lastButtons = u.lastButtons
      /\ io'.pointerTimer = u.pointerTimer /\ io'.pendingPointer = u.pendingPointer
      /\ io'.pointerPosition = u.pointerPosition
      /\ io'.middle = u.middle /\ io'.middleTimer = u.middleTimer /\ io'.middleRevision = u.middleRevision
      /\ io'.fed = u.fed /\ io'.server.keys = u.server.keys /\ io'.server.buttons = u.server.buttons
      /\ io'.server.position = u.server.position /\ io'.server.route = 0
      /\ io'.server.barrier = worker.revision
  BY <1>1, <1>2, <1>4, Bounds DEF IO, Server
<1>6. Reached(io') = Reached(u)
  BY <1>5 DEF Reached
<1>7. KeysOK(io') /\ KeyIds(io') = {} /\ Clear(io')
  BY <1>4, <1>5 DEF KeysOK, KeyIds, Clear
<1>8. worker.revision <= worker.revision
  BY <1>2, Bounds
<1>9. PointerOK(io', link.generation)
  BY <1>2, <1>3, <1>4, <1>5, <1>8 DEF PointerOK
<1>10. MiddleOK(io', link.generation)
  BY <1>3, <1>4, <1>5, <1>6 DEF MiddleOK
<1>11. Len(io'.held) <= HeldKeys
  BY <1>4, <1>5, Bounds
<1>12. io'.server.barrier <= mailbox.routingRevision /\ io'.middleRevision = worker.revision
  BY <1>1, <1>2, <1>4, <1>5, MailboxType DEF InputInv, HandKnown, Types
<1>13. io'.fed = 0
  BY <1>3, <1>4, <1>5
<1>14. Even(io') /\ Shows(io')
  <2>1. io'.server.buttons = {} /\ io'.lastButtons = {} /\ io'.pointerTimer = NoTimer
        /\ io'.middle = NewEmulator
    BY <1>3, <1>4, <1>5 DEF Clear
  <2> QED
    BY <2>1, BlankTypes DEF Even, Shows
<1>15. ToRelease
  <2>1. worker.command \in Command \cup {ReleaseCommand}
    BY DEF InputInv, Types, Worker
  <2>2. worker.command = ReleaseCommand
    BY <2>1 DEF Command, KeyCommand, PointerCommand
  <2> QED
    BY <1>1, <2>2 DEF ToRelease, Releasing
<1>16. IoButtons' = BaseButtons /\ BasePlaces \subseteq IoPlaces' /\ KeyIds(io') = BaseKeys
  <2>1. BaseButtons = {} /\ BasePlaces = {0} /\ BaseKeys = {}
    BY <1>15 DEF BaseButtons, BasePlaces, BaseKeys
  <2>2. io'.lastButtons = {} /\ io'.middle.lastButtons = {}
    BY <1>3, <1>4, <1>5, BlankTypes
  <2>3. IoButtons' = {}
    BY <2>2 DEF IoButtons
  <2>4. 0 \in IoPlaces'
    BY Bounds DEF IoPlaces
  <2> QED
    BY <1>7, <2>1, <2>3, <2>4
<1>17. \A p \in Places : Ahead(io, p) => Ahead(io', p)
  <2>1. Reached(io') = Reached(s) /\ io'.middleTimer = NoTimer
    BY <1>3, <1>4, <1>5, <1>6
  <2> QED
    BY <1>2, <2>1 DEF Ahead
<1> QED
  BY <1>1, <1>5, <1>7, <1>9, <1>10, <1>11, <1>12, <1>13, <1>14, <1>16, <1>17, CommandDone

\* What the command in hand is, by its kind.
LEMMA HandType ==
  ASSUME InputInv, worker.pc = "send", worker.command.kind \in {"Key", "Pointer"}
  PROVE  /\ InHand /\ ~Releasing /\ worker.command.route = worker.revision
         /\ worker.command.route \in Routes
         /\ worker.command.kind = "Key" => worker.command \in KeyCommand /\ ~IsPointer(worker.command)
         /\ worker.command.kind = "Pointer" =>
              /\ worker.command \in PointerCommand /\ IsPointer(worker.command)
              /\ Ahead(io, worker.command.position)
<1>1. worker.command \in Command \cup {ReleaseCommand}
  BY DEF InputInv, Types, Worker
<1>2. worker.command # ReleaseCommand
  BY DEF ReleaseCommand
<1>3. InHand /\ ~Releasing
  BY <1>2 DEF InHand, Releasing
<1>4. worker.command.kind = "Key" => worker.command \in KeyCommand /\ ~IsPointer(worker.command)
  BY <1>1, <1>2 DEF Command, KeyCommand, PointerCommand, IsPointer
<1>5. worker.command.kind = "Pointer" => worker.command \in PointerCommand /\ IsPointer(worker.command)
  BY <1>1, <1>2 DEF Command, KeyCommand, PointerCommand, IsPointer
<1>6. worker.command.route \in Routes
  BY <1>1, <1>2 DEF Command, KeyCommand, PointerCommand
<1>7. worker.command.route = worker.revision
  BY <1>3 DEF InputInv, HandKnown
<1>8. worker.command.kind = "Pointer" => Ahead(io, worker.command.position)
  BY <1>3, <1>5 DEF InputInv, PathKnown
<1> QED
  BY <1>3, <1>4, <1>5, <1>6, <1>7, <1>8

\* A key: delayed motion goes first; without room for it, the worker gives up.
LEMMA SendKeyStep ==
  ASSUME InputInv, Send, worker.command.kind = "Key"
  PROVE  InputInv'
<1> DEFINE c == worker.command
           s == Barrier(io, worker.command)
           f == FlushPointer(s)
           pc == IF NoRoom(s, c) THEN "overflow" ELSE "drain"
<1>1. /\ worker.pc = "send" /\ UNCHANGED <<mailbox, told, link, waking, wake>>
      /\ io' = IF NoRoom(s, c) THEN f ELSE SendKey(f, c)
      /\ worker' = Sent(pc) /\ pc \in {"drain", "overflow"}
      /\ (pc = "drain" => ~NoRoom(s, c))
  BY DEF Send
<1>2. /\ s \in IO /\ KeysOK(s) /\ PointerOK(s, link.generation) /\ MiddleOK(s, link.generation)
      /\ s.middleRevision = worker.revision /\ worker.revision \in Routes /\ worker.revision # 0
      /\ s.held = io.held /\ s.server.barrier <= worker.revision
      /\ s.server.barrier <= mailbox.routingRevision /\ Len(s.held) <= HeldKeys
      /\ s.fed # 0 /\ worker.revision = mailbox.routingRevision => mailbox.emulateMiddle = TRUE
      /\ (\A p \in Places : Ahead(io, p) => Ahead(s, p))
  BY <1>1, BeforeSending
<1>3. link \in Link
  BY DEF InputInv, Types
<1>4. /\ InHand /\ ~Releasing /\ c.route = worker.revision /\ c \in KeyCommand /\ ~IsPointer(c)
  BY <1>1, HandType
<1>5. c.keyId \in Keys /\ c.symbol \in Symbols /\ c.down \in BOOLEAN /\ c.route \in Routes
  BY <1>4 DEF KeyCommand
<1>6. mailbox.releasePending = FALSE =>
        /\ RouteCurrent(Here(s)) /\ Even(s) /\ (mailbox.emulateMiddle = TRUE => Shows(s))
        /\ IoButtons = IF mailbox.emulateMiddle = TRUE THEN s.middle.lastButtons ELSE s.lastButtons
        /\ mailbox.emulateMiddle # TRUE => IoPlaces \subseteq {0, Reached(s)}
        /\ IoPlaces \subseteq Places
        /\ worker.revision = mailbox.routingRevision /\ Allowed
  BY <1>4, HandBefore
<1>16. f = FlushPointer(s)
  OBVIOUS
<1> HIDE DEF s, f
<1>7. /\ f \in IO /\ Kept(f, s) /\ PointerOK(f, link.generation) /\ MiddleOK(f, link.generation)
      /\ f.pointerTimer = NoTimer /\ Reached(f) <= Reached(s)
      /\ f.server = s.server \/ f.server.route = s.middleRevision
      /\ RouteCurrent(Here(s)) =>
           f.lastButtons = s.lastButtons /\ (Even(s) => Even(f)) /\ Reached(f) = Reached(s)
  <2>1. s \in IO /\ PointerOK(s, link.generation) /\ MiddleOK(s, link.generation) /\ s.middleRevision # 0
    BY <1>2
  <2> QED
    BY ONLY <1>3, <1>16, <2>1, Flushed
<1>8. /\ KeysOK(f) /\ Len(f.held) <= HeldKeys /\ f.server.barrier = s.server.barrier
      /\ f.middleRevision = worker.revision /\ f.fed = s.fed /\ f.middle = s.middle
      /\ f.middleTimer = s.middleTimer /\ f.held = s.held
      /\ KeyIds(f) = KeyIds(io)
  BY <1>2, <1>7 DEF Kept, KeysOK, KeyIds
<1>9. \A p \in Places : Ahead(io, p) => Ahead(f, p)
  <2>1. Reached(f) \in Int /\ Reached(s) \in Int /\ \A p \in Places : p \in Int
    BY <1>2, <1>7, ReachedType
  <2> QED
    BY <1>2, <1>7, <1>8, <2>1 DEF Ahead
<1>10. CASE NoRoom(s, c)
  <2>1. io' = f /\ worker' = Sent(pc) /\ pc = "overflow"
    BY <1>1, <1>10
  <2>2. io'.fed # 0 /\ OnRoute' => mailbox.emulateMiddle = TRUE
    BY <1>1, <1>2, <1>8, <2>1 DEF OnRoute
  <2> QED
    BY <1>1, <1>2, <1>7, <1>8, <1>9, <2>1, <2>2, CommandDone
<1>11. CASE ~NoRoom(s, c)
  <2>1. io' = SendKey(f, c) /\ pc = "drain" /\ ~NoRoom(f, c)
    BY <1>1, <1>8, <1>11 DEF NoRoom, Holding
  <2> HIDE DEF c, pc
  <2>2. /\ io' \in IO /\ KeysOK(io') /\ Len(io'.held) <= HeldKeys /\ Typed(io', f)
        /\ io'.server = f.server \/ io'.server.route = c.route
        /\ KeyIds(io') = KeysAfter(KeyIds(f), c)
    BY <1>5, <1>7, <1>8, <2>1, KeySent
  <2>3. /\ io'.pointerTimer = NoTimer /\ io'.middle = s.middle /\ io'.middleTimer = s.middleTimer
        /\ io'.middleRevision = worker.revision /\ io'.fed = s.fed
        /\ io'.server.barrier = s.server.barrier /\ io'.lastButtons = f.lastButtons
        /\ io'.server.buttons = f.server.buttons /\ io'.server.position = f.server.position
        /\ io'.buttons = f.buttons /\ io'.pointerPosition = f.pointerPosition
        /\ io'.pendingPointer = f.pendingPointer
    BY <1>7, <1>8, <2>2 DEF Typed
  <2>4. Reached(io') = Reached(f)
    BY <1>7, <2>3 DEF Reached
  <2>5. PointerOK(io', link.generation)
    <3>1. io'.server.route # 0 => io'.server.barrier <= io'.server.route
      <4>1. CASE io'.server.route = c.route
        BY <1>2, <1>4, <2>3, <4>1 DEF c
      <4>2. CASE io'.server = f.server
        BY <1>7, <4>2 DEF PointerOK
      <4> QED
        BY <2>2, <4>1, <4>2
    <3> QED
      BY <1>2, <1>7, <2>3, <3>1 DEF PointerOK
  <2>6. MiddleOK(io', link.generation)
    BY <1>7, <1>8, <2>3, <2>4 DEF MiddleOK
  <2>7. io'.fed # 0 /\ OnRoute' => mailbox.emulateMiddle = TRUE
    BY <1>1, <1>2, <2>3 DEF OnRoute
  <2>8. \A p \in Places : Ahead(io, p) => Ahead(io', p)
    BY <1>8, <1>9, <2>3, <2>4 DEF Ahead
  <2>9. ASSUME mailbox.releasePending = FALSE
        PROVE  /\ OnRoute' /\ Allowed /\ Even(io') /\ (mailbox.emulateMiddle = TRUE => Shows(io'))
               /\ IoButtons' = BaseButtons /\ BasePlaces \subseteq IoPlaces' /\ KeyIds(io') = BaseKeys
    <3>1. OnRoute' /\ Allowed
      BY <1>1, <1>6, <2>3, <2>9 DEF OnRoute
    <3>2. Even(io')
      BY <1>6, <1>7, <2>3, <2>9 DEF Even
    <3>3. mailbox.emulateMiddle = TRUE => Shows(io')
      BY <1>6, <1>7, <1>8, <2>3, <2>9 DEF Shows, Pending
    <3>4. ~ToRelease /\ BaseButtons = IoButtons /\ BasePlaces = IoPlaces
          /\ BaseKeys = KeysAfter(KeyIds(io), c)
      BY <1>4, <2>9 DEF ToRelease, BaseButtons, BasePlaces, BaseKeys, c, KeyCommand
    <3>5. IoButtons' = IoButtons
      BY <1>1, <1>6, <1>7, <2>3, <2>9, <3>1 DEF IoButtons
    <3>6. IoPlaces \subseteq IoPlaces'
      BY <1>1, <1>6, <1>7, <2>4, <2>9, <3>1 DEF IoPlaces
    <3> QED
      BY <1>8, <2>2, <3>1, <3>2, <3>3, <3>4, <3>5, <3>6
  <2> QED
    BY <1>1, <1>2, <2>1, <2>2, <2>3, <2>5, <2>6, <2>7, <2>8, <2>9, CommandDone
<1> QED
  BY <1>10, <1>11

\* A pointer command, through the emulator or not.
LEMMA SendPointerStep ==
  ASSUME InputInv, Send, worker.command.kind = "Pointer"
  PROVE  InputInv'
<1> DEFINE c == worker.command
           s == Barrier(io, worker.command)
<1>1. /\ worker.pc = "send" /\ UNCHANGED <<mailbox, told, link, waking, wake>>
      /\ io' = IF worker.emulate THEN SendEmulated(s, c) ELSE SendPointer(s, c)
      /\ worker' = Sent("drain")
  BY DEF Send
<1>2. /\ s \in IO /\ KeysOK(s) /\ PointerOK(s, link.generation) /\ MiddleOK(s, link.generation)
      /\ s.middleRevision = worker.revision /\ worker.revision \in Routes /\ worker.revision # 0
      /\ s.held = io.held
      /\ s.server.barrier <= mailbox.routingRevision /\ Len(s.held) <= HeldKeys
      /\ s.fed # 0 => worker.emulate = TRUE
      /\ (\A p \in Places : Ahead(io, p) => Ahead(s, p))
  BY <1>1, BeforeSending
<1>3. link \in Link /\ worker.emulate \in BOOLEAN /\ mailbox.emulateMiddle \in BOOLEAN
  BY MailboxType DEF InputInv, Types, Worker
<1>4. /\ InHand /\ ~Releasing /\ c.route = worker.revision /\ c \in PointerCommand /\ IsPointer(c)
      /\ Ahead(io, c.position)
  BY <1>1, HandType
<1>5. c.position \in Places /\ c.buttons \in Buttons /\ c.route \in Routes /\ c.kind = "Pointer"
  BY <1>4 DEF PointerCommand
<1>6. mailbox.releasePending = FALSE =>
        /\ Even(s) /\ worker.revision = mailbox.routingRevision /\ Allowed
        /\ worker.emulate = mailbox.emulateMiddle
  BY <1>4, <1>5, HandBefore
<1>7. Ahead(s, c.position) /\ Reached(s) <= c.position
  BY <1>2, <1>4, <1>5 DEF Ahead
<1>8. worker.revision = mailbox.routingRevision => worker.emulate = mailbox.emulateMiddle
  BY <1>4 DEF InputInv, HandKnown
<1>9. mailbox.releasePending = FALSE => /\ BaseButtons = c.buttons /\ BasePlaces = {c.position}
                                        /\ BaseKeys = KeyIds(io)
  BY <1>4, <1>5 DEF ToRelease, BaseButtons, BasePlaces, BaseKeys
<1> HIDE DEF s, c
<1>10. /\ io' \in IO /\ PointerOK(io', link.generation) /\ MiddleOK(io', link.generation)
       /\ io'.held = s.held /\ io'.middleRevision = worker.revision
       /\ io'.server.keys = s.server.keys /\ io'.server.barrier = s.server.barrier
       /\ Went(io', s, c.route) /\ Ahead(io', c.position)
       /\ io'.fed # 0 => worker.emulate = TRUE
       /\ worker.emulate = TRUE => Shows(io') /\ io'.middle.lastButtons = c.buttons
       /\ worker.emulate = FALSE => io'.lastButtons = c.buttons /\ Reached(io') = c.position
  <2>1. CASE worker.emulate = TRUE
    <3>1. io' = SendEmulated(s, c)
      BY <1>1, <2>1
    <3>2. /\ io' \in IO /\ PointerOK(io', link.generation) /\ MiddleOK(io', link.generation)
          /\ Fed(io', s) /\ Went(io', s, c.route)
          /\ io'.middle.lastButtons = c.buttons /\ Ahead(io', c.position)
      BY <1>2, <1>3, <1>4, <1>5, <1>7, <3>1, EmulatedSent DEF c
    <3> QED
      BY <1>2, <2>1, <3>2 DEF Fed
  <2>2. CASE worker.emulate = FALSE
    <3>1. io' = SendPointer(s, c)
      BY <1>1, <2>2
    <3>2. /\ io' \in IO /\ Kept(io', s) /\ PointerOK(io', link.generation) /\ Went(io', s, c.route)
          /\ io'.lastButtons = c.buttons /\ Reached(io') = c.position
      BY <1>2, <1>3, <1>4, <1>5, <1>7, <3>1, PointerSent DEF c
    <3>3. s.fed = 0 /\ s.middleTimer = NoTimer
      BY <1>2, <2>2 DEF MiddleOK
    <3>4. MiddleOK(io', link.generation)
      BY <1>2, <3>2, <3>3 DEF Kept, MiddleOK
    <3>5. Ahead(io', c.position)
      <4>1. c.position <= c.position
        BY <1>5, Bounds
      <4> QED
        BY <3>2, <3>3, <4>1 DEF Ahead, Kept
    <3> QED
      BY <1>2, <2>2, <3>2, <3>3, <3>4, <3>5 DEF Kept
  <2> QED
    BY <1>3, <2>1, <2>2
<1>11. KeysOK(io') /\ KeyIds(io') = KeyIds(io) /\ Len(io'.held) <= HeldKeys
  BY <1>2, <1>10 DEF KeysOK, KeyIds
<1>12. io'.server.barrier <= mailbox.routingRevision
  BY <1>2, <1>10
<1>13. io'.fed # 0 /\ OnRoute' => mailbox.emulateMiddle = TRUE
  BY <1>1, <1>8, <1>10 DEF OnRoute
<1>14. \A p \in Places :
         Ahead(io, p) /\ (InHand /\ IsPointer(worker.command) => worker.command.position <= p)
           => Ahead(io', p)
  <2> SUFFICES ASSUME NEW p \in Places, c.position <= p
               PROVE  Ahead(io', p)
    BY <1>4 DEF c
  <2>1. /\ Reached(io') \in Int /\ p \in Int /\ c.position \in Int /\ io'.middle.lastPosition \in Int
    BY <1>5, <1>10, ReachedType DEF IO, Emulator
  <2> QED
    BY <1>10, <2>1 DEF Ahead
<1>15. ASSUME mailbox.releasePending = FALSE
       PROVE  /\ OnRoute' /\ Allowed /\ Even(io') /\ (mailbox.emulateMiddle = TRUE => Shows(io'))
              /\ IoButtons' = BaseButtons /\ BasePlaces \subseteq IoPlaces' /\ KeyIds(io') = BaseKeys
  <2>1. OnRoute' /\ Allowed /\ worker.emulate = mailbox.emulateMiddle
    BY <1>1, <1>6, <1>10, <1>15 DEF OnRoute
  <2>2. Even(io')
    BY <1>6, <1>10, <1>15 DEF Went
  <2>3. mailbox.emulateMiddle = TRUE => Shows(io')
    BY <1>10, <2>1
  <2>4. IoButtons' = c.buttons
    BY <1>1, <1>3, <1>10, <2>1 DEF IoButtons
  <2>5. c.position \in IoPlaces'
    BY <1>1, <1>3, <1>5, <1>10, <2>1 DEF IoPlaces
  <2> QED
    BY <1>9, <1>11, <1>15, <2>1, <2>2, <2>3, <2>4, <2>5
<1> QED
  BY <1>1, <1>10, <1>11, <1>12, <1>13, <1>14, <1>15, CommandDone

\* sendInput(), by the kind of the command in hand.
LEMMA SendStep ==
  ASSUME InputInv, Send
  PROVE  InputInv'
<1>1. worker.command.kind \in {"ReleaseAll", "Key", "Pointer"}
  BY DEF Send
<1> QED
  BY <1>1, SendRelease, SendKeyStep, SendPointerStep

\* drainInput(), when a key found no room: everything is released at once, and the release
\* that the mailbox keeps finds nothing pressed.
LEMMA HeldOverflowStep ==
  ASSUME InputInv, HeldOverflow
  PROVE  InputInv'
<1> DEFINE s == ResetMiddle(ResetPointer(io))
           u == ReleaseInput(s)
           next == mailbox.routingRevision + 1
           none == <<>>
<1>1. /\ Types /\ IoKnown /\ LinkKnown /\ QueueKnown /\ HandKnown /\ RoutesKnown /\ PressKnown
      /\ PathKnown /\ Accounted
  BY DEF InputInv
<1>2. /\ mailbox \in Mailbox /\ io \in IO /\ worker \in Worker /\ told \in Told
      /\ mailbox.routingRevision \in 1 .. MaxRevision
  BY <1>1, MailboxType DEF Types
<1>3. /\ worker.pc = "overflow" /\ MayReroute /\ mailbox' = Overflowed(mailbox)
      /\ told' = Forgotten(told)
      /\ io' = [u EXCEPT !.server.route = 0, !.server.barrier = Overflowed(mailbox).routingRevision]
      /\ worker' = [worker EXCEPT !.pc = "work"]
      /\ link' = link /\ waking' = waking /\ wake' = wake
  BY DEF HeldOverflow
<1>4. /\ next \in 1 .. MaxRevision /\ next \in Routes /\ next # 0 /\ next \in Int
  BY <1>2, <1>3, Bounds DEF MayReroute, Routes
<1>5. none \in Seq(Command) /\ Len(none) = 0 /\ 1 .. Len(none) = {} /\ none = <<>>
  OBVIOUS
<1>6. /\ mailbox' = [mailbox EXCEPT !.routingRevision = next, !.queue = none, !.buttons = {},
                                    !.releasePending = mailbox.connected, !.focused = FALSE]
      /\ Overflowed(mailbox).routingRevision = next
  BY <1>2, <1>3 DEF Overflowed, Released, Rerouted, Mailbox
<1>7. link.ready = TRUE /\ mailbox.connected = TRUE
  BY <1>1, <1>3 DEF LinkKnown
<1>8. /\ Reset(s, io) /\ s.middleRevision = 0 /\ PointerOK(s, link.generation)
      /\ MiddleOK(s, link.generation)
  BY <1>1, <1>2, BothReset DEF IoKnown
<1> HIDE DEF s, none
<1>9. /\ s \in IO /\ s.server = io.server /\ s.held = io.held /\ s.pointerTimer = NoTimer
      /\ s.lastButtons = {} /\ s.middleTimer = NoTimer /\ s.fed = 0 /\ s.middle = NewEmulator
      /\ Reached(s) <= Reached(io) /\ KeysOK(s)
  BY <1>1, <1>8 DEF Reset, IoKnown, KeysOK
<1>10. /\ u \in IO /\ KeysOK(u) /\ PointerOK(u, link.generation) /\ MiddleOK(u, link.generation)
       /\ u.held = <<>> /\ u.buttons = {} /\ Clear(u) /\ Len(u.held) = 0
       /\ Reached(u) = Reached(s)
       /\ u.pointerTimer = NoTimer /\ u.lastButtons = {}
       /\ u.middle = NewEmulator /\ u.middleTimer = NoTimer
       /\ u.middleRevision = 0 /\ u.fed = 0
  BY <1>8, <1>9, InputReleased
<1> HIDE DEF u, next
<1>11. /\ io' \in IO /\ io'.held = u.held /\ io'.buttons = u.buttons /\ io'.lastButtons = u.lastButtons
       /\ io'.pointerTimer = u.pointerTimer /\ io'.pendingPointer = u.pendingPointer
       /\ io'.pointerPosition = u.pointerPosition
       /\ io'.middle = u.middle /\ io'.middleTimer = u.middleTimer /\ io'.middleRevision = u.middleRevision
       /\ io'.fed = u.fed /\ io'.server.keys = u.server.keys /\ io'.server.buttons = u.server.buttons
       /\ io'.server.position = u.server.position /\ io'.server.route = 0
       /\ io'.server.barrier = next
  BY <1>3, <1>4, <1>6, <1>10, Bounds DEF IO, Server
<1>12. Reached(io') = Reached(u)
  BY <1>11 DEF Reached
<1>13. KeysOK(io') /\ Blank' /\ io'.pointerTimer = NoTimer /\ io'.middleTimer = NoTimer
  BY <1>10, <1>11 DEF KeysOK, Clear, Blank
<1>14. PointerOK(io', link.generation) /\ MiddleOK(io', link.generation)
  BY <1>10, <1>11, <1>12 DEF PointerOK, MiddleOK
<1>15. /\ mailbox' \in Mailbox /\ mailbox'.generation = mailbox.generation
       /\ mailbox'.queue = none /\ mailbox'.buttons = {} /\ mailbox'.releasePending = TRUE
       /\ mailbox'.routingRevision = next /\ mailbox'.connected = TRUE /\ mailbox'.focused = FALSE
  BY ONLY <1>2, <1>4, <1>5, <1>6, <1>7, Bounds DEF Mailbox
<1>16. told' \in Told /\ told'.path = told.path /\ told'.trail = 0 /\ told'.down = {}
  BY <1>2, <1>3, Bounds DEF Told, Forgotten, NothingTold
<1>17. worker' \in Worker /\ worker'.pc = "work"
  BY <1>2, <1>3 DEF Worker
<1>18. Types'
  <2>1. Len(io'.held) <= HeldKeys /\ Len(mailbox'.queue) <= Capacity
    BY <1>5, <1>10, <1>11, <1>15, Bounds
  <2> QED
    BY <1>1, <1>3, <1>11, <1>15, <1>16, <1>17, <2>1 DEF Types
<1>19. IoKnown'
  BY <1>3, <1>13, <1>14 DEF IoKnown
<1>20. LinkKnown'
  BY <1>1, <1>3, <1>7, <1>15, <1>17 DEF LinkKnown
<1>21. QueueKnown'
  BY <1>5, <1>15, <1>16 DEF QueueKnown, Untold
<1>22. ~InHand' /\ ToRelease' /\ ~OnRoute'
  BY <1>4, <1>10, <1>11, <1>15, <1>17 DEF InHand, ToRelease, OnRoute
<1>23. HandKnown' /\ PressKnown'
  BY <1>15, <1>17, <1>22 DEF HandKnown, PressKnown
<1>24. RoutesKnown'
  <2>1. 0 <= next /\ next <= next
    BY <1>4
  <2>2. io'.pointerTimer.revision <= next
    BY <1>13, <2>1, BlankTypes
  <2> QED
    BY <1>10, <1>11, <1>13, <1>15, <1>17, <1>22, <2>1, <2>2 DEF RoutesKnown
<1>25. PathKnown'
  <2>1. Ahead(io, told.path)
    BY <1>1, <1>3 DEF PathKnown
  <2>2. Reached(io) \in Int /\ Reached(s) \in Int /\ told.path \in Int
    BY <1>2, <1>9, ReachedType DEF Told
  <2>3. Ahead(io', told.path)
    BY <1>9, <1>10, <1>12, <1>13, <2>1, <2>2 DEF Ahead
  <2> QED
    BY <1>5, <1>15, <1>16, <1>22, <2>3 DEF PathKnown, AheadOf, Ordered
<1>26. Accounted'
  <2>1. BaseButtons' = {} /\ BasePlaces' = {0} /\ BaseKeys' = {}
    BY <1>22 DEF BaseButtons, BasePlaces, BaseKeys
  <2>2. ButtonsTold(<<>>, {}, {}) /\ PlaceTold(<<>>, {0}, 0) /\ KeysTold(<<>>, {}, {})
    BY QueueEmpty
  <2> QED
    BY <1>5, <1>15, <1>16, <1>22, <2>1, <2>2 DEF Accounted
<1>27. Budgeted'
  BY <1>5, <1>13, <1>15, <1>17 DEF Budgeted
<1> QED
  BY <1>18, <1>19, <1>20, <1>21, <1>23, <1>24, <1>25, <1>26, <1>27 DEF InputInv

\* A timer has fired: only the input state of the worker changes.
LEMMA TimerFired ==
  ASSUME InputInv, worker.pc = "work", UNCHANGED <<mailbox, told, worker, link, waking, wake>>,
         io.pointerTimer # NoTimer \/ io.middleTimer # NoTimer,
         io' \in IO, PointerOK(io', link.generation), MiddleOK(io', link.generation),
         io'.held = io.held, io'.server.keys = io.server.keys, io'.server.barrier = io.server.barrier,
         io'.middleRevision \in {0, io.middleRevision},
         io'.fed # 0 /\ OnRoute' => mailbox.emulateMiddle = TRUE,
         io'.pointerTimer.revision <= mailbox.routingRevision,
         io'.pointerTimer # NoTimer /\ io'.pointerTimer.revision = mailbox.routingRevision /\ Allowed =>
           io'.middleRevision # 0,
         mailbox.releasePending = FALSE =>
           /\ ~(OnRoute' /\ Allowed) => Clear(io')
           /\ OnRoute' => Even(io') /\ (mailbox.emulateMiddle = TRUE => Shows(io'))
           /\ IoButtons' = IoButtons
           /\ IoPlaces \subseteq IoPlaces' \/ ~Allowed,
         \A p \in Places : Ahead(io, p) => Ahead(io', p)
  PROVE  InputInv'
<1>1. /\ Types /\ IoKnown /\ LinkKnown /\ QueueKnown /\ HandKnown /\ RoutesKnown /\ PressKnown
      /\ PathKnown /\ Accounted /\ Budgeted
  BY DEF InputInv
<1>2. /\ mailbox' = mailbox /\ told' = told /\ worker' = worker /\ link' = link
      /\ waking' = waking /\ wake' = wake
      /\ mailbox \in Mailbox /\ told \in Told /\ mailbox.queue \in Seq(Command)
      /\ link \in Link /\ link.ready \in BOOLEAN /\ mailbox.releasePending \in BOOLEAN
      /\ mailbox.routingRevision \in 1 .. MaxRevision
  BY <1>1, MailboxType DEF Types, Link
<1>3. Types'
  BY <1>1, <1>2 DEF Types
<1>4. IoKnown'
  BY <1>1, <1>2 DEF IoKnown, KeysOK
<1>5. link.ready = TRUE
  BY <1>1, <1>2 DEF LinkKnown
<1>6. LinkKnown'
  BY <1>1, <1>2, <1>5 DEF LinkKnown
<1>7. /\ ~InHand /\ ~InHand' /\ ~Releasing /\ ~Releasing' /\ Allowed' = Allowed
      /\ ToRelease' = ToRelease /\ (ToRelease <=> mailbox.releasePending = TRUE)
  BY <1>2 DEF InHand, Allowed, ToRelease, Releasing
<1>8. QueueKnown'
  BY <1>1, <1>2, <1>7 DEF QueueKnown, Untold
<1>9. HandKnown'
  BY <1>2, <1>7 DEF HandKnown
<1>10. RoutesKnown'
  <2>1. io'.middleRevision <= mailbox.routingRevision
    BY <1>1, <1>2, Bounds DEF RoutesKnown
  <2> QED
    BY <1>1, <1>2, <1>7, <2>1 DEF RoutesKnown
<1>11. PressKnown'
  BY <1>2, <1>7 DEF PressKnown
<1>12. PathKnown'
  <2>1. /\ Ahead(io, told.path) /\ AheadOf(mailbox.queue, io) /\ Ordered(mailbox.queue, told.path)
    BY <1>1 DEF PathKnown
  <2>2. Ahead(io', told.path)
    BY <1>2, <2>1 DEF Told
  <2>3. AheadOf(mailbox.queue, io')
    <3> SUFFICES ASSUME NEW i \in 1 .. Len(mailbox.queue), IsPointer(mailbox.queue[i])
                 PROVE  Ahead(io', mailbox.queue[i].position)
      BY DEF AheadOf
    <3>1. mailbox.queue[i] \in Command
      BY <1>2
    <3>2. mailbox.queue[i].position \in Places
      BY <3>1 DEF Command, KeyCommand, PointerCommand, IsPointer
    <3> QED
      BY <2>1, <3>2 DEF AheadOf
  <2> QED
    BY <1>2, <1>7, <2>1, <2>2, <2>3 DEF PathKnown
<1>13. Accounted'
  <2>1. /\ ButtonsTold(mailbox.queue, BaseButtons, mailbox.buttons)
        /\ PlaceTold(mailbox.queue, BasePlaces, told.trail)
        /\ KeysTold(mailbox.queue, BaseKeys, told.down)
    BY <1>1 DEF Accounted
  <2>2. KeyIds(io') = KeyIds(io)
    BY DEF KeyIds
  <2>3. BaseKeys' = BaseKeys
    BY <1>7, <2>2 DEF BaseKeys
  <2>4. CASE mailbox.releasePending = TRUE
    <3>1. BaseButtons' = BaseButtons /\ BasePlaces' = BasePlaces
      BY <1>7, <2>4 DEF BaseButtons, BasePlaces
    <3> QED
      BY <1>2, <1>7, <2>1, <2>3, <3>1 DEF Accounted
  <2>5. CASE mailbox.releasePending = FALSE
    <3>1. BaseButtons' = BaseButtons /\ BasePlaces' = IoPlaces' /\ BasePlaces = IoPlaces
      BY <1>7, <2>5 DEF BaseButtons, BasePlaces
    <3>2. PlaceTold(mailbox.queue, BasePlaces', told.trail)
      <4>1. CASE IoPlaces \subseteq IoPlaces'
        <5>1. \A p \in BasePlaces : p \in BasePlaces'
          BY <3>1, <4>1
        <5> QED
          BY ONLY <2>1, <5>1, PlacesWiden
      <4>2. CASE ~Allowed
        <5>1. mailbox.queue = <<>> /\ told.trail = 0
          BY <1>1, <4>2 DEF QueueKnown, Untold
        <5>2. 0 \in IoPlaces'
          BY Bounds DEF IoPlaces
        <5>3. PlaceTold(<<>>, IoPlaces', 0)
          BY <5>2, QueueEmpty
        <5> QED
          BY <3>1, <5>1, <5>3
      <4> QED
        BY <2>5, <4>1, <4>2
    <3> QED
      BY <1>2, <1>7, <2>1, <2>3, <3>1, <3>2 DEF Accounted
  <2> QED
    BY <1>2, <2>4, <2>5
<1>14. Budgeted'
  <2>1. ~(link.ready = TRUE /\ waking = 0 /\ wake = FALSE /\ mailbox.releasePending = TRUE)
    BY <1>1 DEF Budgeted
  <2> QED
    BY <1>1, <1>2, <1>5, <2>1 DEF Budgeted
<1> QED
  BY <1>3, <1>4, <1>6, <1>8, <1>9, <1>10, <1>11, <1>12, <1>13, <1>14 DEF InputInv

\* With input allowed, a timer of the present route is current.
LEMMA TimerCurrent ==
  ASSUME InputInv, io.pointerTimer # NoTimer \/ io.middleTimer # NoTimer, NEW timer,
         timer.generation = link.generation, timer.revision = mailbox.routingRevision
  PROVE  RouteCurrent(timer) <=> Allowed
<1>1. link \in Link /\ mailbox \in Mailbox
  BY DEF InputInv, Types
<1>2. /\ link.ready \in BOOLEAN /\ mailbox.focused \in BOOLEAN /\ mailbox.viewOnly \in BOOLEAN
  BY <1>1, MailboxType DEF Link
<1>3. link.ready = TRUE /\ mailbox.connected = TRUE /\ mailbox.generation = link.generation
  BY <1>2 DEF InputInv, LinkKnown
<1> QED
  BY <1>2, <1>3 DEF RouteCurrent, Allowed

\* The pointer timer: delayed motion is written under its route, or dropped.
LEMMA PointerTimerStep ==
  ASSUME InputInv, PointerTimer
  PROVE  InputInv'
<1>1. /\ worker.pc = "work" /\ io.pointerTimer # NoTimer /\ io' = PointerDue(io)
      /\ UNCHANGED <<mailbox, told, worker, link, waking, wake>>
  BY DEF PointerTimer
<1>2. /\ io \in IO /\ KeysOK(io) /\ PointerOK(io, link.generation) /\ MiddleOK(io, link.generation)
      /\ mailbox \in Mailbox /\ Settled
  BY <1>1 DEF InputInv, Types, IoKnown, Settled
<1>3. /\ mailbox' = mailbox /\ 0 <= mailbox.routingRevision /\ mailbox.routingRevision # 0
  BY <1>1, <1>2, MailboxType, Bounds
<1>4. io.pointerTimer.generation = link.generation
      /\ io.middleRevision \in {0, io.pointerTimer.revision}
  BY <1>1, <1>2 DEF PointerOK
<1>5. io.fed # 0 /\ OnRoute => mailbox.emulateMiddle = TRUE
  BY DEF InputInv, RoutesKnown
<1>6. CASE RouteCurrent(io.pointerTimer)
  <2>1. /\ io.pointerTimer.revision = mailbox.routingRevision /\ Allowed
    <3>1. io.pointerTimer.revision = mailbox.routingRevision
      BY <1>6 DEF RouteCurrent
    <3> QED
      BY <1>1, <1>4, <1>6, <3>1, TimerCurrent
  <2>2. OnRoute
    BY <1>1, <1>4, <2>1 DEF InputInv, RoutesKnown, OnRoute
  <2>3. io' = WritePointer([io EXCEPT !.pointerTimer = NoTimer], io.pendingPointer)
    BY <1>1, <1>6 DEF PointerDue
  <2>4. /\ io' \in IO /\ Kept(io', io) /\ PointerOK(io', link.generation)
        /\ MiddleOK(io', link.generation) /\ io'.pointerTimer = NoTimer
        /\ io'.lastButtons = io.lastButtons /\ Went(io', io, io.pointerTimer.revision)
        /\ Reached(io') = Reached(io)
    BY <1>1, <1>2, <2>3, DelayedWritten
  <2>5. /\ io'.held = io.held /\ io'.server.keys = io.server.keys
        /\ io'.server.barrier = io.server.barrier /\ io'.middleRevision = io.middleRevision
        /\ io'.fed = io.fed /\ io'.middle = io.middle /\ io'.middleTimer = io.middleTimer
        /\ io'.pointerTimer.revision <= mailbox.routingRevision
    BY <1>3, <2>4, BlankTypes DEF Kept
  <2>6. OnRoute'
    BY <1>3, <2>2, <2>5 DEF OnRoute
  <2>7. mailbox.releasePending = FALSE => Even(io') /\ (mailbox.emulateMiddle = TRUE => Shows(io'))
    <3>1. mailbox.releasePending = FALSE => Even(io) /\ (mailbox.emulateMiddle = TRUE => Shows(io))
      BY <1>2, <2>2 DEF InputInv, PressKnown
    <3> QED
      BY <2>4, <2>5, <3>1 DEF Went, Shows
  <2>8. IoButtons' = IoButtons /\ IoPlaces' = IoPlaces
    BY <1>3, <2>2, <2>4, <2>5, <2>6 DEF IoButtons, IoPlaces
  <2>9. \A p \in Places : Ahead(io, p) => Ahead(io', p)
    BY <2>4, <2>5 DEF Ahead
  <2> QED
    BY <1>1, <1>5, <2>1, <2>2, <2>4, <2>5, <2>6, <2>7, <2>8, <2>9, TimerFired
<1>7. CASE ~RouteCurrent(io.pointerTimer)
  <2>1. io' = ResetPointer(io)
    BY <1>1, <1>7 DEF PointerDue
  <2>2. /\ io' \in IO /\ Kept(io', io) /\ PointerOK(io', link.generation)
        /\ MiddleOK(io', link.generation) /\ io'.server = io.server
        /\ io'.pointerTimer = NoTimer /\ io'.lastButtons = {} /\ Reached(io') <= Reached(io)
    BY <1>2, <2>1, DelayedDropped
  <2>3. /\ io'.held = io.held /\ io'.server.keys = io.server.keys
        /\ io'.server.barrier = io.server.barrier /\ io'.middleRevision = io.middleRevision
        /\ io'.fed = io.fed /\ io'.middle = io.middle /\ io'.middleTimer = io.middleTimer
        /\ io'.pointerTimer.revision <= mailbox.routingRevision
    BY <1>3, <2>2, BlankTypes DEF Kept
  <2>4. OnRoute' = OnRoute
    BY <1>3, <2>3 DEF OnRoute
  <2>5. OnRoute => ~Allowed
    <3>1. OnRoute => io.pointerTimer.revision = mailbox.routingRevision
      BY <1>3, <1>4 DEF OnRoute
    <3> QED
      BY <1>1, <1>4, <1>7, <3>1, TimerCurrent
  <2>6. ASSUME mailbox.releasePending = FALSE
        PROVE  /\ Clear(io') /\ (OnRoute' => Even(io') /\ (mailbox.emulateMiddle = TRUE => Shows(io')))
               /\ IoButtons' = IoButtons /\ (IoPlaces \subseteq IoPlaces' \/ ~Allowed)
    <3>1. Clear(io)
      BY <1>2, <2>5, <2>6 DEF InputInv, PressKnown
    <3>2. Clear(io') /\ Even(io')
      BY <2>2, <3>1 DEF Clear, Even
    <3>3. OnRoute => io.lastButtons = {} /\ (mailbox.emulateMiddle = TRUE => Shows(io))
      BY <1>2, <2>6, <3>1 DEF InputInv, PressKnown, Even, Clear
    <3>4. OnRoute /\ mailbox.emulateMiddle = TRUE => Shows(io')
      BY <2>2, <2>3, <3>3 DEF Shows
    <3>5. IoButtons' = IoButtons
      BY <1>3, <2>2, <2>3, <2>4, <3>3 DEF IoButtons
    <3>6. ~OnRoute => IoPlaces' = IoPlaces
      BY <2>4 DEF IoPlaces
    <3> QED
      BY <2>4, <2>5, <3>2, <3>4, <3>5, <3>6
  <2>7. \A p \in Places : Ahead(io, p) => Ahead(io', p)
    <3>1. Reached(io') \in Int /\ Reached(io) \in Int /\ \A p \in Places : p \in Int
      BY <1>2, <2>2, ReachedType
    <3> QED
      BY <2>2, <2>3, <3>1 DEF Ahead
  <2> QED
    BY <1>1, <1>5, <2>2, <2>3, <2>4, <2>6, <2>7, TimerFired
<1> QED
  BY <1>6, <1>7

\* The middle-button timer: what the emulator held back is sent on its route, or dropped.
LEMMA MiddleTimerStep ==
  ASSUME InputInv, MiddleTimer
  PROVE  InputInv'
<1> DEFINE batch == Expired(io.middle)
           s == [io EXCEPT !.middleTimer = NoTimer]
<1>1. /\ worker.pc = "work" /\ io.middleTimer # NoTimer
      /\ UNCHANGED <<mailbox, told, worker, link, waking, wake>>
      /\ io' = IF RouteCurrent(io.middleTimer) /\ mailbox.emulateMiddle
               THEN SendBatch([s EXCEPT !.middle = batch.emulator], batch.events)
               ELSE ResetMiddle(s)
  BY DEF MiddleTimer
<1>2. /\ io \in IO /\ KeysOK(io) /\ PointerOK(io, link.generation) /\ MiddleOK(io, link.generation)
      /\ mailbox \in Mailbox /\ link \in Link /\ Settled
  BY <1>1 DEF InputInv, Types, IoKnown, Settled
<1>3. /\ mailbox' = mailbox /\ 0 <= mailbox.routingRevision /\ mailbox.routingRevision # 0
      /\ mailbox.emulateMiddle \in BOOLEAN
  BY <1>1, <1>2, MailboxType, Bounds
<1>4. /\ io.middleTimer.generation = link.generation /\ io.middleTimer.revision = io.middleRevision
      /\ io.fed # 0 /\ io.fed = io.middleRevision
  BY <1>1, <1>2 DEF MiddleOK
<1>5. OnRoute => mailbox.emulateMiddle = TRUE
  BY <1>4 DEF InputInv, RoutesKnown
<1>6. OnRoute /\ Allowed <=> RouteCurrent(io.middleTimer)
  <2>1. OnRoute <=> io.middleTimer.revision = mailbox.routingRevision
    BY <1>4 DEF OnRoute
  <2>2. RouteCurrent(io.middleTimer) => io.middleTimer.revision = mailbox.routingRevision
    BY DEF RouteCurrent
  <2> QED
    BY <1>1, <1>4, <2>1, <2>2, TimerCurrent
<1>7. /\ io.pointerTimer.revision <= mailbox.routingRevision
      /\ io.pointerTimer # NoTimer => io.pointerTimer.revision = io.middleRevision
  BY <1>2, <1>4 DEF InputInv, RoutesKnown, PointerOK
<1>8. CASE RouteCurrent(io.middleTimer)
  <2>1. OnRoute /\ Allowed /\ mailbox.emulateMiddle = TRUE /\ io.middleRevision = mailbox.routingRevision
    BY <1>5, <1>6, <1>8 DEF OnRoute
  <2>2. io' = SendBatch([s EXCEPT !.middle = batch.emulator], batch.events)
    BY <1>1, <1>8, <2>1
  <2>3. [s EXCEPT !.middle = batch.emulator]
          = [io EXCEPT !.middleTimer = NoTimer, !.middle = batch.emulator]
    BY <1>2 DEF IO
  <2> HIDE DEF batch, s
  <2>4. io' = SendBatch([io EXCEPT !.middleTimer = NoTimer, !.middle = batch.emulator], batch.events)
    BY <2>2, <2>3
  <2>5. batch = Expired(io.middle)
    BY DEF batch
  <2>6. /\ io' \in IO /\ PointerOK(io', link.generation) /\ MiddleOK(io', link.generation)
        /\ Fed(io', io) /\ Went(io', io, io.middleRevision)
        /\ io'.middle.lastButtons = io.middle.lastButtons /\ io'.middleTimer = NoTimer
        /\ Reached(io') <= io.middle.lastPosition
    BY <1>1, <1>2, <2>4, <2>5, ExpirySent
  <2>7. /\ io'.held = io.held /\ io'.server.keys = io.server.keys
        /\ io'.server.barrier = io.server.barrier /\ io'.middleRevision = io.middleRevision
        /\ Shows(io')
    BY <2>6 DEF Fed
  <2>8. io'.pointerTimer.revision <= mailbox.routingRevision
    <3>1. io'.pointerTimer # NoTimer => io'.pointerTimer.revision = mailbox.routingRevision
      BY <1>3, <2>1, <2>6, <2>7 DEF PointerOK
    <3>2. mailbox.routingRevision <= mailbox.routingRevision
      BY <1>2, MailboxType, Bounds
    <3> QED
      BY <1>3, <3>1, <3>2, BlankTypes
  <2>9. OnRoute'
    BY <1>3, <2>1, <2>7 DEF OnRoute
  <2>10. mailbox.releasePending = FALSE => Even(io')
    <3>1. mailbox.releasePending = FALSE => Even(io)
      BY <1>2, <2>1 DEF InputInv, PressKnown
    <3> QED
      BY <2>6, <3>1 DEF Went
  <2>11. IoButtons' = IoButtons /\ IoPlaces' = IoPlaces
    BY <1>3, <2>1, <2>6, <2>9 DEF IoButtons, IoPlaces
  <2>12. \A p \in Places : Ahead(io, p) => Ahead(io', p)
    <3>1. Reached(io') \in Int /\ io.middle.lastPosition \in Int /\ \A p \in Places : p \in Int
      BY <1>2, <2>6, ReachedType DEF IO, Emulator
    <3> QED
      BY <1>1, <2>6, <3>1 DEF Ahead
  <2> QED
    BY <1>1, <1>3, <2>1, <2>6, <2>7, <2>8, <2>9, <2>10, <2>11, <2>12, TimerFired
<1>9. CASE ~RouteCurrent(io.middleTimer)
  <2>1. io' = ResetMiddle(s)
    BY <1>1, <1>9
  <2>2. /\ s \in IO /\ s.server = io.server /\ s.held = io.held /\ s.pointerTimer = io.pointerTimer
        /\ s.pendingPointer = io.pendingPointer /\ s.lastButtons = io.lastButtons
        /\ s.buttons = io.buttons /\ s.pointerPosition = io.pointerPosition
        /\ s.middleRevision = io.middleRevision
    BY <1>2, BlankTypes DEF IO
  <2> HIDE DEF batch, s
  <2>3. PointerOK(s, link.generation) /\ Reached(s) = Reached(io)
    BY <1>2, <2>2 DEF PointerOK, Reached
  <2>4. /\ io' \in IO /\ io'.server = s.server /\ io'.held = s.held
        /\ io'.pointerTimer = s.pointerTimer /\ io'.lastButtons = s.lastButtons
        /\ io'.middleTimer = NoTimer /\ io'.middleRevision = 0 /\ io'.fed = 0
        /\ Reached(io') = Reached(s)
    BY <2>1, <2>2, MiddleReset
  <2>5. PointerOK(io', link.generation) /\ MiddleOK(io', link.generation)
    BY <2>1, <2>2, <2>3, MiddleReset
  <2>6. ~OnRoute'
    BY <1>3, <2>4 DEF OnRoute
  <2>7. ~(OnRoute /\ Allowed)
    BY <1>6, <1>9
  <2>8. ~(/\ io'.pointerTimer # NoTimer /\ io'.pointerTimer.revision = mailbox.routingRevision
          /\ Allowed)
    BY <1>7, <2>2, <2>4, <2>7 DEF OnRoute
  <2>9. ASSUME mailbox.releasePending = FALSE
        PROVE  /\ Clear(io') /\ IoButtons' = IoButtons /\ (IoPlaces \subseteq IoPlaces' \/ ~Allowed)
    <3>1. Clear(io)
      BY <1>2, <2>7, <2>9 DEF InputInv, PressKnown
    <3>2. Clear(io')
      BY <2>2, <2>4, <3>1 DEF Clear
    <3>3. IoButtons' = {}
      BY <2>6 DEF IoButtons
    <3>4. CASE OnRoute
      <4>1. mailbox.queue = <<>> /\ mailbox.buttons = {} /\ ~Allowed
        BY <2>7, <3>4 DEF InputInv, QueueKnown, Untold
      <4>2. BaseButtons = IoButtons
        BY <1>1, <2>9 DEF BaseButtons, ToRelease, Releasing, InHand
      <4>3. ButtonsTold(mailbox.queue, BaseButtons, mailbox.buttons)
        BY <1>1 DEF InputInv, Accounted
      <4>4. IoButtons = {}
        BY <4>1, <4>2, <4>3, QueueEmpty
      <4> QED
        BY <3>2, <3>3, <4>1, <4>4
    <3>5. CASE ~OnRoute
      <4>1. IoButtons = {} /\ IoPlaces = {0} /\ IoPlaces' = {0}
        BY <2>6, <3>5 DEF IoButtons, IoPlaces
      <4> QED
        BY <3>2, <3>3, <4>1
    <3> QED
      BY <3>4, <3>5
  <2>10. \A p \in Places : Ahead(io, p) => Ahead(io', p)
    BY <2>3, <2>4 DEF Ahead
  <2> QED
    BY <1>1, <1>7, <2>2, <2>4, <2>5, <2>6, <2>8, <2>9, <2>10, TimerFired
<1> QED
  BY <1>8, <1>9

\* Every step of the worker.
LEMMA WorkerInput ==
  ASSUME InputInv, WorkerStep
  PROVE  InputInv'
<1>1. ASSUME NEW g \in 1 .. MaxGeneration, PrepareAttempt(g) PROVE InputInv'
  BY <1>1, PrepareAttemptStep
<1>2. CASE Start
  BY <1>2, StartStep
<1>3. CASE Take
  BY <1>3, TakeStep
<1>4. CASE Drained
  BY <1>4, DrainedStep
<1>5. CASE Send
  BY <1>5, SendStep
<1>6. CASE HeldOverflow
  BY <1>6, HeldOverflowStep
<1>7. CASE PointerTimer
  BY <1>7, PointerTimerStep
<1>8. CASE MiddleTimer
  BY <1>8, MiddleTimerStep
<1>9. CASE InitDone
  BY <1>9, InitDoneStep
<1>10. CASE Sleep
  BY <1>10, SleepStep
<1>11. CASE WaitReturns
  BY <1>11, WaitReturnsStep
<1>12. CASE Finish
  BY <1>12, FinishStep
<1> QED
  BY <1>1, <1>2, <1>3, <1>4, <1>5, <1>6, <1>7, <1>8, <1>9, <1>10, <1>11, <1>12 DEF WorkerStep

\* Nothing changes.
LEMMA InputStutters ==
  ASSUME InputInv, UNCHANGED vars
  PROVE  InputInv'
<1>1. /\ Types /\ IoKnown /\ LinkKnown /\ QueueKnown /\ HandKnown /\ RoutesKnown /\ PressKnown
      /\ PathKnown /\ Accounted /\ Budgeted
  BY DEF InputInv
<1>2. /\ mailbox' = mailbox /\ told' = told /\ worker' = worker /\ link' = link /\ io' = io
      /\ waking' = waking /\ wake' = wake
  BY DEF vars
<1>3. Types' /\ IoKnown'
  BY <1>1, <1>2 DEF Types, IoKnown
<1>4. LinkKnown' /\ QueueKnown'
  BY <1>1, <1>2 DEF LinkKnown, QueueKnown, Untold, Blank, Allowed
<1>5. /\ InHand' = InHand /\ OnRoute' = OnRoute /\ Settled' = Settled /\ Allowed' = Allowed
      /\ Releasing' = Releasing /\ ToRelease' = ToRelease
  BY <1>2 DEF InHand, OnRoute, Settled, Allowed, ToRelease, Releasing
<1>6. HandKnown' /\ RoutesKnown' /\ PressKnown'
  BY <1>1, <1>2, <1>5 DEF HandKnown, RoutesKnown, PressKnown
<1>7. PathKnown'
  BY <1>1, <1>2, <1>5 DEF PathKnown
<1>8. Accounted'
  <2>1. IoButtons' = IoButtons /\ IoPlaces' = IoPlaces
    BY <1>2, <1>5 DEF IoButtons, IoPlaces
  <2>2. BaseButtons' = BaseButtons /\ BasePlaces' = BasePlaces /\ BaseKeys' = BaseKeys
    BY <1>2, <1>5, <2>1 DEF BaseButtons, BasePlaces, BaseKeys
  <2> QED
    BY <1>1, <1>2, <1>5, <2>1, <2>2 DEF Accounted
<1>9. Budgeted'
  <2>1. Owed' = Owed /\ Blank' = Blank
    BY <1>2 DEF Owed, Blank
  <2> QED
    BY <1>1, <1>2, <2>1 DEF Budgeted
<1> QED
  BY <1>3, <1>4, <1>6, <1>7, <1>8, <1>9 DEF InputInv

\* Every step keeps the invariant.
LEMMA InputStep ==
  ASSUME InputInv, [Next]_vars
  PROVE  InputInv'
<1>1. CASE HostStep
  BY <1>1, HostInput
<1>2. CASE WorkerStep
  BY <1>2, WorkerInput
<1>3. CASE UNCHANGED vars
  BY <1>3, InputStutters
<1> QED
  BY <1>1, <1>2, <1>3 DEF Next

\* At the start there is no connection and nothing is known of any input.
LEMMA InputInit ==
  ASSUME Init
  PROVE  InputInv
<1> DEFINE none == <<>>
           s == NewIO
<1>1. none \in Seq(Command) /\ Len(none) = 0 /\ 1 .. Len(none) = {} /\ none = <<>>
  OBVIOUS
<1>2. /\ mailbox = [generation |-> 1, routingRevision |-> 1, connected |-> FALSE,
                    focused |-> TRUE, viewOnly |-> FALSE, releasePending |-> FALSE,
                    emulateMiddle |-> FALSE, buttons |-> {}, queue |-> none]
      /\ told = NothingTold /\ worker = AtRest /\ link = [generation |-> 1, ready |-> FALSE]
      /\ io = s /\ waking = 0 /\ wake = FALSE
  BY DEF Init
<1>3. /\ s \in IO /\ KeysOK(s) /\ (\A g : PointerOK(s, g) /\ MiddleOK(s, g))
      /\ s.held = <<>> /\ Clear(s) /\ s.buttons = {} /\ s.lastButtons = {}
      /\ s.pointerTimer = NoTimer /\ s.middleTimer = NoTimer /\ s.middleRevision = 0
      /\ s.server.barrier = 0 /\ Reached(s) = 0
  BY NewIOType
<1> HIDE DEF none, s
<1>4. 1 \in 1 .. MaxRevision /\ 1 \in Nat /\ 0 \in 0 .. Hosts /\ 0 \in 0 .. Capacity + 1
  BY Bounds
<1>5. /\ mailbox \in Mailbox /\ mailbox.generation = 1 /\ mailbox.routingRevision = 1
      /\ mailbox.connected = FALSE /\ mailbox.releasePending = FALSE
      /\ mailbox.buttons = {} /\ mailbox.queue = none
  BY ONLY <1>1, <1>2, <1>4, Bounds DEF Mailbox
<1>6. told \in Told /\ told.path = 0 /\ told.trail = 0 /\ told.down = {}
  BY <1>2, Bounds DEF NothingTold, Told
<1>7. worker \in Worker /\ worker.pc = "closed"
  BY <1>2, <1>4, Bounds DEF AtRest, Worker
<1>8. link \in Link /\ link.generation = 1 /\ link.ready = FALSE
  BY <1>2, <1>4 DEF Link
<1>9. Types
  <2>1. Len(io.held) <= HeldKeys /\ Len(mailbox.queue) <= Capacity
    BY <1>1, <1>2, <1>3, <1>5, Bounds
  <2> QED
    BY <1>2, <1>3, <1>4, <1>5, <1>6, <1>7, <1>8, <2>1 DEF Types
<1>10. IoKnown
  BY <1>2, <1>3 DEF IoKnown
<1>11. LinkKnown
  BY <1>1, <1>2, <1>3, <1>5, <1>6, <1>7, <1>8 DEF LinkKnown, Untold, Blank
<1>12. QueueKnown
  BY <1>1, <1>5, <1>6 DEF QueueKnown, Untold
<1>13. ~InHand /\ ~ToRelease /\ ~OnRoute
  BY <1>2, <1>3, <1>5, <1>7 DEF InHand, ToRelease, Releasing, OnRoute
<1>14. HandKnown /\ PressKnown
  BY <1>2, <1>3, <1>7, <1>13 DEF HandKnown, PressKnown
<1>15. RoutesKnown
  BY <1>2, <1>3, <1>5, <1>7, <1>13, BlankTypes DEF RoutesKnown
<1>16. PathKnown
  BY <1>7 DEF PathKnown
<1>17. Accounted
  <2>1. IoButtons = {} /\ IoPlaces = {0}
    BY <1>13 DEF IoButtons, IoPlaces
  <2>2. KeyIds(io) = {}
    <3>1. io.held = none
      BY <1>1, <1>2, <1>3
    <3> QED
      BY <1>1, <3>1 DEF KeyIds
  <2>3. BaseButtons = {} /\ BasePlaces = {0} /\ BaseKeys = {}
    BY <1>13, <2>1, <2>2 DEF BaseButtons, BasePlaces, BaseKeys
  <2>4. ButtonsTold(<<>>, {}, {}) /\ PlaceTold(<<>>, {0}, 0) /\ KeysTold(<<>>, {}, {})
    BY QueueEmpty
  <2> QED
    BY <1>1, <1>5, <1>6, <1>13, <2>3, <2>4 DEF Accounted
<1>18. Budgeted
  BY <1>8 DEF Budgeted
<1> QED
  BY <1>9, <1>10, <1>11, <1>12, <1>14, <1>15, <1>16, <1>17, <1>18 DEF InputInv

----------------------------------------------------------------------------
(* Theorems *)

\* The inductive invariant.
THEOREM InputInvariant == Spec => []InputInv
<1>1. Init => InputInv
  BY InputInit
<1>2. InputInv /\ [Next]_vars => InputInv'
  BY InputStep
<1> QED
  BY <1>1, <1>2, PTL DEF Spec

\* Types and limits: the queue, the round and the held keys stay within their bounds.
THEOREM InputTyped == Spec => []TypeOK
<1>1. ASSUME InputInv PROVE TypeOK
  <2>1. Types
    BY <1>1 DEF InputInv
  <2>2. mailbox.generation \in Nat /\ mailbox.routingRevision \in 1 .. MaxRevision
        /\ mailbox.buttons \in SUBSET (1 .. 9)
    BY <2>1, MailboxType DEF Types, Buttons
  <2>3. told.path \in 0 .. MaxPosition /\ told.down \subseteq Keys
    BY <2>1 DEF Types, Told, Places
  <2>4. worker.pc \in {"closed", "drain", "send", "overflow", "work", "asleep"}
        /\ worker.count \in 0 .. Capacity + 1
    BY <2>1 DEF Types, Worker
  <2>5. io.middle.state \in 0 .. 10 /\ io.server.keys \subseteq Symbols
    BY <2>1 DEF Types, IO, Emulator, Server
  <2> QED
    BY <2>1, <2>2, <2>3, <2>4, <2>5 DEF Types, TypeOK
<1> QED
  BY <1>1, InputInvariant, PTL

\* Nothing that was accepted before a release is written after it.
THEOREM ReleaseHolds == Spec => []ReleaseIsBarrier
<1>1. ASSUME InputInv PROVE ReleaseIsBarrier
  <2>1. io \in IO /\ (io.server.route # 0 => io.server.barrier <= io.server.route)
    BY <1>1 DEF InputInv, Types, IoKnown, PointerOK
  <2>2. io.server.barrier \in Int /\ io.server.route \in Int
    BY <2>1, Bounds DEF IO, Server
  <2> QED
    BY <2>1, <2>2 DEF ReleaseIsBarrier
<1> QED
  BY <1>1, InputInvariant, PTL

\* In each state of the emulator a button is shown exactly while none is held back and one is
\* pressed.
LEMMA StateShows ==
  ASSUME NEW m \in Emulator, InState(m)
  PROVE  (m.emulated # {}) <=> ~Pending(m) /\ m.lastButtons \cap {Left, Right} # {}
<1>1. \A st \in 0 .. 10 :
        (ShownIn[st + 1] # {}) <=> st \notin {1, 2} /\ PressedIn[st + 1] # {}
  <2> SUFFICES ASSUME NEW st \in 0 .. 10
               PROVE  (ShownIn[st + 1] # {}) <=> st \notin {1, 2} /\ PressedIn[st + 1] # {}
    OBVIOUS
  <2>1. st \in {0, 1, 2, 3, 4, 5, 6, 7, 8, 9, 10}
    OBVIOUS
  <2> QED
    BY <2>1 DEF ShownIn, PressedIn
<1>2. m.state \in 0 .. 10
  BY DEF Emulator
<1> QED
  BY <1>1, <1>2 DEF InState, Pending

\* No key or button can get stuck.
THEOREM NothingSticks == Spec => []NoStuckInput
<1>1. ASSUME InputInv PROVE NoStuckInput
  <2>1. io \in IO /\ mailbox \in Mailbox /\ KeysOK(io) /\ PointerOK(io, link.generation)
        /\ MiddleOK(io, link.generation)
    BY <1>1 DEF InputInv, Types, IoKnown
  <2>2. NothingLeftPressed
    <3>1. mailbox.releasePending \in BOOLEAN /\ mailbox.focused \in BOOLEAN
          /\ mailbox.viewOnly \in BOOLEAN
      BY <2>1, MailboxType
    <3> QED
      BY <1>1, <3>1 DEF NothingLeftPressed, InputInv, PressKnown, Settled, Allowed
  <2>3. HeldCoversServer
    <3>1. DOMAIN io.held = 1 .. Len(io.held)
      BY <2>1, Domain DEF IO
    <3> QED
      BY <2>1, <3>1 DEF HeldCoversServer, KeysOK, PointerOK
  <2>4. EmulationInStep
    <3>1. io.middle \in Emulator /\ InState(io.middle)
      BY <2>1 DEF IO, MiddleOK
    <3> QED
      BY <3>1, StateShows DEF EmulationInStep
  <2> QED
    BY <2>2, <2>3, <2>4 DEF NoStuckInput
<1> QED
  BY <1>1, InputInvariant, PTL

\* Quiet, with a release that the worker has not taken: there was nothing to release.
LEMMA QuietReleased ==
  ASSUME InputInv, Quiet, link.ready = TRUE, mailbox.releasePending = TRUE
  PROVE  /\ mailbox.queue = <<>> /\ Blank /\ told.trail = 0
         /\ mailbox.buttons = {} /\ told.down = {}
<1>1. worker.pc = "asleep" /\ waking = 0 /\ wake = FALSE /\ wake \in BOOLEAN
  BY DEF Quiet, InputInv, Types
<1>2. mailbox.queue = <<>> /\ Blank
  BY <1>1 DEF InputInv, Budgeted
<1>3. BaseButtons = {} /\ BasePlaces = {0} /\ BaseKeys = {}
  BY DEF BaseButtons, BasePlaces, BaseKeys, ToRelease
<1>4. /\ ButtonsTold(<<>>, {}, mailbox.buttons) /\ PlaceTold(<<>>, {0}, told.trail)
      /\ KeysTold(<<>>, {}, told.down)
  BY <1>1, <1>2, <1>3 DEF InputInv, Accounted
<1>5. mailbox.buttons = {} /\ told.trail = 0
  BY <1>4, QueueEmpty
<1>6. \A k \in Keys : k \notin told.down
  BY <1>4, QueueEmpty
<1>7. told.down \subseteq Keys
  BY DEF InputInv, Types, Told
<1> QED
  BY <1>2, <1>5, <1>6, <1>7

\* Quiet, with no release to come: what the worker has is what the hosts count on.
LEMMA QuietAccounted ==
  ASSUME InputInv, Quiet, link.ready = TRUE, mailbox.releasePending = FALSE
  PROVE  /\ mailbox.queue = <<>> /\ KeyIds(io) = told.down
         /\ mailbox.buttons = IoButtons /\ told.trail \in IoPlaces
<1>1. worker.pc = "asleep" /\ waking = 0 /\ wake = FALSE /\ wake \in BOOLEAN
  BY DEF Quiet, InputInv, Types
<1>2. mailbox.queue = <<>>
  BY <1>1 DEF InputInv, Budgeted
<1>3. BaseButtons = IoButtons /\ BasePlaces = IoPlaces /\ BaseKeys = KeyIds(io)
  BY <1>1 DEF BaseButtons, BasePlaces, BaseKeys, ToRelease, InHand, Releasing
<1>4. /\ ButtonsTold(<<>>, IoButtons, mailbox.buttons) /\ PlaceTold(<<>>, IoPlaces, told.trail)
      /\ KeysTold(<<>>, KeyIds(io), told.down)
  BY <1>1, <1>2, <1>3 DEF InputInv, Accounted
<1>5. mailbox.buttons = IoButtons /\ told.trail \in IoPlaces
  BY <1>4, QueueEmpty
<1>6. \A k \in Keys : k \in told.down <=> k \in KeyIds(io)
  BY <1>4, QueueEmpty
<1>7. told.down \subseteq Keys /\ io \in IO
  BY DEF InputInv, Types, Told
<1>8. KeyIds(io) \subseteq Keys
  <2>1. \A i \in 1 .. Len(io.held) : io.held[i] \in HeldKey
    BY <1>7 DEF IO
  <2> QED
    BY <2>1 DEF KeyIds, HeldKey
<1> QED
  BY <1>2, <1>5, <1>6, <1>7, <1>8

\* Accepted input arrives: none is slept on, and in the end the server is where the host is.
THEOREM InputReachesServer == Spec => []InputArrives
<1>1. ASSUME InputInv PROVE InputArrives
  <2> SUFFICES ASSUME Quiet, link.ready = TRUE
               PROVE  /\ mailbox.queue = <<>> /\ (mailbox.releasePending => Clear(io))
                      /\ io.pointerTimer = NoTimer /\ io.middleTimer = NoTimer =>
                           /\ KeyIds(io) = told.down
                           /\ IF mailbox.emulateMiddle
                              THEN (io.server.buttons = {}) = (mailbox.buttons = {})
                              ELSE /\ io.server.buttons = mailbox.buttons
                                   /\ told.trail # 0 => io.server.position = told.trail
    <3>1. io \in IO /\ link \in Link
      BY <1>1 DEF InputInv, Types
    <3>2. DOMAIN io.held = 1 .. Len(io.held) /\ link.ready \in BOOLEAN
      BY <3>1, Domain DEF IO, Link
    <3> QED
      BY <3>2 DEF InputArrives, NothingStranded, ServerCatchesUp, KeyIds
  <2>1. /\ io \in IO /\ mailbox.releasePending \in BOOLEAN /\ mailbox.emulateMiddle \in BOOLEAN
        /\ worker.pc = "asleep" /\ Settled
    BY <1>1, MailboxType DEF InputInv, Types, Quiet, Settled
  <2>2. CASE mailbox.releasePending = TRUE
    <3>1. /\ mailbox.queue = <<>> /\ Blank /\ told.trail = 0
          /\ mailbox.buttons = {} /\ told.down = {}
      BY <1>1, <2>2, QuietReleased
    <3>2. KeyIds(io) = {}
      <4>1. 1 .. Len(<<>>) = {}
        OBVIOUS
      <4> QED
        BY <3>1, <4>1 DEF KeyIds, Blank
    <3> QED
      BY <3>1, <3>2 DEF Blank, Clear
  <2>3. CASE mailbox.releasePending = FALSE
    <3>1. /\ mailbox.queue = <<>> /\ KeyIds(io) = told.down
          /\ mailbox.buttons = IoButtons /\ told.trail \in IoPlaces
      BY <1>1, <2>3, QuietAccounted
    <3>2. ASSUME io.pointerTimer = NoTimer, io.middleTimer = NoTimer
          PROVE  IF mailbox.emulateMiddle
                 THEN (io.server.buttons = {}) = (mailbox.buttons = {})
                 ELSE /\ io.server.buttons = mailbox.buttons
                      /\ told.trail # 0 => io.server.position = told.trail
      <4>1. CASE ~OnRoute
        <5>1. io.server.buttons = {}
          BY <1>1, <2>1, <2>3, <4>1 DEF InputInv, PressKnown, Clear
        <5> QED
          BY <3>1, <4>1, <5>1 DEF IoButtons, IoPlaces
      <4>2. CASE OnRoute /\ mailbox.emulateMiddle = FALSE
        <5>1. io.server.buttons = io.lastButtons
          BY <1>1, <2>1, <2>3, <4>2 DEF InputInv, PressKnown, Even
        <5>2. Reached(io) = io.server.position
          BY <3>2 DEF Reached
        <5> QED
          BY <3>1, <4>2, <5>1, <5>2 DEF IoButtons, IoPlaces
      <4>3. CASE OnRoute /\ mailbox.emulateMiddle = TRUE
        <5>1. io.server.buttons = io.lastButtons /\ Shows(io)
          BY <1>1, <2>1, <2>3, <4>3 DEF InputInv, PressKnown, Even
        <5>2. /\ io.middle \in Emulator /\ InState(io.middle) /\ ~Pending(io.middle)
          BY <1>1, <2>1, <3>2 DEF InputInv, IoKnown, MiddleOK, IO
        <5>3. io.server.buttons = (io.middle.lastButtons \ {Left, Right}) \cup io.middle.emulated
          BY <5>1, <5>2 DEF Shows, Mask
        <5>4. (io.middle.emulated # {}) <=> io.middle.lastButtons \cap {Left, Right} # {}
          BY <5>2, StateShows
        <5>5. (io.server.buttons = {}) <=> (io.middle.lastButtons = {})
          BY ONLY <5>3, <5>4
        <5> QED
          BY <3>1, <4>3, <5>5 DEF IoButtons
      <4> QED
        BY <2>1, <4>1, <4>2, <4>3
    <3> QED
      BY <2>3, <3>1, <3>2
  <2> QED
    BY <2>1, <2>2, <2>3
<1> QED
  BY <1>1, InputInvariant, PTL

\* Only these steps of the worker write to the server.
LEMMA Writers ==
  ASSUME Next, io'.server # io.server
  PROVE  Start \/ Send \/ HeldOverflow \/ PointerTimer \/ MiddleTimer \/ Finish
<1>1. io' # io
  OBVIOUS
<1>2. ~HostStep
  BY <1>1 DEF HostStep, Wake, Key, Pointer, SetFocused, ReleaseAll, SetPolicy, Calls
<1>3. \A g : ~PrepareAttempt(g)
  BY <1>1 DEF PrepareAttempt
<1>4. ~Take /\ ~Drained /\ ~InitDone /\ ~Sleep /\ ~WaitReturns
  BY <1>1 DEF Take, Drained, InitDone, Sleep, WaitReturns
<1> QED
  BY <1>2, <1>3, <1>4 DEF Next, WorkerStep

\* A timer writes under the present route, where input is allowed, and goes on.
LEMMA TimerWrites ==
  ASSUME InputInv, PointerTimer \/ MiddleTimer
  PROVE  /\ io'.server # io.server =>
              io'.server.route = mailbox.routingRevision /\ mailbox.focused = TRUE
         /\ io.server.position <= io'.server.position
<1>1. /\ io \in IO /\ PointerOK(io, link.generation) /\ MiddleOK(io, link.generation)
      /\ link \in Link /\ mailbox \in Mailbox
  BY DEF InputInv, Types, IoKnown
<1>2. mailbox.focused \in BOOLEAN
  BY <1>1, MailboxType
<1>3. io.server.position <= io.server.position
  BY <1>1, Bounds DEF IO, Server
<1>4. CASE PointerTimer
  <2>1. io.pointerTimer # NoTimer /\ io' = PointerDue(io)
    BY <1>4 DEF PointerTimer
  <2>2. CASE RouteCurrent(io.pointerTimer)
    <3>1. io' = WritePointer([io EXCEPT !.pointerTimer = NoTimer], io.pendingPointer)
      BY <2>1, <2>2 DEF PointerDue
    <3>2. Went(io', io, io.pointerTimer.revision) /\ io'.server.route = io.pointerTimer.revision
      BY <1>1, <2>1, <3>1, DelayedWritten
    <3>3. io.pointerTimer.revision = mailbox.routingRevision /\ mailbox.focused = TRUE
      BY <1>2, <2>2 DEF RouteCurrent
    <3> QED
      BY <3>2, <3>3 DEF Went
  <2>3. CASE ~RouteCurrent(io.pointerTimer)
    <3>1. io' = ResetPointer(io)
      BY <2>1, <2>3 DEF PointerDue
    <3>2. io'.server = io.server
      BY <1>1, <3>1, DelayedDropped
    <3> QED
      BY <1>3, <3>2
  <2> QED
    BY <2>2, <2>3
<1>5. CASE MiddleTimer
  <2> DEFINE batch == Expired(io.middle)
             s == [io EXCEPT !.middleTimer = NoTimer]
  <2>1. /\ io.middleTimer # NoTimer
        /\ io' = IF RouteCurrent(io.middleTimer) /\ mailbox.emulateMiddle
                 THEN SendBatch([s EXCEPT !.middle = batch.emulator], batch.events)
                 ELSE ResetMiddle(s)
    BY <1>5 DEF MiddleTimer
  <2>2. s \in IO /\ s.server = io.server /\ batch = Expired(io.middle)
        /\ [s EXCEPT !.middle = batch.emulator]
             = [io EXCEPT !.middleTimer = NoTimer, !.middle = batch.emulator]
    BY <1>1, BlankTypes DEF IO
  <2> HIDE DEF batch, s
  <2>3. CASE RouteCurrent(io.middleTimer) /\ mailbox.emulateMiddle
    <3>1. io' = SendBatch([io EXCEPT !.middleTimer = NoTimer, !.middle = batch.emulator], batch.events)
      BY <2>1, <2>2, <2>3
    <3>2. Went(io', io, io.middleRevision)
      BY <1>1, <2>1, <2>2, <3>1, ExpirySent
    <3>3. io.middleTimer.revision = io.middleRevision
      BY <1>1, <2>1 DEF MiddleOK
    <3>4. io.middleRevision = mailbox.routingRevision /\ mailbox.focused = TRUE
      BY <1>2, <2>3, <3>3 DEF RouteCurrent
    <3> QED
      BY <3>2, <3>4 DEF Went
  <2>4. CASE ~(RouteCurrent(io.middleTimer) /\ mailbox.emulateMiddle)
    <3>1. io' = ResetMiddle(s)
      BY <2>1, <2>4
    <3>2. io'.server = io.server
      BY <2>2, <3>1, MiddleReset
    <3> QED
      BY <1>3, <3>2
  <2> QED
    BY <2>3, <2>4
<1> QED
  BY <1>4, <1>5

\* A key is written where the pointer was when it was used; the pointer goes on.
LEMMA KeyInPlace ==
  ASSUME InputInv, Send, worker.command.kind = "Key"
  PROVE  /\ io.server.position <= io'.server.position
         /\ /\ worker'.pc = "drain" /\ worker.emulate = FALSE
            /\ worker.command.route = mailbox.routingRevision /\ worker.command.at # 0
            => io'.server.position = worker.command.at
<1> DEFINE c == worker.command
           s == Barrier(io, worker.command)
           f == FlushPointer(s)
<1>1. /\ worker.pc = "send"
      /\ io' = IF NoRoom(s, c) THEN f ELSE SendKey(f, c)
      /\ worker' = Sent(IF NoRoom(s, c) THEN "overflow" ELSE "drain")
  BY DEF Send
<1>2. /\ s \in IO /\ KeysOK(s) /\ PointerOK(s, link.generation) /\ MiddleOK(s, link.generation)
      /\ s.middleRevision # 0 /\ Len(s.held) <= HeldKeys /\ s.server = io.server
  BY <1>1, BeforeSending
<1>3. link \in Link
  BY DEF InputInv, Types
<1>4. /\ InHand /\ c.route = worker.revision /\ c \in KeyCommand
  BY <1>1, HandType
<1>5. c.keyId \in Keys /\ c.symbol \in Symbols /\ c.down \in BOOLEAN /\ c.route \in Routes
      /\ c.kind = "Key"
  BY <1>4 DEF KeyCommand
<1>6. f = FlushPointer(s) /\ s = Barrier(io, c)
  OBVIOUS
<1> HIDE DEF s, f
<1>7. /\ f \in IO /\ Kept(f, s) /\ s.server.position <= f.server.position
      /\ RouteCurrent(Here(s)) => f.server.position = Reached(s)
  BY ONLY <1>2, <1>3, <1>6, Flushed
<1>8. KeysOK(f) /\ Len(f.held) <= HeldKeys /\ f.held = s.held
  BY <1>2, <1>7 DEF Kept, KeysOK
<1>9. io'.server.position = f.server.position
  <2>1. CASE NoRoom(s, c)
    BY <1>1, <2>1
  <2>2. CASE ~NoRoom(s, c)
    <3>1. io' = SendKey(f, c) /\ ~NoRoom(f, c)
      BY <1>1, <1>8, <2>2 DEF NoRoom, Holding
    <3> HIDE DEF c
    <3>2. Typed(io', f)
      BY <1>5, <1>7, <1>8, <3>1, KeySent
    <3> QED
      BY <3>2 DEF Typed
  <2> QED
    BY <2>1, <2>2
<1>10. ASSUME worker.emulate = FALSE, c.route = mailbox.routingRevision, c.at # 0
       PROVE  f.server.position = c.at
  <2>1. worker.revision = mailbox.routingRevision
    BY <1>4, <1>10
  <2>2. mailbox.releasePending = FALSE /\ worker.emulate = mailbox.emulateMiddle
    BY <1>4, <2>1 DEF InputInv, HandKnown
  <2>3. RouteCurrent(Here(s)) /\ IoPlaces \subseteq {0, Reached(s)}
    BY <1>4, <1>5, <1>6, <1>10, <2>2, HandBefore
  <2>4. c.at \in IoPlaces
    BY <1>1, <1>4, <1>5, <2>2 DEF InputInv, Accounted
  <2> QED
    BY <1>7, <1>10, <2>3, <2>4
<1> QED
  BY <1>2, <1>7, <1>9, <1>10

\* A button changes on the server where the host changed it; the pointer goes on.
LEMMA ButtonsInPlace ==
  ASSUME InputInv, Send, worker.command.kind = "Pointer"
  PROVE  /\ io.server.position <= io'.server.position
         /\ /\ worker.emulate = FALSE /\ worker.command.route = mailbox.routingRevision
            /\ io'.server.buttons # io.server.buttons
            => io'.server.position = worker.command.at
<1> DEFINE c == worker.command
           s == Barrier(io, worker.command)
<1>1. /\ worker.pc = "send"
      /\ io' = IF worker.emulate THEN SendEmulated(s, c) ELSE SendPointer(s, c)
  BY DEF Send
<1>2. /\ s \in IO /\ PointerOK(s, link.generation) /\ MiddleOK(s, link.generation)
      /\ s.middleRevision = worker.revision /\ s.middleRevision # 0 /\ s.server = io.server
      /\ (\A p \in Places : Ahead(io, p) => Ahead(s, p))
  BY <1>1, BeforeSending
<1>3. link \in Link /\ worker.emulate \in BOOLEAN
  BY DEF InputInv, Types, Worker
<1>4. /\ InHand /\ c.route = worker.revision /\ c \in PointerCommand /\ IsPointer(c)
      /\ Ahead(io, c.position)
  BY <1>1, HandType
<1>5. c.position \in Places /\ c.buttons \in Buttons /\ c.route = s.middleRevision /\ c.kind = "Pointer"
  BY <1>2, <1>4 DEF PointerCommand
<1>6. Ahead(s, c.position) /\ Reached(s) <= c.position
  BY <1>2, <1>4, <1>5 DEF Ahead
<1>7. s = Barrier(io, c)
  OBVIOUS
<1> HIDE DEF s
<1>8. CASE worker.emulate = TRUE
  <2>1. io' = SendEmulated(s, c)
    BY <1>1, <1>8
  <2>2. Went(io', s, c.route)
    BY <1>2, <1>3, <1>5, <1>6, <2>1, EmulatedSent
  <2> QED
    BY <1>2, <1>8, <2>2 DEF Went
<1>9. CASE worker.emulate = FALSE
  <2>1. io' = SendPointer(s, c)
    BY <1>1, <1>9
  <2>2. /\ Went(io', s, c.route) /\ io'.lastButtons = c.buttons
        /\ io'.server.buttons # s.server.buttons => io'.server.position = c.position
    BY <1>2, <1>3, <1>5, <1>6, <2>1, PointerSent
  <2>3. ASSUME c.route = mailbox.routingRevision, io'.server.buttons # io.server.buttons
        PROVE  io'.server.position = c.at
    <3>1. worker.revision = mailbox.routingRevision
      BY <1>4, <2>3
    <3>2. mailbox.releasePending = FALSE /\ mailbox.emulateMiddle = FALSE
      BY <1>4, <1>9, <3>1 DEF InputInv, HandKnown
    <3>3. Even(s) /\ IoButtons = s.lastButtons
      BY <1>4, <1>5, <1>7, <3>2, HandBefore
    <3>4. IF c.transition = TRUE THEN c.at = c.position ELSE c.buttons = IoButtons
      BY <1>1, <1>4, <3>2 DEF InputInv, Accounted
    <3>5. Even(io')
      BY <2>2, <3>3 DEF Went
    <3>6. c.buttons # IoButtons
      BY <1>2, <2>2, <2>3, <3>3, <3>5 DEF Even
    <3> QED
      BY <1>2, <2>2, <2>3, <3>4, <3>6
  <2> QED
    BY <1>2, <2>2, <2>3 DEF Went
<1> QED
  BY <1>3, <1>8, <1>9

\* Releases of the worker leave the pointer where it is.
LEMMA ReleaseInPlace ==
  ASSUME InputInv, HeldOverflow \/ Finish \/ (Send /\ worker.command.kind = "ReleaseAll")
  PROVE  io.server.position <= io'.server.position
<1>1. /\ io \in IO /\ KeysOK(io) /\ PointerOK(io, link.generation) /\ MiddleOK(io, link.generation)
  BY DEF InputInv, Types, IoKnown
<1>2. \A r \in IO : r.server.position \in Int
  BY Bounds DEF IO, Server
<1>3. ASSUME NEW s, Reset(s, io), PointerOK(s, link.generation), MiddleOK(s, link.generation)
      PROVE  /\ s.server.position = io.server.position
             /\ ReleaseInput(s) \in IO /\ ReleaseInput(s).server.position = io.server.position
  <2>1. s \in IO /\ s.server = io.server /\ KeysOK(s)
    BY <1>1, <1>3 DEF Reset, KeysOK
  <2>2. ReleaseInput(s) \in IO /\ ReleaseInput(s).server.position = s.server.position
    BY <1>3, <2>1, InputReleased
  <2> QED
    BY <2>1, <2>2
<1> DEFINE z == ResetMiddle(ResetPointer(io))
<1>5. Reset(z, io) /\ PointerOK(z, link.generation) /\ MiddleOK(z, link.generation)
  BY <1>1, BothReset
<1>6. CASE HeldOverflow
  <2>1. io' = [ReleaseInput(z) EXCEPT !.server.route = 0,
                                      !.server.barrier = Overflowed(mailbox).routingRevision]
    BY <1>6 DEF HeldOverflow
  <2> DEFINE u == ReleaseInput(z)
  <2>3. u \in IO /\ u.server.position = io.server.position
    BY <1>3, <1>5
  <2> HIDE DEF u, z
  <2>2. io'.server.position = io.server.position
    BY <2>1, <2>3 DEF IO, Server, u
  <2> QED
    BY <1>1, <1>2, <2>2
<1>7. CASE Finish
  <2>1. io' = ReleaseInput(z) \/ io' = z
    BY <1>7 DEF Finish, AtEnd
  <2> HIDE DEF z
  <2>2. io'.server.position = io.server.position
    BY <1>3, <1>5, <2>1
  <2> QED
    BY <1>1, <1>2, <2>2
<1>8. CASE Send /\ worker.command.kind = "ReleaseAll"
  <2> DEFINE s == Barrier(io, worker.command)
  <2>1. /\ worker.pc = "send"
        /\ io' = [ReleaseInput(s) EXCEPT !.server.route = 0, !.server.barrier = worker.revision]
    BY <1>8 DEF Send
  <2>2. Reset(s, io) /\ PointerOK(s, link.generation) /\ MiddleOK(s, link.generation)
    BY <1>8, <2>1, BeforeSending
  <2> DEFINE u == ReleaseInput(s)
  <2>4. u \in IO /\ u.server.position = io.server.position
    BY <1>3, <2>2
  <2> HIDE DEF u, s
  <2>3. io'.server.position = io.server.position
    BY <2>1, <2>4 DEF IO, Server, u
  <2> QED
    BY <1>1, <1>2, <2>3
<1> QED
  BY <1>6, <1>7, <1>8

\* What is written is written for the present route and in its place: a timer writes only
\* where input is allowed now, a key is written where the pointer was when it was used, a
\* button changes where the host changed it, and the pointer never jumps back.
THEOREM SentInPlace == Spec => SentAsAccepted
<1> DEFINE Written1 == worker.pc = "work" /\ worker'.pc = "work" /\ io'.server # io.server
                         => io'.server.route = mailbox.routingRevision /\ mailbox.focused
           Forward == worker.pc # "closed" => io'.server.position >= io.server.position
           Placed == LET c == worker.command
                     IN /\ worker.pc = "send" /\ worker'.pc = "drain" /\ c.kind # "ReleaseAll"
                        /\ ~worker.emulate /\ c.route = mailbox.routingRevision /\ c.at # 0
                        /\ c.kind = "Pointer" => io'.server.buttons # io.server.buttons
                        => io'.server.position = c.at
<1>1. ASSUME InputInv, Next
      PROVE  Written1
  <2> SUFFICES ASSUME worker.pc = "work", worker'.pc = "work", io'.server # io.server
               PROVE  io'.server.route = mailbox.routingRevision /\ mailbox.focused = TRUE
    OBVIOUS
  <2>1. Start \/ Send \/ HeldOverflow \/ PointerTimer \/ MiddleTimer \/ Finish
    BY <1>1, Writers
  <2>2. ~Start /\ ~Send /\ ~HeldOverflow /\ ~Finish
    BY DEF Start, Send, HeldOverflow, Finish, AtRest
  <2> QED
    BY <1>1, <2>1, <2>2, TimerWrites
<1>2. ASSUME InputInv, Next
      PROVE  Forward
  <2> SUFFICES ASSUME worker.pc # "closed"
               PROVE  io.server.position <= io'.server.position
    <3>1. InputInv'
      BY <1>1, <1>2, InputStep
    <3>2. io.server.position \in Int /\ io'.server.position \in Int
      BY <1>2, <3>1, Bounds DEF InputInv, Types, IO, Server
    <3> QED
      BY <3>2
  <2>1. CASE io'.server = io.server
    <3>1. io.server.position \in Int
      BY <1>2, Bounds DEF InputInv, Types, IO, Server
    <3> QED
      BY <2>1, <3>1
  <2>2. CASE io'.server # io.server
    <3>1. Start \/ Send \/ HeldOverflow \/ PointerTimer \/ MiddleTimer \/ Finish
      BY <1>2, <2>2, Writers
    <3>2. ~Start
      BY DEF Start
    <3>3. Send => worker.command.kind \in {"ReleaseAll", "Key", "Pointer"}
      BY DEF Send
    <3> QED
      BY <1>2, <3>1, <3>2, <3>3, TimerWrites, KeyInPlace, ButtonsInPlace, ReleaseInPlace
  <2> QED
    BY <2>1, <2>2
<1>3. ASSUME InputInv, Next
      PROVE  Placed
  <2> DEFINE c == worker.command
  <2> SUFFICES ASSUME worker.pc = "send", worker'.pc = "drain", c.kind # "ReleaseAll",
                      worker.emulate = FALSE, c.route = mailbox.routingRevision, c.at # 0,
                      c.kind = "Pointer" => io'.server.buttons # io.server.buttons
               PROVE  io'.server.position = c.at
    <3>1. worker.emulate \in BOOLEAN
      BY <1>3 DEF InputInv, Types, Worker
    <3> QED
      BY <3>1
  <2>1. Send
    <3>1. ~HostStep
      BY DEF HostStep, Wake, Key, Pointer, SetFocused, ReleaseAll, SetPolicy, Calls
    <3>2. \A g : ~PrepareAttempt(g)
      BY DEF PrepareAttempt
    <3>3. ~Start /\ ~Take /\ ~Drained /\ ~HeldOverflow /\ ~PointerTimer /\ ~MiddleTimer
          /\ ~InitDone /\ ~Sleep /\ ~WaitReturns
      BY DEF Start, Take, Drained, HeldOverflow, PointerTimer, MiddleTimer, InitDone, Sleep, WaitReturns
    <3>4. ~Finish
      BY DEF Finish, AtRest
    <3> QED
      BY <1>3, <3>1, <3>2, <3>3, <3>4 DEF Next, WorkerStep
  <2>2. c.kind \in {"Key", "Pointer"}
    BY <2>1 DEF Send
  <2> QED
    BY <1>3, <2>1, <2>2, KeyInPlace, ButtonsInPlace
<1>4. InputInv /\ [Next]_vars => [Written1]_vars /\ [Forward /\ Placed]_vars
  BY <1>1, <1>2, <1>3
<1> QED
  BY <1>4, InputInvariant, PTL DEF Spec, SentAsAccepted, DelayedOnRoute, InPlace

=============================================================================

# TidyVNC session core: a TLA+ verification project

TidyVNC is a VNC viewer. Its core, `src/viewer/core`, runs every remote session
on a worker thread behind mailboxes; native front ends (macOS, Windows, FLTK)
call it from their own threads, through the C bridge in `src/viewer/bridge`. The
RFB protocol engine in `src/common` is retained from TigerVNC. This project
models the concurrent part of the core and of the engine below it: what threads
hand each other, in which order, what becomes of it when an attempt is
cancelled, fails or is repeated, and what viewer and server may have in flight.

TLC model-checks every module on small instances; TLAPS proves most safety
properties of the runs for all values of the constants. `PROJECT.json` lists components,
runs, mutants, hazards, theorems and, under `map`, the source lines each
definition stands for.

## The system

### Parts, their state and how they interact

| Part | State | Operations | Talks to |
|---|---|---|---|
| `SessionEvents` | bounded event queue with a reserved slot per pending operation, stamps, generation, overflow fault, weak wake-up target | `reserve`, `reserveAttempt`, `complete`, `cancelPending`, `publish`, `seal`, `setWakeup`, `take` | worker and hosts produce, one consumer drains |
| `PromptAuthentication` | one installed prompt, its status, reply and secrets, attempt generation | `beginAttempt`, `request` (parks), `takeRequest`, `replyCredentials`, `replyTrust`, `cancel`, `cancelPending`, `cancelAttempt` | worker parks, hosts reply, everyone cancels |
| `SessionWorker` (State, `WorkerControl`, `WakeRouter`, observer) | command gate, pending operations, attempt in progress, cancellation flags, the attempt's transport control | `connect`, `disconnect`, `submit`, `cancelCommand`, `setSecurity`, `setShared`, `requestClose`, `closeAndDrain`; `run`, `runAttempt`, `observe` | all of the above, transport, `ProtocolSession` |
| `InputQueue` | bounded command queue, focus, view-only and emulation policy, routing revision, pending release | `key`, `pointer`, `setFocused`, `releaseAll`, `setPolicy`, `begin`, `connected`, `end`, `take`, `overflow` | hosts push, the worker takes |
| `ProtocolSession` | the connection: held keys and buttons, throttled motion, middle-button emulator, timers, layout request | `prepareAttempt`, `start`, `processMessage`, `drainInput`, `dispatchScheduled`, commands, `finish` | worker-confined; reads `InputQueue`, `ClipboardChannel` |
| `MiddleButtonEmulator` | 11-state table, emulated mask, original position | `pointer`, `expire`, `reset` | `ProtocolSession` |
| `SessionRuntime` | jobs, admission slots, stopping flag, coordinator thread | `admit`, `reap`, `shutdown` | owns the workers' threads |
| `ListenerWorker` | parked peers with their deadlines, own event queue, stop flag, source control | `start`, `accept`, `reject`, `cancel`, `take`; `run` | hosts decide, accepted peers go to `SessionRuntime` |
| `DecodeManager` | work queue, free buffers, decoder threads, first failure | `decodeRect`, `flush`, `worker`, `findEntry`, destructor | protocol thread fills, decoder threads write the framebuffer |
| `FramePublisher` | latest frame and cursor, skipped damage, budget, a mailbox per view | `publishFrame`, `publishCursor`, `attach`, `take`, `detach`, `reset` | `ProtocolSession` publishes, views take |
| `CConnection` | pixel format and its pending change, update requests, continuous updates, clipboard capabilities | message handlers, `setPF`, `refreshFramebuffer`, `requestNewUpdate`, clipboard calls | the server over two streams |
| `VNCSConnectionST` | requested region, continuous updates, update tracker | message handlers, `writeFramebufferUpdate` | the viewer over two streams |
| `ClipboardChannel` | policy and its revision, latest text of the server with its route | `setPolicy`, `route`, `check`, `receive`, `take`, `offer`, `clear`, `invalidate` | hosts, worker; reads `InputQueue` |
| `SessionScheduler`, `CallbackService` | timers; coalesced callbacks | see Not modelled | |

A host call has two halves. The first runs under a mutex and decides; the second
runs after it and signals: it interrupts the prompt, cancels or wakes the
transport, notifies the worker's condition variable. The worker may be anywhere
when the second half arrives, including in the next attempt. Most of the
hazards in `PROJECT.json` come from that gap. The others come from bounded
queues (every one of them must fail without losing a completion or leaving a key
pressed), from timers that act on what was true when they were started, and from
state that survives from one attempt into the next.

### What makes each part correct

* Events: each operation id is answered exactly once, also through overflow and
  seal; stamps never repeat; the reserved storage suffices; no wake-up is lost.
* Prompts: the protocol acts only on the genuine reply to the very prompt; a
  cancellation beats an unconsumed reply; secrets do not linger; the worker is
  always woken.
* Worker: an accepted cancellation reaches the worker wherever it blocks, and
  never touches a later attempt; a terminal state means a retry is admissible;
  nothing is left over between attempts; close always drains.
* Input: nothing stays pressed on the server after focus loss, view-only,
  overflow or the end; nothing crosses a release; order and position survive
  coalescing and throttling; nothing accepted is stranded in the queue.
* Runtime and listener: a slot is held until its thread is joined, shutdown
  drains; a peer's socket has one owner from arrival to its end, the host is told
  one outcome, and the terminal event is delivered.
* Frames: parallel decoding gives the pixels sequential decoding would; the
  framebuffer outlives its decoders; a view never sees half an update and never
  misses damage, whatever was skipped for lack of memory.
* Updates: data is decoded in the format it was encoded in, requests do not pile
  up, and the viewer converges to the server's screen through resizes, format
  changes and the switch to continuous updates.
* Clipboard: text passes only under a route (attempt, focus, policy) that was
  current and allowed at some instant of the call; one side owns the clipboard;
  what is announced is served.

## Modules

### `SessionEvents` (SessionEvents.cxx)

The queue is a set of stamped events and the reservations a set of operations.
Methods are atomic (they hold the mutex), except that a notification is sent
after the unlock: `notifying` counts threads on their way from one to the other,
and `Signal` is their last step. The consumer is the loop the bridge runs: wait
for readiness, `take` until empty. `MaxSequence` bounds the 64-bit stamp counter,
whose exhaustion the code handles, so it is part of the model rather than only a
bound. Payloads other than generation and operation are left out.

### `OperationLedger`

What the stream promises a host, without queue, stamps, generations or
wake-ups: an operation is owed an answer, then the answer is due, then it is
delivered; closing settles everything; a fault is the last thing said; a host
that listens is told what is due. `SessionEvents` implements it
(`ImplementsLedger`): owed are the pending reservations, due the ids queued,
and the phase tells `sealed` or the overflow from a delivered fault.

### `PromptAuthentication` (PromptAuthentication.cxx)

`request()` is not atomic: it releases the mutex to call `notify()` and while it
waits. `worker` is its program counter. The deadline is the Boolean `expired`;
`restricted` stands for the checks that forbid a reply (a user name is required,
policy forbids an override, the key encoding is invalid). Refused replies change
nothing and are stuttering steps, except one that notices the deadline, which
interrupts.

### `SessionWorker`, `MCSessionWorker` (SessionWorker.cxx, command part of ProtocolSession.cxx)

One reusable session. An action is one critical section, one test of a shared
atomic, or one call into another object. `host[h].then` lists the calls a host
thread still makes after its critical section, so that every other thread may
run between any two of them. The event stream and the prompt bridge are reduced
to what the worker uses of them; their own modules model them in full. The
observer thread, the setup and transport controls per attempt, the layout
request with its timer and late replies, event overflow at any publication, and
the terminal boundary are all there. `MCSessionWorker` adds only the symmetry of
host threads (they are interchangeable: no action or property names one).

### `MiddleButtonEmulator`, `InputPath`, `MCInputPath` (MiddleButtonEmulator.cxx, InputQueue.cxx, input part of ProtocolSession.cxx)

The emulator is a value, so its methods are operators; the table is copied row by
row. `InputPath` has the mailbox with its hosts, and the worker's drain loop. A
mailbox method is one step. Taking a command and sending it are two, since the
send reads the mailbox's status again; everything else the worker touches is its
own, so its methods are operators on the record `io`. Writes have no effect on
shared state, so a test and the write that follows are one step without loss.
`io.server` is what the server has been told: keys, buttons and position. A
coordinate is its place on the pointer's path, which only goes forward, so that
"written out of order" and "written at the wrong place" can be seen. `told` and
the `route`, `attempt` and `at` fields of a command are history: what the host
was told, and under which route it was accepted.

Each host call is followed by `wake()`, as in the bridge; `waking` counts hosts
between the two. A timer may fire whenever it is pending. `Finish` may happen at
any worker step: it stands for `close()` and for every exception, among them a
full timer queue. `bad_alloc` in `push()` has the effect of a full queue and is
not separate. With emulation on, a key can overtake a press that is being held
back for the 50 ms timer, because `flushPointer()` flushes motion only; the code
says no different, and the order property is about input that is not emulated. `MCInputPath`
adds the symmetry of keys and of symbols, which no definition or property names.

### `SessionRuntime`, `ListenerWorker`, `ReverseConnections` (SessionWorker.cxx, ListenerWorker.cxx)

`SessionRuntime` has one mutex; what happens between two critical sections is a
program counter of the job thread (mark, then notify), of the coordinator (take
off the list, join, give the slot back, complete the future) and of `shutdown()`
(copy the jobs, cancel them after the unlock). Sessions are opaque: `run()` may
end at any time, and does when cancelled, which `session_live` shows of the
worker itself. `ListenerWorker` has the parked peers and the event queue under
one mutex; deadlines pass in the order of peer ids, so `late` is one number. The
source is external: a sticky wake and a sticky cancel, and calls that may fail.
`ReverseConnections` composes the two: a peer a host takes off the listener is
admitted as a session, or refused by a full or stopping runtime and closed.
`holder` is history: who owns the socket.

### `DecodeManager`, `FramePublisher`, `FramePath`, `MCFramePath` (DecodeManager.cxx, FramePublisher.cxx, frame parts of CConnection.cxx and ProtocolSession.cxx)

A framebuffer is a row of pixels, a pixel the id of the rectangle last decoded
into it. Decoding is two steps, so a thread reads before and writes after
whatever others do; a stream decoder used out of turn yields `Garbage`. `ideal`
is what a sequential decoder would have produced. Waits of the protocol thread
(for a free buffer, in `flush()`) are guards. The publisher's budget counts the
leases of frame and cursor; each view's mailbox is delivered under its own mutex,
so a view may take, attach or detach between two deliveries. A failed or closed
attempt flushes, deletes the framebuffer, joins the threads and resets the
publisher before it reconnects. `MCFramePath` supplies the rectangles.

### `UpdateProtocol` (CConnection.cxx, VNCSConnectionST.cxx)

Both ends are in this repository, so both are modelled, over two reliable FIFO
streams. The client's record `conn` holds the flags of `CConnection`
(`pendingUpdate`, `continuousUpdates`, `formatChange`, `pendingPFChange`,
`forceNonincremental`); each handler is an action that ends, as in the code, in
`requestNewUpdate()`. The server reads a message or writes an update whenever it
may; congestion is the freedom not to. A cell holds the number of its last
change, an update carries its format.

### `ClipboardChannel` (ClipboardChannel.cxx, clipboard parts of ProtocolSession.cxx and CConnection.cxx)

A text is the route it was made for. `route()` and `check()` read the input
status under one lock and the policy under another, so each is two actions.
`takeable` and `sendable` are history: the routes that were current and allowed at
some instant of the running call, the strongest thing such a check can promise.
The server is one of three kinds: legacy cut text, notifying, and accepting
unsolicited text.

## Runs

| Run | Instance | States | Shows |
|---|---|---|---|
| `session_events` | 3 slots, 10 stamps, 3 operations, 2 generations, 2 notifiers, fair | 242 k | `StampsAdvance`, `ExactlyOneCompletion`, `NoLostWakeup`, `ReliableKept`, and `ImplementsLedger`: the refinement with its fairness |
| `prompt_authentication` | 3 prompts, 2 attempts, fair | 186 k | `DecisionGenuine`, `CancellationWins`, `NoMissedWake`, `InterruptedStaysClosed`, `RequestReturns` |
| `session_attempts` | 2 hosts, 2 attempts, 3 operations | 2.1 M | `IdleIsSettled`, `DisconnectMeansDrained`, `CancelHitsItsAttempt` (neither lost nor stray), `ConfirmedCancelHolds` |
| `session_commands` | 1 host, 2 kinds of command, queue of 2, event overflow anywhere | 1.4 M | `CancelledNeverRan`, `SlotsAccounted` (not leaked, one request on the wire), `WorkNotStranded` (commands, notifications), `TerminalMeansRetry` |
| `session_live` | 1 host, 1 attempt, 2 settings, fair threads | 244 k | `CloseDrains`, `DisconnectCompletes` |
| `input` | 2 keys with 2 symbols, room for 1, queue of 1, 2 buttons, throttle, emulation, 2 attempts, 2 routes | 1.1 M | `ReleaseIsBarrier`, `InputArrives` (nothing stranded, server catches up), `NoStuckInput` (nothing left pressed, releases match, emulator in step), `SentAsAccepted` (timers on route, in place and in order) |
| `reverse_connections` | 2 peers, 1 parked, queue of 4, 1 session slot, fair | 152 k | `OwnedOnce`, `TerminalDelivered`, `DrainedMeansJoined` (with `SlotHeldUntilDrained`), `NobodyStuck` (`ListenerMovesOn`, `ShutdownDrains`) |
| `frame_decoding` | 2 threads, 3 buffers, 4 rectangles of Tight, CopyRect and Raw, 2 attempts | 811 k | `SequentialResult`, `WorkersSuffice`, `FramebufferOutlivesDecoders` |
| `frame_publication` | 1 view, budget of 2 frames and a cursor, 3 updates, 2 widths, 2 attempts, fair | 510 k | `DamageComplete`, `PublishedWhole`, `ViewsCatchUp` |
| `update_protocol` | 2 formats, 2 sizes, 1 change, 1 resize, 2 format selections, 1 refresh, fair | 1.28 M | `DecodedInOwnFormat`, `SingleUpdateInFlight`, `ViewerCatchesUp` |
| `clipboard` | 3 kinds of server, 1 change of route, 2 policies | 2.0 M | `TakenAllowed`, `SentAllowed`, `OneOwner` |
| `clipboard_served` | a notifying server, else the same | | violated: `AnnouncedIsServed` (see Findings) |

All runs but the last pass, and each of their properties has a mutant in
`PROJECT.json`: a plausible change of one mapped definition under which TLC finds
it violated.

**Bounds.** Two attempts are enough for anything that leaks from one into the
next, and two host threads for two delayed halves of calls to meet (the runs
with one host still interleave its unlocked half with worker, observer and
environment). Queues are as small as lets them be empty, partly filled, full and
overflowing; two routing revisions allow a route to be left and a new one taken up.
In `input`, switching emulation on uses up the second of them, so that the 50 ms timer
meets the end of an attempt there and the pointer's timer meets changes of focus and
policy; that the 50 ms timer meets them too, and the table's states that need the
right button first, are left to the proofs. So is what `IdleIsSettled` says of
commands, as `session_attempts` has none.
Three operations allow a connect, a command or disconnect, and one more. Stamps
are few enough to run out. The capacity in `input` is one on purpose: a
release and a full queue are then two commands, one more than the capacity, the
case the bound of the drain loop is about; and one remembered key with two keys
exceeds the limit on held keys. One parked peer and one session slot make
listener and runtime full at once, and two peers let one wait behind the other.
Three buffers for two threads are fewer than the code has (twice the threads), so
that the protocol thread runs out; four rectangles let a copy wait for a
rectangle that waits for its stream. Frame liveness assumes a budget of two
frames and a cursor, `AmpleBudget`. (The defaults in ProtocolSession.h:37-38, 64 MiB for a
framebuffer and 128 MiB for publication, leave no room for a cursor beside two
frames of the largest size; a cursor is then skipped until frames get smaller.)
In `update_protocol` two selections allow one format change to arrive while
another is pending. In `clipboard` one change may be a loss of focus, or a loss
and return taken together, since only the revision and the present status are
ever compared.

**Deadlock.** Components driven by hosts or servers that may stop, whose
bounds are then used up, do not check it. The runs of `SessionWorker` and of
`ClipboardChannel` do.

**Fairness** is weak fairness throughout, on steps of threads that hold no lock
they wait for. `SessionEvents`: a producer between unlock and signal finishes its
method, and the consumer's loop runs. `PromptAuthentication`: the worker inside
`request()` runs when it can, the clock advances. `SessionWorker`: worker,
observer and the second half of a started host call run when they can; the peer,
the user, the network and the clock owe nothing, and hosts need not call.
`ReverseConnections`: listener, coordinator, `shutdown()` and job threads run,
the clock advances, the host drains events, a cancelled session ends; nobody
need arrive or decide. `FramePath`: protocol thread, timer, decoder threads and
views run; the server need not finish an update. `UpdateProtocol`: both sides
read and the server writes what it may, that is, streams deliver and congestion
ends; screens need not change. `clipboard` checks safety only.

## Findings

`clipboard_served`: a server's empty notification makes
`handleClipboardAnnounce(false)` drop the local text (ProtocolSession.cxx:247)
without withdrawing the announcement, so `CConnection` still believes that there
is local text, passes a later request of the server on, and nothing is sent. The
other two places that drop the text withdraw it. `CConnection.h:121` says the data
should be sent whenever the server requests it.

Seen while modelling, without a run: `setPF()` returns early when the format
asked for is the one in use (CConnection.cxx:1041), also when a change to another
format is pending, so the other one becomes active; the publisher's own memory of
skipped damage repeats what `ProtocolSession` keeps, as it retries with all its
damage; `receive()` clears the latest text before it checks the route again, so a
concurrent `take()` may find a text without content, which the hosts test for.

## Proofs

`SessionEventsProofs` proves, for every capacity, counter width, number of
operations, generations and notifiers: types, exactly one completion within the
capacity, unique advancing stamps with the fault last, the generation fence, no
lost wake-up, and that only statistics are ever replaced. The invariant `IInv`
adds `SequenceSpace` to the checked properties: the counter always has room for
the completions still owed and the fault, which is what makes the stamps that
overflow and seal hand out unique. Reservations finish in id order; `Rank` is an
operation's place in that order, and the lemmas on ranks (injective, at most the
number of reservations) give the stamps of a whole batch. The assumptions are
that capacity and bounds are positive naturals, as the constructor requires.
`OneGenerationPending`, `TerminalIsLast` and the capacity are part of it.

`StreamImplementsLedger`, in the same module, is the refinement: every step of
the stream is a step of the ledger or a stutter. `IInv` says that pending, queued
and delivered ids partition the ids handed out, before and after the step, so a
step that delivers nothing turns exactly the ids it takes from the pending ones
into due ones (lemma `Settled`), and only the action at hand remains to be
examined. The ledger delivers only to a listening host, for which the proof adds
`Heard`: nothing drains or signals before a wake-up is attached. The fairness
half of `ImplementsLedger` is model-checked.

`PromptAuthenticationProofs` proves for every number of prompts and attempts:
genuine decisions, cancellation wins, transient secrets, no missed wake, and that
an interrupted attempt stays closed. `PromptInv` adds what ties the histories to
the bridge: `Installed` (a prompt is installed exactly while the worker is in
`request()`, and it is the last one, of the current attempt), `FutureBlank` (ids
not yet used have no history), `DecidedMatches` (the status tells which replies
have been accepted) and `ClosedForGood`. The steps share three lemmas: one for
every interruption, one for every accepted reply, one for every way out of
`request()`.

`ClipboardChannelProofs` proves `TakenAllowed`, `SentAllowed` and `OneOwner` for
any number of changes and every set of server kinds. A check reads two locks one
after the other, so the invariant says at every place between the two what the
first read has already vouched for: `Watched` (the histories `takeable` and
`sendable` hold every route that was current and allowed since the call began),
`TakeVouched` and `SendVouched` (the route a thread has in hand and the half of the
check it has passed), `RoutesKnown` (routes in mailbox, queue and connection were
handed out by `route()`), and `ServesLocal` and `Yielded` (who gave the clipboard up
to whom while the worker is in the middle of a handler).

`FramePathProofs` proves five properties of `FramePath`. `SequentialResult` and
`FramebufferOutlivesDecoders` hold for every number of threads, buffers, rectangles
and lanes. The heart of the invariant is that the rectangles still queued, applied in
their order, turn the framebuffer into `ideal`. A thread may decode out of order
because a rectangle that is `Available` conflicts with nothing in front of it, so its
effect may be moved to the front (lemmas on `Painted`); a stream decoder's rectangles
have consecutive places in their stream, and a buffer keeps its data until its entry
has left the queue. The history variable that remembers the results is stated by
`Result`.

`DamageComplete` and `PublishedWhole` hold for every budget, number of views, sizes
and updates. `Tracked` says that every pixel in which a view differs from the latest
picture is in the damage of its mailbox, of the publisher or of the session; `Covers`,
`Sized` and `InTime` say the same across a change of size, a skipped frame and a
delivery under way.

`WorkersSuffice`, that enough threads are about to look for the rectangles that can
be decoded, is a count. `decodeRect()` wakes one thread for the one rectangle it adds,
and a thread that takes a rectangle is one looker and one decodable rectangle less,
while it makes no other rectangle decodable (`Available` depends on what is in front,
not on whether it is active). A thread that takes an entry off the queue may make any
number of rectangles decodable, which is why it wakes all unless only one is left, and
then it looks itself. `NotifyInv` adds that only the destructor stops threads, with
the queue empty. The set of threads is assumed to be finite.

`ReverseConnectionsProofs` proves `OwnedOnce`, `TerminalDelivered` and
`DrainedMeansJoined` for every number of peers, hosts, parked peers, queue places and
session slots. `JobKnown` and `Slots` tie each job thread, its place in the runtime's
list and the slot it holds together, step by step of the coordinator; `PeerKnown`,
`HostsKnown` and `StreamKnown` tie the owner of a socket to what has been published
about its peer, and the room left in queue and stamps to what must still be said.

`UpdateProtocolProofs` proves `DecodedInOwnFormat` and `SingleUpdateInFlight` for
every set of formats and sizes and any number of changes, resizes, selections and
refreshes. Before continuous updates, `Opening` and `Reading` list what may be in
flight: one request or one answer, in front of which a format was selected. With
continuous updates, `Asked` describes the messages to the server and `Answered` those
to the viewer. A format is selected right behind the message that ends continuous
updates, and between the two the server must not write data. It is `Quiet` there,
because a request made in this mode is not incremental, and such a request is
answered with the desktop's size, which takes the request back
(`writeNoDataUpdate()`); the exception is the request that was in flight when
continuous updates began, which the first Enable message cancels. The mark that
comes back divides the formats of the updates around it.

`SessionWorkerProofs` proves the eight invariants of `SessionWorker` for every number of
host threads, attempts, operations and commands and every queue capacity:
`IdleIsSettled`, `DisconnectMeansDrained`, `TerminalMeansRetry`,
`CancelHitsItsAttempt`, `ConfirmedCancelHolds`, `CancelledNeverRan`, `SlotsAccounted`
and `WorkNotStranded`. Their common inductive invariant `WorkerInv` says what the
gate's flags mean at every place of the worker (`Phases`), what the worker can hold
there (`Resources`), and what has been published (`StateKnown`). `OperationsKnown`
gives every pending operation a holder: the attempt, the queue, the
executing command or the layout request on the wire; with it, completing what the
holders have completes everything. `HostsKnown` and `ControlsKnown` follow a call
into its unlocked half: the errand concerns the attempt it was started for, and as
generations only grow, it cannot touch a later one. `Wakes` is the argument against a
lost wake-up: while the worker drains, a wake-up is under way or what is queued and
already drained fits in one round. There is one lemma per action; actions that move
the worker, publish, overflow or close share theirs (`MoveStep`, `ThrownStep`,
`CloseStep`).

`InputPathProofs` proves the three invariants of `InputPath` and the action property
`SentAsAccepted`, for every set of keys and symbols, every queue capacity, and any
number of hosts, routes and attempts; only the emulator's table is a fixed thing, and
its lemmas look at it row by row. `InputInv` is the conjunction of

* `IoKnown`: the connection's own knowledge. The held keys are what the server holds
  down; the emulator shows what its state says; a timer runs only for input of its own
  attempt and, if it is the pointer's, for buttons already sent.
* `LinkKnown`, `QueueKnown`, `HandKnown`, `RoutesKnown`: what is queued was accepted
  under the present route; the command in hand is of that route exactly as long as no
  release has come after it; the worker is never ahead of the mailbox. `RoutesKnown`
  also says what a timer may rely on that tests a route it took earlier: a pointer
  timer of the present route means that the emulator still serves this route.
* `PressKnown`: with no release to come, something is pressed only on the present
  route where input is allowed. It gives `NoStuckInput`.
* `PathKnown`: server, delayed motion, command in hand, queue and host are at
  non-decreasing places of the pointer's path. With `HandKnown` it gives `SentAsAccepted`.
* `Accounted`: what the hosts were told is what the queue makes of what the worker
  has, for buttons, place and keys. `push()` merges motion and refuses when full, so
  this is a statement on every prefix of the queue (`ButtonsBefore`, `PlaceBefore`,
  `DownAtEnd`).
* `Budgeted`: without a signal to come, a release and what is queued fit into what is
  left of the round; it is the one place where `Capacity + 1` matters. With
  `Accounted` it gives `InputArrives`.

A write of the worker is composed of `SendPointer`, `FlushPointer`, `Acted` and
`ReleaseInput`; each has lemmas on what it keeps of `IoKnown`, which the lemmas on the
actions cite.

All invariants were checked by TLC on the instances of the runs before they were
proved. Assumptions are those of the modules: bounds are naturals, sets of sizes and
servers are not empty. Budgets may be any: only `ViewsCatchUp`, which is not proved,
needs an ample one.

Some definitions were restated for the proofs, with the same meaning:
`SessionRuntime`, `ListenerWorker` and `SessionWorker` remove the first match from a
list, as the code does, where they filtered it before, `InFlight` counts places in
a stream, and `SendBatch` sends the at most three events of a batch one after the other
where it folded over them.

Only model-checked: liveness, that is, every property with fairness and the fairness
half of `ImplementsLedger`, which is out of the prover's reach.

## Not modelled

* The single-shot sessions of `start()` and `connect()`: one attempt of the same
  code. `ListenerRuntime`: the code of `SessionRuntime` again.
* `SessionScheduler`'s list of timers: sequential code of the worker; its timers
  are one-shot callbacks that may fire whenever they are pending.
* Encodings and statistics in `ProtocolSession`: values that are reported.
* In `UpdateProtocol`: fences, the congestion window (a choice), rendered cursors,
  access rights, servers without ExtendedDesktopSize. In `ClipboardChannel`:
  budget accounting (a choice), the fallback for unsolicited text that is too
  large, and overlapping offers of the server, which the protocol cannot tell
  apart (viewer/README.md says so).
* The bridge's handle table and `CallbackService`, and `ShortcutState`: worth a
  module later.
* Parsing, configuration, geometry, rendering, logging, message formats,
  handshakes and cryptography: sequential, or output. Front ends, the X server
  module and the platform servers: outside the session core. Socket code is
  system calls; its wake and cancel signals are part of `SessionWorker` and
  `ListenerWorker`.

Most of the repository's lines are in these last groups: key tables, widgets,
codecs, X and Windows glue. They have no interleavings, and a model of them
would be a copy.

## Plan

1. `CallbackService`: coalesced callbacks, none after close.
2. `ShortcutState` and the scheduler as time allows.

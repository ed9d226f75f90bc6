------------------------- MODULE SessionWorkerProofs -------------------------
(***************************************************************************)
(* Proofs about SessionWorker, for every number of host threads, attempts, *)
(* operations and commands.                                                *)
(***************************************************************************)
EXTENDS SessionWorker, NaturalsInduction, WellFoundedInduction, SequenceTheorems, TLAPS

----------------------------------------------------------------------------
(* The inductive invariant *)

\* Where the worker is: setting up, in the session loop, after the terminal boundary.
Setup == {"prepare", "connecting", "starting", "start", "started"}
Session == {"loop", "drain", "execute", "dispatch", "message", "prompt", "boundary", "flush", "wait"}
Ending == {"disconnecting", "closing", "cancelling", "joining", "retire"}
Running == Setup \cup Session \cup {"finish"} \cup Ending
Places == Running \cup {"idle", "asleep", "exit", "exited"}
\* ... and where the protocol may still have something.
Live == Session \cup {"finish", "disconnecting", "closing"}

\* What a host thread may have left to do.
Programs ==
  {<<>>, <<"notify">>, <<"auth", "notify">>,
   <<"auth", "request", "deliver">>, <<"request", "deliver">>, <<"deliver">>,
   <<"auth", "request", "deliver", "notify">>, <<"request", "deliver", "notify">>,
   <<"deliver", "notify">>, <<"wake", "deliver", "notify">>}
HostType == [then : Programs, scope : 0 .. MaxGeneration, gen : 0 .. MaxGeneration,
             target : {"setup", "transport"}, how : {"wake", "cancel"}]
HistoryType == [revoked : SUBSET Ids, executed : SUBSET Ids, closed : SUBSET (0 .. MaxGeneration)]

Types ==
  /\ TypeOK /\ pc \in Places /\ host \in [Hosts -> HostType] /\ history \in HistoryType
  /\ events.issued \in 0 .. MaxOperation

\* The gate and the worker's place agree.
Phases ==
  /\ gate.attemptActive = TRUE <=> gate.pendingAttempt = TRUE \/ pc \in Running
  /\ gate.pendingAttempt = TRUE => pc \in {"idle", "asleep"}
  /\ gate.attemptActive = TRUE => generation >= 1 /\ (gate.finishing = TRUE <=> pc \in Ending)
  /\ pc \in {"exit", "exited"} => gate.stopping = TRUE \/ events.sealed = TRUE
  /\ gate.finishing = TRUE \/ cancelled = TRUE => gate.commandsClosed = TRUE
  /\ gate.stopping = TRUE => gate.finishing = TRUE \/ cancelled = TRUE

\* What the worker holds, it holds in certain places only.
Resources ==
  /\ worker.executing # 0 <=> pc = "execute"
  /\ worker.resizeOperation # 0 => pc \in Live /\ worker.resizePending = TRUE
  /\ worker.unanswered = IF worker.resizePending = TRUE THEN 1 ELSE 0
  /\ worker.resizePending = TRUE \/ worker.ready = TRUE => pc \in Live
  /\ worker.transport = TRUE => pc \in {"starting", "start", "started", "cancelling", "joining"} \cup Live
  /\ watch.observer # "none" => pc \in Live \cup {"cancelling", "joining"}
  /\ router = IF pc \in Running \ {"prepare", "retire"} THEN generation ELSE 0
  /\ auth.accepting = TRUE => pc \in {"started"} \cup Live
  /\ auth.accepting = FALSE => auth.status # "Waiting"
  /\ pc \in {"started"} \cup Session => auth.generation = generation
  /\ watch.observer = "auth" => watch.peerClosed = TRUE \/ watch.failed = TRUE

\* The state that was published.
StateKnown ==
  /\ events.generation <= generation
  /\ events.sealed = FALSE =>
       /\ gate.attemptActive = FALSE => events.state \in {"Idle", "Closed", "Failed"}
       /\ gate.pendingAttempt = TRUE \/ pc = "prepare" =>
            events.state \in {"Idle", "Closed", "Failed"} /\ events.generation < generation
       /\ pc \in Running \ {"prepare"} => events.state \notin {"Closed", "Failed"}
       /\ events.state = "Connected" => pc \in Session \cup {"finish", "disconnecting"}

\* The queue of commands.
Distinct(q) == \A i, k \in 1 .. Len(q) : q[i] = q[k] => i = k
QueueKnown ==
  /\ Distinct(gate.commands)
  /\ worker.executing \notin ToSet(gate.commands) /\ worker.resizeOperation \notin ToSet(gate.commands)
  /\ gate.commands # <<>> => pc \in Session \cup {"finish"}
  /\ \A id \in ToSet(gate.commands) : /\ id <= events.issued /\ events.op[id].kind \in CommandKinds
                                      /\ events.op[id].result \in {"pending", "Failed"}
  /\ gate.commandsClosed = TRUE \/ pc \notin Session \cup {"finish"} =>
       gate.commands = <<>> /\ \A kind \in Exclusive : gate.queued[kind] = 0
  /\ pc # "finish" => \A kind \in Exclusive :
       gate.queued[kind] \in {0, worker.executing} \cup ToSet(gate.commands)

\* Every pending operation is somebody's, and of its kind.
Owned == {gate.connectOperation, gate.disconnectOperation, worker.executing, worker.resizeOperation}
           \cup ToSet(gate.commands)
OperationsKnown ==
  /\ \A id \in Ids : /\ id > events.issued => events.op[id].result = "none"
                     /\ events.op[id].generation <= generation
                     /\ events.op[id].result = "pending" => id \in Owned /\ events.sealed = FALSE
  /\ gate.connectOperation # 0 =>
       /\ gate.attemptActive = TRUE /\ gate.connectOperation <= events.issued
       /\ events.op[gate.connectOperation].kind = "connect"
  /\ gate.disconnectOperation # 0 =>
       /\ gate.attemptActive = TRUE /\ gate.cancelled = TRUE /\ gate.disconnectOperation <= events.issued
       /\ events.op[gate.disconnectOperation].kind = "disconnect"
  /\ worker.executing # 0 =>
       /\ worker.executing <= events.issued /\ events.op[worker.executing].kind \in CommandKinds
       /\ events.op[worker.executing].result \in {"pending", "Failed"}
  /\ worker.resizeOperation # 0 =>
       /\ worker.resizeOperation <= events.issued
       /\ events.op[worker.resizeOperation].kind = "DesktopLayout"

\* What has become of operations.
OutcomesKnown ==
  /\ \A id \in Ids : events.op[id].kind = "disconnect" /\ events.op[id].result = "Succeeded" =>
                       generation > events.op[id].generation \/ gate.attemptActive = FALSE
  /\ \A id \in history.revoked : /\ id <= events.issued /\ events.op[id].kind = "connect"
                                 /\ events.op[id].result # "Succeeded"
                                 /\ id = gate.connectOperation => cancelled = TRUE
  /\ \A id \in history.executed :
       /\ id <= events.issued /\ events.op[id].kind \in CommandKinds
       /\ events.op[id].result \in {"Succeeded", "Failed"} \/ events.op[id].kind = "DesktopLayout"

\* What a host has left to do concerns the attempt it was started for.
HostKnown(h) ==
  /\ host[h].then = <<>> => host[h] = Idle
  /\ host[h].gen <= generation /\ host[h].scope <= generation
  /\ Enroute(h, "auth") => /\ host[h].scope = 0 => gate.stopping = TRUE
                           /\ host[h].scope = generation => cancelled = TRUE \/ gate.stopping = TRUE
  /\ Enroute(h, "request") => host[h].gen >= 1 /\ host[h].gen \in history.closed
  /\ Enroute(h, "deliver") => Enroute(h, "wake") \/ host[h].gen >= 1
  /\ host[h].how = "cancel" => host[h].gen \in history.closed /\ ~Enroute(h, "wake")
HostsKnown == \A h \in Hosts : HostKnown(h)

\* The controls of the attempts.
ControlsKnown ==
  /\ \A g \in Generations : control[g].closing = TRUE => g \in history.closed
  /\ \A g \in Generations : g > generation => control[g].setupCancelled = FALSE
  /\ gate.finishing = FALSE /\ generation >= 1 /\ control[generation].setupCancelled = TRUE =>
       generation \in history.closed
  /\ gate.pendingAttempt = TRUE \/ pc \in {"prepare", "connecting"} => control[generation].connecting = TRUE
  /\ pc \in {"starting", "start", "started"} \cup Session => control[generation].connecting = FALSE

\* The worker's wait has been ended, or a host is about to end it; likewise its setup,
\* its prompt and its sleep.
WaitTold == control[generation].woken = TRUE \/ \E h \in Hosts : Signalling(h, "transport")
SetupTold == control[generation].setupCancelled = TRUE \/ \E h \in Hosts : Signalling(h, "setup")
PromptTold == \E h \in Hosts : Enroute(h, "auth") /\ InScope(host[h].scope)
Notified == \E h \in Hosts : Enroute(h, "notify")
Covered == WaitTold \/ \E h \in Hosts : Enroute(h, "wake")

Waking == {"dispatch", "message", "prompt", "boundary", "flush", "wait"}
Wakes ==
  /\ pc \in {"loop", "drain", "execute"} =>
       Covered \/ Len(gate.commands) + worker.drained <= CommandCapacity
  /\ pc \in Waking => Covered \/ gate.commands = <<>>
  /\ pc \notin {"drain", "execute", "finish"} => worker.drained = 0
  /\ pc = "asleep" /\ (gate.pendingAttempt = TRUE \/ gate.stopping = TRUE \/ events.sealed = TRUE) => Notified

\* An accepted cancellation is on its way, and it is this attempt's.
Cancels ==
  /\ pc = "prompt" /\ auth.status = "Cancelled" => cancelled = TRUE
  /\ pc = "prompt" /\ auth.status = "PeerClosed" => watch.peerClosed = TRUE \/ watch.failed = TRUE
  /\ cancelled = TRUE =>
       /\ pc \in Session => auth.accepting = FALSE \/ PromptTold
       /\ pc = "prompt" => auth.status # "Waiting" \/ PromptTold
       /\ pc = "connecting" => SetupTold
       /\ pc = "wait" => WaitTold

WorkerInv ==
  /\ Types /\ Phases /\ Resources /\ StateKnown /\ QueueKnown /\ OperationsKnown /\ OutcomesKnown
  /\ HostsKnown /\ ControlsKnown /\ Wakes /\ Cancels

----------------------------------------------------------------------------
(* What a host has left to do *)

\* The steps in each of the programs ...
LEMMA ProgramSets ==
  /\ ToSet(<<>>) = {} /\ ToSet(<<"notify">>) = {"notify"} /\ ToSet(<<"deliver">>) = {"deliver"}
  /\ ToSet(<<"auth", "notify">>) = {"auth", "notify"}
  /\ ToSet(<<"request", "deliver">>) = {"request", "deliver"}
  /\ ToSet(<<"deliver", "notify">>) = {"deliver", "notify"}
  /\ ToSet(<<"auth", "request", "deliver">>) = {"auth", "request", "deliver"}
  /\ ToSet(<<"request", "deliver", "notify">>) = {"request", "deliver", "notify"}
  /\ ToSet(<<"wake", "deliver", "notify">>) = {"wake", "deliver", "notify"}
  /\ ToSet(<<"auth", "request", "deliver", "notify">>) = {"auth", "request", "deliver", "notify"}
BY DEF ToSet

\* ... what is left of them after one ...
LEMMA ProgramTails ==
  /\ Tail(<<"notify">>) = <<>> /\ Tail(<<"deliver">>) = <<>>
  /\ Tail(<<"auth", "notify">>) = <<"notify">>
  /\ Tail(<<"request", "deliver">>) = <<"deliver">>
  /\ Tail(<<"deliver", "notify">>) = <<"notify">>
  /\ Tail(<<"auth", "request", "deliver">>) = <<"request", "deliver">>
  /\ Tail(<<"request", "deliver", "notify">>) = <<"deliver", "notify">>
  /\ Tail(<<"wake", "deliver", "notify">>) = <<"deliver", "notify">>
  /\ Tail(<<"auth", "request", "deliver", "notify">>) = <<"request", "deliver", "notify">>
OBVIOUS

\* ... and which comes first.
LEMMA ProgramHeads ==
  /\ Head(<<"notify">>) = "notify" /\ Head(<<"deliver">>) = "deliver"
  /\ Head(<<"auth", "notify">>) = "auth"
  /\ Head(<<"request", "deliver">>) = "request"
  /\ Head(<<"deliver", "notify">>) = "deliver"
  /\ Head(<<"auth", "request", "deliver">>) = "auth"
  /\ Head(<<"request", "deliver", "notify">>) = "request"
  /\ Head(<<"wake", "deliver", "notify">>) = "wake"
  /\ Head(<<"auth", "request", "deliver", "notify">>) = "auth"
OBVIOUS

\* What a step is followed by.
LEMMA ProgramFacts ==
  ASSUME NEW p \in Programs, NEW r, r = Tail(p), p # <<>>
  PROVE  /\ r \in Programs /\ Head(p) \in {"auth", "request", "wake", "deliver", "notify"}
         /\ Head(p) = "auth" => ToSet(p) = {"auth"} \cup ToSet(r) /\ "auth" \notin ToSet(r) /\ "wake" \notin ToSet(r)
         /\ Head(p) = "request" => /\ ToSet(p) = {"request"} \cup ToSet(r) /\ "deliver" \in ToSet(r)
                                   /\ ToSet(r) \subseteq {"deliver", "notify"}
         /\ Head(p) = "wake" => /\ ToSet(p) = {"wake", "deliver", "notify"} /\ r = <<"deliver", "notify">>
                                /\ ToSet(r) = {"deliver", "notify"} /\ Tail(r) = <<"notify">>
                                /\ ToSet(Tail(r)) = {"notify"}
         /\ Head(p) = "deliver" => ToSet(p) = {"deliver"} \cup ToSet(r) /\ ToSet(r) \subseteq {"notify"}
         /\ Head(p) = "notify" => r = <<>> /\ ToSet(r) = {} /\ ToSet(p) = {"notify"}
<1>1. CASE p = <<"notify">>
  BY <1>1, ProgramSets, ProgramTails, ProgramHeads DEF Programs
<1>2. CASE p = <<"auth", "notify">>
  BY <1>2, ProgramSets, ProgramTails, ProgramHeads DEF Programs
<1>3. CASE p = <<"auth", "request", "deliver">>
  BY <1>3, ProgramSets, ProgramTails, ProgramHeads DEF Programs
<1>4. CASE p = <<"request", "deliver">>
  BY <1>4, ProgramSets, ProgramTails, ProgramHeads DEF Programs
<1>5. CASE p = <<"deliver">>
  BY <1>5, ProgramSets, ProgramTails, ProgramHeads DEF Programs
<1>6. CASE p = <<"auth", "request", "deliver", "notify">>
  BY <1>6, ProgramSets, ProgramTails, ProgramHeads DEF Programs
<1>7. CASE p = <<"request", "deliver", "notify">>
  BY <1>7, ProgramSets, ProgramTails, ProgramHeads DEF Programs
<1>8. CASE p = <<"deliver", "notify">>
  BY <1>8, ProgramSets, ProgramTails, ProgramHeads DEF Programs
<1>9. CASE p = <<"wake", "deliver", "notify">>
  BY <1>9, ProgramSets, ProgramTails, ProgramHeads DEF Programs
<1> QED
  BY <1>1, <1>2, <1>3, <1>4, <1>5, <1>6, <1>7, <1>8, <1>9 DEF Programs

----------------------------------------------------------------------------
(* Records *)

\* Ids and generations are numbers; 0 stands for none.
LEMMA Widths == 0 .. MaxOperation \subseteq Nat /\ Ids \subseteq Nat /\ 0 .. MaxGeneration \subseteq Nat
                /\ (\A i \in Ids : i \in 0 .. MaxOperation /\ i # 0)
                /\ (\A i \in 0 .. MaxOperation : i # 0 => i \in Ids)
                /\ (\A g \in 0 .. MaxGeneration : g >= 1 <=> g \in Generations)
BY WorkerBounds DEF Ids, Generations

\* The fields of the gate, of the event stream, of the worker and of the
\* rest.
LEMMA GateFields ==
  ASSUME NEW g \in Gate
  PROVE  /\ g.stopping \in BOOLEAN /\ g.attemptActive \in BOOLEAN /\ g.pendingAttempt \in BOOLEAN
         /\ g.generation \in 0 .. MaxGeneration /\ g.connectOperation \in 0 .. MaxOperation
         /\ g.disconnectOperation \in 0 .. MaxOperation /\ g.commandsClosed \in BOOLEAN
         /\ g.finishing \in BOOLEAN /\ g.cancelled \in BOOLEAN /\ g.commands \in Seq(Ids)
         /\ g.queued \in [Exclusive -> 0 .. MaxOperation] /\ g.revision \in 1 .. MaxRevision
BY DEF Gate

LEMMA EventsFields ==
  ASSUME NEW e \in Events
  PROVE  /\ e.op \in [Ids -> Operation] /\ e.issued \in 0 .. MaxOperation /\ e.sealed \in BOOLEAN
         /\ e.generation \in 0 .. MaxGeneration
         /\ e.state \in {"Idle", "Connecting", "Negotiating", "Connected", "Disconnecting", "Closed", "Failed"}
         /\ \A id \in Ids : /\ e.op[id] \in Operation /\ e.op[id].generation \in 0 .. MaxGeneration
                            /\ e.op[id].kind \in {"none", "connect", "disconnect"} \cup CommandKinds
                            /\ e.op[id].result \in {"none", "pending", "Succeeded", "Failed", "Cancelled"}
<1>1. /\ e.op \in [Ids -> Operation] /\ e.issued \in 0 .. MaxOperation /\ e.sealed \in BOOLEAN
      /\ e.generation \in 0 .. MaxGeneration
      /\ e.state \in {"Idle", "Connecting", "Negotiating", "Connected", "Disconnecting", "Closed", "Failed"}
  BY DEF Events
<1>2. \A o \in Operation : /\ o.generation \in 0 .. MaxGeneration
                           /\ o.kind \in {"none", "connect", "disconnect"} \cup CommandKinds
                           /\ o.result \in {"none", "pending", "Succeeded", "Failed", "Cancelled"}
  BY DEF Operation
<1> QED
  BY <1>1, <1>2

LEMMA WorkerFields ==
  ASSUME NEW w \in Worker
  PROVE  /\ w.executing \in 0 .. MaxOperation /\ w.drained \in 0 .. CommandCapacity
         /\ w.progressed \in BOOLEAN /\ w.transport \in BOOLEAN /\ w.ready \in BOOLEAN
         /\ w.resizeOperation \in 0 .. MaxOperation /\ w.resizePending \in BOOLEAN
         /\ w.unanswered \in Nat
         /\ w.result \in {"None", "Cancelled", "PeerClosed", "EventOverflow", "Failure"}
BY DEF Worker

LEMMA SideFields ==
  ASSUME Types
  PROVE  /\ gate \in Gate /\ events \in Events /\ auth \in Auth /\ worker \in Worker /\ watch \in Watch
         /\ control \in [Generations -> Control] /\ router \in 0 .. MaxGeneration
         /\ pc \in Places /\ host \in [Hosts -> HostType] /\ history \in HistoryType
         /\ Len(gate.commands) <= CommandCapacity
         /\ auth.accepting \in BOOLEAN /\ auth.generation \in 0 .. MaxGeneration
         /\ auth.status \in {"Waiting", "Cancelled", "PeerClosed"}
         /\ watch.observer \in {"none", "watching", "auth", "wake", "done"}
         /\ watch.peerClosed \in BOOLEAN /\ watch.failed \in BOOLEAN
         /\ history.revoked \in SUBSET Ids /\ history.executed \in SUBSET Ids
         /\ history.closed \in SUBSET (0 .. MaxGeneration)
<1>1. /\ gate \in Gate /\ events \in Events /\ auth \in Auth /\ worker \in Worker /\ watch \in Watch
      /\ control \in [Generations -> Control] /\ router \in 0 .. MaxGeneration
      /\ pc \in Places /\ host \in [Hosts -> HostType] /\ history \in HistoryType
      /\ Len(gate.commands) <= CommandCapacity
  BY DEF Types, TypeOK
<1>2. /\ auth.accepting \in BOOLEAN /\ auth.generation \in 0 .. MaxGeneration
      /\ auth.status \in {"Waiting", "Cancelled", "PeerClosed"}
  BY <1>1 DEF Auth
<1>3. /\ watch.observer \in {"none", "watching", "auth", "wake", "done"}
      /\ watch.peerClosed \in BOOLEAN /\ watch.failed \in BOOLEAN
  BY <1>1 DEF Watch
<1>4. /\ history.revoked \in SUBSET Ids /\ history.executed \in SUBSET Ids
      /\ history.closed \in SUBSET (0 .. MaxGeneration)
  BY <1>1 DEF HistoryType
<1> QED
  BY <1>1, <1>2, <1>3, <1>4

\* The event stream's operators.
Results == {"Succeeded", "Failed", "Cancelled"}
\* complete() changes the results of pending operations of the set, and
\* nothing else.
LEMMA CompletedFacts ==
  ASSUME NEW e \in Events, NEW S, NEW r \in Results, NEW d, d = Completed(e, S, r)
  PROVE  /\ d \in Events /\ d.issued = e.issued /\ d.sealed = e.sealed /\ d.state = e.state
         /\ d.generation = e.generation
         /\ \A id \in Ids :
              /\ d.op[id].kind = e.op[id].kind /\ d.op[id].generation = e.op[id].generation
              /\ d.op[id].result = IF id \in S /\ e.op[id].result = "pending" THEN r ELSE e.op[id].result
<1> DEFINE P == S \cap Pending(e)
           o == [id \in Ids |-> IF id \in P THEN [e.op[id] EXCEPT !.result = r] ELSE e.op[id]]
<1>1. e.op \in [Ids -> Operation]
  BY EventsFields
<1>2. d = [e EXCEPT !.op = o]
  BY DEF Completed
<1>3. \A x \in Operation : LET y == [x EXCEPT !.result = r] IN
        y \in Operation /\ y.kind = x.kind /\ y.generation = x.generation /\ y.result = r
  BY DEF Operation, Results
<1>4. \A id \in Ids : id \in P <=> id \in S /\ e.op[id].result = "pending"
  BY DEF Pending
<1>5. \A id \in Ids : /\ o[id] \in Operation /\ o[id].kind = e.op[id].kind
                      /\ o[id].generation = e.op[id].generation
                      /\ o[id].result = IF id \in P THEN r ELSE e.op[id].result
  BY <1>1, <1>3
<1>6. o \in [Ids -> Operation]
  BY <1>5
<1> HIDE DEF o, P
<1>7. /\ d \in Events /\ d.issued = e.issued /\ d.sealed = e.sealed /\ d.state = e.state
      /\ d.generation = e.generation /\ d.op = o
  BY <1>2, <1>6 DEF Events
<1> QED
  BY <1>4, <1>5, <1>7

\* reserve() adds one pending operation with a new id.
LEMMA ReservedFacts ==
  ASSUME events \in Events, events.issued < MaxOperation,
         NEW kind \in {"connect", "disconnect"} \cup CommandKinds, NEW g \in 0 .. MaxGeneration,
         NEW d, d = Reserved(events, kind, g)
  PROVE  /\ d \in Events /\ d.issued = events.issued + 1 /\ d.sealed = events.sealed
         /\ d.state = events.state /\ d.generation = events.generation
         /\ NextId \in Ids /\ NextId = events.issued + 1 /\ d.op[NextId].kind = kind
         /\ d.op[NextId].generation = g /\ d.op[NextId].result = "pending"
         /\ \A id \in Ids : id # NextId => d.op[id] = events.op[id]
<1> DEFINE n == events.issued + 1
           x == [kind |-> kind, generation |-> g, result |-> "pending"]
           o == [events.op EXCEPT ![n] = x]
<1>1. events.op \in [Ids -> Operation] /\ events.issued \in 0 .. MaxOperation
  BY EventsFields
<1>2. n \in Ids /\ n \in 0 .. MaxOperation
  BY <1>1, WorkerBounds DEF Ids
<1>3. d = [events EXCEPT !.issued = n, !.op = o]
  BY DEF Reserved, NextId
<1>4. x \in Operation /\ x.kind = kind /\ x.generation = g /\ x.result = "pending"
  BY DEF Operation
<1> HIDE DEF x
<1>5. o \in [Ids -> Operation] /\ o[n] = x /\ \A id \in Ids : id # n => o[id] = events.op[id]
  BY <1>1, <1>2, <1>4
<1> HIDE DEF o, n
<1>6. /\ d \in Events /\ d.issued = n /\ d.sealed = events.sealed /\ d.state = events.state
      /\ d.generation = events.generation /\ d.op = o
  BY <1>2, <1>3, <1>5 DEF Events
<1> QED
  BY <1>2, <1>4, <1>5, <1>6 DEF n, NextId

\* overflow() fails every pending operation ...
LEMMA OverflowedFacts ==
  ASSUME NEW e \in Events, NEW d, d = Overflowed(e)
  PROVE  /\ d \in Events /\ d.issued = e.issued
         /\ d.generation = e.generation
         /\ \A id \in Ids :
              /\ d.op[id].kind = e.op[id].kind /\ d.op[id].generation = e.op[id].generation
              /\ e.op[id].result = "pending" => d.op[id].result = "Failed"
              /\ e.op[id].result # "pending" => d.op[id].result = e.op[id].result
<1> DEFINE c == Completed(e, Ids, "Failed")
<1>1. /\ c \in Events /\ c.issued = e.issued /\ c.generation = e.generation
      /\ \A id \in Ids :
           /\ c.op[id].kind = e.op[id].kind /\ c.op[id].generation = e.op[id].generation
           /\ c.op[id].result = IF e.op[id].result = "pending" THEN "Failed" ELSE e.op[id].result
  BY CompletedFacts DEF Results
<1>2. d = [c EXCEPT !.sealed = TRUE, !.state = "Failed"]
  BY DEF Overflowed
<1> HIDE DEF c
<1>3. /\ d \in Events /\ d.issued = c.issued /\ d.sealed = TRUE /\ d.state = "Failed"
      /\ d.generation = c.generation /\ d.op = c.op
  BY <1>1, <1>2 DEF Events
<1> QED
  BY <1>1, <1>3

\* ... and seals the stream.
LEMMA OverflowedSealed ==
  ASSUME NEW e \in Events, NEW d, d = Overflowed(e)
  PROVE  d.sealed = TRUE /\ d.state = "Failed"
<1> DEFINE c == Completed(e, Ids, "Failed")
<1>1. c \in Events
  BY CompletedFacts DEF Results
<1>2. d = [c EXCEPT !.sealed = TRUE, !.state = "Failed"]
  BY DEF Overflowed
<1> HIDE DEF c
<1> QED
  BY <1>1, <1>2 DEF Events

\* publish() changes the state, unless the stream is sealed.
LEMMA PublishedFacts ==
  ASSUME gate \in Gate, NEW e \in Events, NEW d, NEW s, d = Published(e, s),
         s \in {"Idle", "Connecting", "Negotiating", "Connected", "Disconnecting", "Closed", "Failed"}
  PROVE  /\ d \in Events /\ d.issued = e.issued /\ d.sealed = e.sealed /\ d.op = e.op
         /\ e.sealed = TRUE => d = e
         /\ e.sealed = FALSE => d.state = s /\ d.generation = generation
<1>1. e.sealed \in BOOLEAN /\ generation \in 0 .. MaxGeneration
  BY GateFields, EventsFields DEF generation
<1> QED
  BY <1>1 DEF Published, Events

----------------------------------------------------------------------------
(* Sequences *)

\* The elements of a sequence.
LEMMA Elements ==
  ASSUME NEW S, NEW q \in Seq(S)
  PROVE  /\ Len(q) \in Nat /\ ToSet(q) \subseteq S
         /\ \A x : x \in ToSet(q) <=> \E i \in 1 .. Len(q) : q[i] = x
         /\ q = <<>> <=> ToSet(q) = {}
         /\ q = <<>> <=> Len(q) = 0
<1>1. Len(q) \in Nat /\ DOMAIN q = 1 .. Len(q) /\ (q = <<>> <=> Len(q) = 0) /\ \A i \in 1 .. Len(q) : q[i] \in S
  OBVIOUS
<1>2. \A x : x \in ToSet(q) <=> \E i \in 1 .. Len(q) : q[i] = x
  BY <1>1 DEF ToSet
<1>3. Len(q) # 0 => 1 \in 1 .. Len(q)
  BY <1>1
<1>4. Len(q) = 0 => 1 .. Len(q) = {}
  BY <1>1
<1> QED
  BY <1>1, <1>2, <1>3, <1>4

\* A set of numbers has a least one: where RemoveFirst() looks.
LEMMA LeastNumber ==
  ASSUME NEW S \in SUBSET Nat, S # {}
  PROVE  Min(S) \in S /\ \A y \in S : Min(S) <= y
<1>1. OpToRel(<, Nat) = {pair \in Nat \X Nat : pair[1] < pair[2]}
  BY DEF OpToRel
<1>2. IsWellFoundedOn(OpToRel(<, Nat), Nat)
  BY NatLessThanWellFounded
<1>3. PICK x \in S : \A y \in S : ~(<<y, x>> \in OpToRel(<, Nat))
  BY <1>2, WFMin
<1>4. ASSUME NEW y \in S PROVE x <= y
  <2>1. ~(<<y, x>> \in {pair \in Nat \X Nat : pair[1] < pair[2]})
    BY <1>1, <1>3
  <2> QED
    BY <2>1
<1> QED
  BY <1>4 DEF Min

\* What RemoveAt() leaves ...
LEMMA Removed ==
  ASSUME NEW S, NEW q \in Seq(S), NEW k \in 1 .. Len(q)
  PROVE  /\ RemoveAt(q, k) \in Seq(S) /\ Len(RemoveAt(q, k)) = Len(q) - 1
         /\ \A i \in 1 .. Len(q) - 1 : RemoveAt(q, k)[i] = IF i < k THEN q[i] ELSE q[i + 1]
<1> DEFINE head == SubSeq(q, 1, k - 1)
           tail == SubSeq(q, k + 1, Len(q))
<1>1. /\ head \in Seq(S) /\ Len(head) = k - 1 /\ \A i \in 1 .. k - 1 : head[i] = q[i]
      /\ tail \in Seq(S) /\ Len(tail) = Len(q) - k /\ \A i \in 1 .. Len(q) - k : tail[i] = q[k + i]
  OBVIOUS
<1>2. RemoveAt(q, k) = head \o tail
  BY DEF RemoveAt
<1> HIDE DEF head, tail
<1>3. /\ head \o tail \in Seq(S) /\ Len(head \o tail) = Len(q) - 1
      /\ \A i \in 1 .. Len(q) - 1 : (head \o tail)[i] = IF i <= k - 1 THEN head[i] ELSE tail[i - (k - 1)]
  <2>1. /\ head \o tail \in Seq(S) /\ Len(head \o tail) = Len(head) + Len(tail)
        /\ \A i \in 1 .. Len(head) + Len(tail) :
             (head \o tail)[i] = IF i <= Len(head) THEN head[i] ELSE tail[i - Len(head)]
    BY <1>1, ConcatProperties
  <2> QED
    BY <1>1, <2>1
<1>4. ASSUME NEW i \in 1 .. Len(q) - 1
      PROVE  (head \o tail)[i] = IF i < k THEN q[i] ELSE q[i + 1]
  <2>1. CASE i < k
    BY <1>1, <1>3, <2>1
  <2>2. CASE ~(i < k)
    <3>1. i - (k - 1) \in 1 .. Len(q) - k /\ k + (i - (k - 1)) = i + 1
      BY <2>2
    <3> QED
      BY <1>1, <1>3, <2>2, <3>1
  <2> QED
    BY <2>1, <2>2
<1> QED
  BY <1>2, <1>3, <1>4

\* ... of a sequence without repetitions.
LEMMA RemovedElements ==
  ASSUME NEW S, NEW q \in Seq(S), NEW k \in 1 .. Len(q), Distinct(q), NEW r, r = RemoveAt(q, k)
  PROVE  /\ r \in Seq(S) /\ Len(r) = Len(q) - 1 /\ Distinct(r)
         /\ \A x : x \in ToSet(r) <=> x \in ToSet(q) /\ x # q[k]
<1>1. /\ r \in Seq(S) /\ Len(r) = Len(q) - 1 /\ Len(q) \in Nat
      /\ \A i \in 1 .. Len(q) - 1 : r[i] = IF i < k THEN q[i] ELSE q[i + 1]
  BY Removed
<1>0. /\ \A x : x \in ToSet(q) <=> \E i \in 1 .. Len(q) : q[i] = x
      /\ \A x : x \in ToSet(r) <=> \E i \in 1 .. Len(r) : r[i] = x
  BY <1>1, Elements
<1>2. \A i \in 1 .. Len(r) : r[i] = (IF i < k THEN q[i] ELSE q[i + 1]) /\ i \in 1 .. Len(q) /\ i + 1 \in 1 .. Len(q)
  BY <1>1
<1>3. Distinct(r)
  <2> SUFFICES ASSUME NEW i \in 1 .. Len(r), NEW j \in 1 .. Len(r), i # j PROVE r[i] # r[j]
    BY DEF Distinct
  <2> DEFINE f(n) == IF n < k THEN n ELSE n + 1
  <2>1. r[i] = q[f(i)] /\ r[j] = q[f(j)] /\ f(i) \in 1 .. Len(q) /\ f(j) \in 1 .. Len(q)
    BY <1>2
  <2>2. f(i) # f(j)
    OBVIOUS
  <2> QED
    BY <2>1, <2>2 DEF Distinct
<1>4. ASSUME NEW x PROVE x \in ToSet(r) <=> x \in ToSet(q) /\ x # q[k]
  <2>1. ASSUME x \in ToSet(r) PROVE x \in ToSet(q) /\ x # q[k]
    <3>1. PICK i \in 1 .. Len(r) : r[i] = x
      BY <1>0, <2>1
    <3>2. CASE i < k
      BY <1>0, <1>2, <3>1, <3>2 DEF Distinct
    <3>3. CASE ~(i < k)
      <4>1. x = q[i + 1] /\ i + 1 \in 1 .. Len(q) /\ i + 1 # k
        BY <1>2, <3>1, <3>3
      <4> QED
        BY <1>0, <4>1 DEF Distinct
    <3> QED
      BY <3>2, <3>3
  <2>2. ASSUME x \in ToSet(q), x # q[k] PROVE x \in ToSet(r)
    <3>1. PICK i \in 1 .. Len(q) : q[i] = x
      BY <1>0, <2>2
    <3>2. CASE i < k
      <4>1. i \in 1 .. Len(r) /\ r[i] = x
        BY <1>1, <3>1, <3>2
      <4> QED
        BY <1>0, <4>1
    <3>3. CASE i > k
      <4>1. i - 1 \in 1 .. Len(r) /\ ~(i - 1 < k) /\ (i - 1) + 1 = i
        BY <1>1, <3>3
      <4>2. r[i - 1] = q[(i - 1) + 1]
        BY <1>2, <4>1
      <4>3. r[i - 1] = x
        BY <3>1, <4>1, <4>2
      <4> QED
        BY <1>0, <4>1, <4>3
    <3> QED
      BY <2>2, <3>1, <3>2, <3>3
  <2> QED
    BY <2>1, <2>2
<1> QED
  BY <1>1, <1>3, <1>4

\* The first element and the others; one that is removed; one that is added.
LEMMA TailElements ==
  ASSUME NEW S, NEW q \in Seq(S), q # <<>>, Distinct(q), NEW r, r = Tail(q)
  PROVE  /\ r \in Seq(S) /\ Len(r) = Len(q) - 1 /\ Distinct(r) /\ Head(q) \in S
         /\ \A x : x \in ToSet(q) <=> x = Head(q) \/ x \in ToSet(r)
         /\ Head(q) \notin ToSet(r)
<1>1. /\ r \in Seq(S) /\ Len(r) = Len(q) - 1 /\ Len(q) \in Nat /\ Len(q) # 0 /\ Head(q) = q[1] /\ Head(q) \in S
      /\ \A i \in 1 .. Len(r) : r[i] = q[i + 1]
  OBVIOUS
<1>2. /\ \A x : x \in ToSet(q) <=> \E i \in 1 .. Len(q) : q[i] = x
      /\ \A x : x \in ToSet(r) <=> \E i \in 1 .. Len(r) : r[i] = x
  BY <1>1, Elements
<1>3. \A i \in 1 .. Len(r) : i + 1 \in 1 .. Len(q) /\ i + 1 # 1
  BY <1>1
<1>4. \A i \in 1 .. Len(q) : i = 1 \/ (i - 1 \in 1 .. Len(r) /\ r[i - 1] = q[i])
  BY <1>1
<1>5. 1 \in 1 .. Len(q)
  BY <1>1
<1>6. Distinct(r)
  <2> SUFFICES ASSUME NEW i \in 1 .. Len(r), NEW k \in 1 .. Len(r), r[i] = r[k] PROVE i = k
    BY DEF Distinct
  <2>1. q[i + 1] = q[k + 1]
    BY <1>1
  <2>2. i + 1 = k + 1
    BY <1>3, <2>1 DEF Distinct
  <2> QED
    BY <2>2
<1>7. Head(q) \notin ToSet(r)
  BY <1>1, <1>2, <1>3, <1>5 DEF Distinct
<1>8. ASSUME NEW x PROVE x \in ToSet(q) <=> x = Head(q) \/ x \in ToSet(r)
  <2>1. ASSUME x \in ToSet(q) PROVE x = Head(q) \/ x \in ToSet(r)
    <3>1. PICK i \in 1 .. Len(q) : q[i] = x
      BY <1>2, <2>1
    <3> QED
      BY <1>1, <1>2, <1>4, <3>1
  <2>2. ASSUME x \in ToSet(r) PROVE x \in ToSet(q)
    <3>1. PICK i \in 1 .. Len(r) : r[i] = x
      BY <1>2, <2>2
    <3> QED
      BY <1>1, <1>2, <1>3, <3>1
  <2> QED
    BY <1>1, <1>2, <1>5, <2>1, <2>2
<1> QED
  BY <1>1, <1>6, <1>7, <1>8

\* Erasing a command from the queue takes away that command only.
LEMMA RemoveFirstElements ==
  ASSUME NEW S, NEW q \in Seq(S), Distinct(q), NEW p \in ToSet(q), NEW r, r = RemoveFirst(q, p)
  PROVE  /\ r \in Seq(S) /\ Len(r) = Len(q) - 1 /\ Distinct(r)
         /\ \A x : x \in ToSet(r) <=> x \in ToSet(q) /\ x # p
<1> DEFINE I == {i \in 1 .. Len(q) : q[i] = p}
           k == Min(I)
<1>1. I # {} /\ I \in SUBSET Nat /\ (\E i \in 1 .. Len(q) : q[i] = p)
  BY Elements
<1>2. r = RemoveAt(q, k)
  BY <1>1 DEF RemoveFirst, SelectInSeq
<1> HIDE DEF I, k
<1>3. k \in 1 .. Len(q) /\ q[k] = p
  <2>1. k \in I
    BY <1>1, LeastNumber DEF k
  <2> QED
    BY <2>1 DEF I
<1> QED
  BY <1>2, <1>3, RemovedElements

\* Queueing a new command adds that command only.
LEMMA AppendedElements ==
  ASSUME NEW S, NEW q \in Seq(S), Distinct(q), NEW x \in S, x \notin ToSet(q)
  PROVE  LET r == Append(q, x) IN
         /\ r \in Seq(S) /\ Len(r) = Len(q) + 1 /\ Distinct(r) /\ r # <<>>
         /\ \A y : y \in ToSet(r) <=> y \in ToSet(q) \/ y = x
<1> DEFINE r == Append(q, x)
<1>1. /\ r \in Seq(S) /\ Len(r) = Len(q) + 1 /\ Len(q) \in Nat /\ r # <<>>
      /\ (\A i \in 1 .. Len(q) : r[i] = q[i]) /\ r[Len(q) + 1] = x
  OBVIOUS
<1> HIDE DEF r
<1>2. \A i : i \in 1 .. Len(r) <=> i \in 1 .. Len(q) \/ i = Len(q) + 1
  BY <1>1
<1>3. /\ \A y : y \in ToSet(q) <=> \E i \in 1 .. Len(q) : q[i] = y
      /\ \A y : y \in ToSet(r) <=> \E i \in 1 .. Len(r) : r[i] = y
  BY <1>1, Elements
<1>4. \A y : y \in ToSet(r) <=> y \in ToSet(q) \/ y = x
  BY <1>1, <1>2, <1>3
<1>5. Distinct(r)
  BY <1>1, <1>2, <1>3 DEF Distinct
<1> QED
  BY <1>1, <1>4, <1>5 DEF r

----------------------------------------------------------------------------
(* The gate *)

NoSlots == [kind \in Exclusive |-> 0]
\* No exclusive slot is held.
LEMMA NoSlotsFacts == NoSlots \in [Exclusive -> 0 .. MaxOperation] /\ \A kind \in Exclusive : NoSlots[kind] = 0
BY WorkerBounds DEF NoSlots

\* The fields that no operation of the gate but one touches.
SameAttempt(g, d) ==
  /\ d.attemptActive = g.attemptActive /\ d.pendingAttempt = g.pendingAttempt /\ d.generation = g.generation
  /\ d.connectOperation = g.connectOperation

\* finishQueued() empties the queue and the slots.
LEMMA QueueClearedFacts ==
  ASSUME NEW g \in Gate, NEW d, d = QueueCleared(g)
  PROVE  /\ d \in Gate /\ SameAttempt(g, d) /\ d.disconnectOperation = g.disconnectOperation
         /\ d.stopping = g.stopping /\ d.commandsClosed = g.commandsClosed /\ d.finishing = g.finishing
         /\ d.cancelled = g.cancelled /\ d.revision = g.revision
         /\ d.commands = <<>> /\ d.queued = NoSlots
<1> DEFINE none == <<>>
<1>1. d = [g EXCEPT !.commands = none, !.queued = NoSlots] /\ none \in Seq(Ids)
  BY DEF QueueCleared, NoSlots
<1> HIDE DEF none
<1>2. /\ d \in Gate /\ SameAttempt(g, d) /\ d.disconnectOperation = g.disconnectOperation
      /\ d.stopping = g.stopping /\ d.commandsClosed = g.commandsClosed /\ d.finishing = g.finishing
      /\ d.cancelled = g.cancelled /\ d.revision = g.revision
      /\ d.commands = none /\ d.queued = NoSlots
  BY <1>1, NoSlotsFacts DEF Gate, SameAttempt
<1> QED
  BY <1>2 DEF none

\* A close also shuts the gate.
LEMMA ClosedFacts ==
  ASSUME NEW g \in Gate, NEW d, d = Closed(g)
  PROVE  /\ d \in Gate /\ SameAttempt(g, d) /\ d.disconnectOperation = g.disconnectOperation
         /\ d.stopping = g.stopping /\ d.commandsClosed = TRUE /\ d.finishing = g.finishing
         /\ d.cancelled = TRUE /\ d.revision = g.revision
         /\ d.commands = <<>> /\ d.queued = NoSlots
<1> DEFINE c == QueueCleared(g)
<1>1. d = [c EXCEPT !.commandsClosed = TRUE, !.cancelled = TRUE]
  BY DEF Closed
<1>2. /\ c \in Gate /\ SameAttempt(g, c) /\ c.disconnectOperation = g.disconnectOperation
      /\ c.stopping = g.stopping /\ c.finishing = g.finishing /\ c.revision = g.revision
      /\ c.commands = <<>> /\ c.queued = NoSlots
  BY QueueClearedFacts
<1> HIDE DEF c
<1>3. /\ d \in Gate /\ SameAttempt(c, d) /\ d.disconnectOperation = c.disconnectOperation
      /\ d.stopping = c.stopping /\ d.commandsClosed = TRUE /\ d.finishing = c.finishing
      /\ d.cancelled = TRUE /\ d.revision = c.revision
      /\ d.commands = c.commands /\ d.queued = c.queued
  BY <1>1, <1>2 DEF Gate, SameAttempt
<1> QED
  BY <1>2, <1>3 DEF SameAttempt

\* connect() opens the next attempt.
LEMMA AdmittedFacts ==
  ASSUME gate \in Gate, generation < MaxGeneration, NextId \in Ids, NEW d, d = Admitted(gate)
  PROVE  /\ d \in Gate /\ d.attemptActive = TRUE /\ d.pendingAttempt = TRUE
         /\ d.generation = gate.generation + 1 /\ d.connectOperation = NextId
         /\ d.disconnectOperation = gate.disconnectOperation /\ d.stopping = gate.stopping
         /\ d.commandsClosed = FALSE /\ d.finishing = FALSE /\ d.cancelled = FALSE
         /\ d.commands = gate.commands /\ d.queued = gate.queued
<1> DEFINE id == NextId
           n == gate.generation + 1
<1>1. id \in 0 .. MaxOperation /\ n \in 0 .. MaxGeneration
  BY GateFields, WorkerBounds DEF Ids, generation
<1>2. d = [gate EXCEPT !.connectOperation = id, !.generation = n, !.cancelled = FALSE,
             !.finishing = FALSE, !.commandsClosed = FALSE, !.attemptActive = TRUE, !.pendingAttempt = TRUE]
  BY DEF Admitted, Gate
<1> HIDE DEF id, n
<1>3. /\ d \in Gate /\ d.attemptActive = TRUE /\ d.pendingAttempt = TRUE
      /\ d.generation = n /\ d.connectOperation = id
      /\ d.disconnectOperation = gate.disconnectOperation /\ d.stopping = gate.stopping
      /\ d.commandsClosed = FALSE /\ d.finishing = FALSE /\ d.cancelled = FALSE
      /\ d.commands = gate.commands /\ d.queued = gate.queued
  BY <1>1, <1>2 DEF Gate
<1> QED
  BY <1>3 DEF id, n

\* A slot of command id is given back.
LEMMA UnqueuedFacts ==
  ASSUME gate \in Gate, NEW id, NEW u, u = Unqueued(id)
  PROVE  /\ u \in [Exclusive -> 0 .. MaxOperation]
         /\ \A kind \in Exclusive : u[kind] = IF gate.queued[kind] = id THEN 0 ELSE gate.queued[kind]
<1>1. gate.queued \in [Exclusive -> 0 .. MaxOperation] /\ 0 \in 0 .. MaxOperation
  BY GateFields, WorkerBounds
<1> QED
  BY <1>1 DEF Unqueued

\* Only the queue and its slots change.
----------------------------------------------------------------------------
(* Host threads *)

\* A host with nothing to do.
LEMMA IdleFacts ==
  /\ Idle \in HostType /\ Idle.then = <<>> /\ Idle.scope = 0 /\ Idle.gen = 0
  /\ Idle.target = "setup" /\ Idle.how = "wake"
<1>1. <<>> \in Programs
  BY DEF Programs
<1> QED
  BY <1>1, WorkerBounds DEF Idle, HostType

\* The fields of a host's errand.
LEMMA HostFields ==
  ASSUME NEW r \in HostType
  PROVE  /\ r.then \in Programs /\ r.scope \in 0 .. MaxGeneration /\ r.gen \in 0 .. MaxGeneration
         /\ r.target \in {"setup", "transport"} /\ r.how \in {"wake", "cancel"}
BY DEF HostType

\* Continue() gives one host its errand.
LEMMA ContinueFacts ==
  ASSUME host \in [Hosts -> HostType], NEW h \in Hosts, NEW r \in HostType, Continue(h, r)
  PROVE  /\ host' \in [Hosts -> HostType] /\ (\A k \in Hosts : k # h => host'[k] = host[k])
         /\ host'[h].then = r.then /\ (r.then # <<>> => host'[h] = r) /\ (r.then = <<>> => host'[h] = Idle)
<1>1. host' = [host EXCEPT ![h] = IF r.then = <<>> THEN Idle ELSE r]
  BY DEF Continue
<1> QED
  BY <1>1, IdleFacts

\* What the calls leave to do.
LEMMA AfterFacts ==
  ASSUME NEW g \in 0 .. MaxGeneration
  PROVE  /\ AfterConnect \in HostType /\ AfterConnect.then = <<"notify">>
         /\ AfterConnect.scope = 0 /\ AfterConnect.gen = 0 /\ AfterConnect.how = "wake"
         /\ AfterWake \in HostType /\ AfterWake.then = <<"wake", "deliver", "notify">>
         /\ AfterWake.scope = 0 /\ AfterWake.gen = 0 /\ AfterWake.how = "wake"
         /\ AfterClose(g) \in HostType /\ AfterClose(g).then = <<"auth", "request", "deliver">>
         /\ AfterClose(g).scope = g /\ AfterClose(g).gen = g /\ AfterClose(g).how = "wake"
         /\ AfterCancel(g) \in HostType /\ AfterCancel(g).scope = 0 /\ AfterCancel(g).gen = g
         /\ AfterCancel(g).how = "wake"
         /\ AfterCancel(g).then = IF g = 0 THEN <<"auth", "notify">> ELSE <<"auth", "request", "deliver", "notify">>
<1> DEFINE p1 == <<"notify">>
           p2 == <<"wake", "deliver", "notify">>
           p3 == <<"auth", "request", "deliver">>
           p4 == <<"auth", "notify">>
           p5 == <<"auth", "request", "deliver", "notify">>
<1>1. p1 \in Programs /\ p2 \in Programs /\ p3 \in Programs /\ p4 \in Programs /\ p5 \in Programs
  BY DEF Programs
<1>2. /\ AfterConnect = [Idle EXCEPT !.then = p1] /\ AfterWake = [Idle EXCEPT !.then = p2]
      /\ AfterClose(g) = [Idle EXCEPT !.then = p3, !.scope = g, !.gen = g]
      /\ AfterCancel(g) = [Idle EXCEPT !.then = IF g = 0 THEN p4 ELSE p5, !.gen = g]
  BY DEF AfterConnect, AfterWake, AfterClose, AfterCancel
<1> HIDE DEF p1, p2, p3, p4, p5
<1>3. /\ AfterConnect \in HostType /\ AfterConnect.then = p1
      /\ AfterConnect.scope = 0 /\ AfterConnect.gen = 0 /\ AfterConnect.how = "wake"
      /\ AfterWake \in HostType /\ AfterWake.then = p2
      /\ AfterWake.scope = 0 /\ AfterWake.gen = 0 /\ AfterWake.how = "wake"
  BY <1>1, <1>2, IdleFacts DEF HostType
<1>4. /\ AfterClose(g) \in HostType /\ AfterClose(g).then = p3
      /\ AfterClose(g).scope = g /\ AfterClose(g).gen = g /\ AfterClose(g).how = "wake"
  BY <1>1, <1>2, IdleFacts DEF HostType
<1>5. /\ AfterCancel(g) \in HostType /\ AfterCancel(g).scope = 0 /\ AfterCancel(g).gen = g
      /\ AfterCancel(g).how = "wake" /\ AfterCancel(g).then = IF g = 0 THEN p4 ELSE p5
  BY <1>1, <1>2, IdleFacts DEF HostType
<1> QED
  BY <1>3, <1>4, <1>5 DEF p1, p2, p3, p4, p5

\* What a host that has begun a step has left.
LEMMA RestFacts ==
  ASSUME host \in [Hosts -> HostType], NEW h \in Hosts, host[h].then # <<>>
  PROVE  /\ Rest(h) \in HostType /\ Rest(h).then = Tail(host[h].then) /\ Rest(h).scope = host[h].scope
         /\ Rest(h).gen = host[h].gen /\ Rest(h).target = host[h].target /\ Rest(h).how = host[h].how
<1> DEFINE x == host[h]
           t == Tail(x.then)
<1>1. x \in HostType /\ x.then \in Programs
  BY HostFields
<1>2. t \in Programs
  BY <1>1, ProgramFacts
<1>3. Rest(h) = [x EXCEPT !.then = t]
  BY <1>1 DEF Rest, HostType
<1> HIDE DEF t, x
<1>4. /\ Rest(h) \in HostType /\ Rest(h).then = t /\ Rest(h).scope = x.scope
      /\ Rest(h).gen = x.gen /\ Rest(h).target = x.target /\ Rest(h).how = x.how
  BY <1>1, <1>2, <1>3 DEF HostType
<1> QED
  BY <1>4 DEF t, x

\* Hosts that have nothing to do with a step keep what is known of them.
Keeps == gate'.generation = gate.generation /\ (gate.stopping = TRUE => gate'.stopping = TRUE)
         /\ (cancelled = TRUE => cancelled' = TRUE) /\ history.closed \subseteq history'.closed

\* A host that does not move keeps what is known of it, ...
LEMMA HostStays ==
  ASSUME NEW k \in Hosts, HostKnown(k), host'[k] = host[k], Keeps
  PROVE  HostKnown(k)'
BY DEF HostKnown, Keeps, Enroute, generation, cancelled

\* ... and so do all of them.
LEMMA HostsStay ==
  ASSUME HostsKnown, UNCHANGED host, Keeps
  PROVE  HostsKnown'
BY HostStays DEF HostsKnown

\* Signals under way stay so ...
Promised == /\ (WaitTold => WaitTold') /\ (SetupTold => SetupTold') /\ (Notified => Notified')
            /\ (Covered => Covered') /\ (auth'.generation = auth.generation => (PromptTold => PromptTold'))

ControlStays ==
  /\ gate'.generation = gate.generation
  /\ (control[generation].woken = TRUE => control'[generation].woken = TRUE)
  /\ (control[generation].setupCancelled = TRUE => control'[generation].setupCancelled = TRUE)

\* ... in steps that leave the hosts alone, ...
LEMMA SignalsStay ==
  ASSUME UNCHANGED host, ControlStays
  PROVE  Promised
BY DEF ControlStays, Promised, WaitTold, SetupTold, PromptTold, Notified, Covered, Signalling, Enroute, InScope, generation

\* ... also while a host that had nothing to do is given something.
LEMMA SignalsAdded ==
  ASSUME NEW h \in Hosts, Ready(h), \A k \in Hosts : k # h => host'[k] = host[k], ControlStays
  PROVE  Promised
<1>1. \A s : ~Enroute(h, s)
  BY IdleFacts, ProgramSets DEF Ready, Enroute
<1>2. \A k \in Hosts : \A s : Enroute(k, s) => Enroute(k, s)' /\ host'[k] = host[k]
  BY <1>1 DEF Enroute
<1>3. \A k \in Hosts : \A t : Signalling(k, t) => Signalling(k, t)'
  BY <1>1, <1>2 DEF Signalling, ControlStays, generation
<1>4. (WaitTold => WaitTold') /\ (SetupTold => SetupTold') /\ (Notified => Notified')
  BY <1>2, <1>3 DEF WaitTold, SetupTold, Notified, ControlStays, generation
<1>5. auth'.generation = auth.generation => (PromptTold => PromptTold')
  BY <1>2 DEF PromptTold, InScope
<1>6. (\E k \in Hosts : Enroute(k, "wake")) => \E k \in Hosts : Enroute(k, "wake")'
  BY <1>2
<1> QED
  BY <1>4, <1>5, <1>6 DEF Promised, Covered

----------------------------------------------------------------------------
(* Steps of the worker thread that leave the gate, the hosts and the history alone *)

\* The invariant, in its parts.
LEMMA WorkerInvFacts ==
  ASSUME WorkerInv
  PROVE  /\ Types /\ Phases /\ Resources /\ StateKnown /\ QueueKnown /\ OperationsKnown /\ OutcomesKnown
         /\ HostsKnown /\ ControlsKnown /\ Wakes /\ Cancels
         /\ gate \in Gate /\ events \in Events /\ auth \in Auth /\ worker \in Worker /\ watch \in Watch
         /\ control \in [Generations -> Control] /\ router \in 0 .. MaxGeneration
         /\ pc \in Places /\ host \in [Hosts -> HostType] /\ history \in HistoryType
BY SideFields DEF WorkerInv

\* The worker goes from one place to another and notes a result or progress.
Moved ==
  /\ UNCHANGED <<gate, events, auth, control, router, host, history>>
  /\ worker' \in Worker /\ worker'.executing = worker.executing /\ worker'.drained = worker.drained
  /\ worker'.transport = worker.transport /\ worker'.ready = worker.ready
  /\ worker'.resizeOperation = worker.resizeOperation /\ worker'.resizePending = worker.resizePending
  /\ worker'.unanswered = worker.unanswered
  /\ watch' \in Watch /\ watch'.observer = watch.observer /\ watch'.failed = watch.failed
  /\ (watch.peerClosed = TRUE => watch'.peerClosed = TRUE)
Moves ==
  /\ pc \in {"connecting", "starting", "start", "started", "loop", "message", "prompt", "dispatch", "boundary", "flush", "wait"}
  /\ \/ pc' = "finish"
     \/ pc = "starting" /\ pc' = "start"
     \/ pc = "loop" /\ pc' = "drain"
     \/ pc \in Waking /\ pc' \in {"message", "boundary", "flush", "loop"}
     \/ pc = "flush" /\ pc' = "wait" /\ cancelled = FALSE

\* A move from one place to the next keeps the invariant.
LEMMA MoveStep ==
  ASSUME WorkerInv, Moved, Moves
  PROVE  WorkerInv'
<1>0. /\ Types /\ Phases /\ Resources /\ StateKnown /\ QueueKnown /\ OperationsKnown /\ OutcomesKnown
      /\ HostsKnown /\ ControlsKnown /\ Wakes /\ Cancels
      /\ gate \in Gate /\ events \in Events /\ worker \in Worker /\ control \in [Generations -> Control]
  BY WorkerInvFacts
<1>2. pc' \in Places
  BY <1>0 DEF Moves, Places, Running, Session, Setup, Waking
<1>3. Types'
  BY <1>0, <1>2 DEF Types, TypeOK, Moved
<1>4. Phases'
  BY <1>0 DEF Phases, Moved, Moves, Waking, Running, Setup, Session, Ending, generation, cancelled
<1>5. Resources'
  BY <1>0 DEF Resources, Moved, Moves, Waking, Running, Setup, Session, Ending, Live, generation
<1>6. StateKnown'
  BY <1>0 DEF StateKnown, Moved, Moves, Waking, Running, Setup, Session, Ending, generation
<1>7. QueueKnown'
  BY <1>0 DEF QueueKnown, Moved, Moves, Waking, Session
<1>8. OperationsKnown' /\ OutcomesKnown'
  BY <1>0 DEF OperationsKnown, OutcomesKnown, Owned, Moved, generation, cancelled
<1>9. HostsKnown'
  BY <1>0, HostsStay DEF Moved, Keeps, cancelled
<1>10. ControlsKnown'
  BY <1>0 DEF ControlsKnown, Moved, Moves, Waking, Session, generation
<1>11. Promised
  BY SignalsStay DEF Moved, ControlStays
<1>12. Wakes'
  <2>1. Len(gate.commands) + worker.drained <= CommandCapacity \/ worker.drained # 0
    BY <1>0 DEF Types, TypeOK
  <2> QED
    BY <1>0, <1>11, <2>1 DEF Wakes, Promised, Moved, Moves, Waking, Setup
<1>13. Cancels'
  BY <1>0, <1>11 DEF Cancels, Promised, Moved, Moves, Waking, Session, cancelled
<1> QED
  BY <1>3, <1>4, <1>5, <1>6, <1>7, <1>8, <1>9, <1>10, <1>12, <1>13 DEF WorkerInv

\* The steps that are such moves.
LEMMA MoveSteps ==
  ASSUME WorkerInv,
         \/ \E code \in {"Cancelled", "Failure"} : ConnectFails(code)
         \/ StartCheck \/ LoopHead \/ Dispatch(FALSE) \/ \E p \in BOOLEAN : Message(p)
         \/ PromptAnswered \/ Flush \/ (\E fin \in BOOLEAN : WaitReturns(fin)) \/ TransportThrows
  PROVE  WorkerInv'
<1>0. /\ gate \in Gate /\ worker \in Worker /\ watch \in Watch /\ events.sealed \in BOOLEAN
      /\ gate.cancelled \in BOOLEAN /\ watch.peerClosed \in BOOLEAN /\ watch.failed \in BOOLEAN
      /\ worker.progressed \in BOOLEAN
      /\ worker.result \in {"None", "Cancelled", "PeerClosed", "EventOverflow", "Failure"}
  BY WorkerInvFacts, GateFields, EventsFields, WorkerFields, SideFields
<1>1. ASSUME NEW code \in {"Cancelled", "Failure"}, ConnectFails(code) PROVE WorkerInv'
  <2>1. Moved
    BY <1>0, <1>1 DEF ConnectFails, Moved, Worker
  <2> QED
    BY <1>1, <2>1, MoveStep DEF ConnectFails, Moves
<1>2. CASE StartCheck
  <2>1. Moved
    BY <1>0, <1>2 DEF StartCheck, Moved
  <2> QED
    BY <1>2, <2>1, MoveStep DEF StartCheck, Moves, Unless
<1>3. CASE LoopHead
  <2> DEFINE code == IF cancelled THEN worker.result
                     ELSE IF events.sealed THEN "EventOverflow"
                     ELSE IF watch.failed THEN "Failure" ELSE worker.result
  <2>1. worker' = [worker EXCEPT !.result = code, !.progressed = FALSE]
    BY <1>3 DEF LoopHead
  <2>2. code \in {"None", "Cancelled", "PeerClosed", "EventOverflow", "Failure"}
    BY <1>0
  <2> HIDE DEF code
  <2>3. Moved
    BY <1>0, <1>3, <2>1, <2>2 DEF LoopHead, Moved, Worker
  <2> QED
    BY <1>3, <2>3, MoveStep DEF LoopHead, Moves
<1>4. CASE Dispatch(FALSE)
  <2>1. Moved
    BY <1>0, <1>4 DEF Dispatch, Moved
  <2> QED
    BY <1>4, <2>1, MoveStep DEF Dispatch, Moves, Waking, Processing
<1>5. ASSUME NEW p \in BOOLEAN, Message(p) PROVE WorkerInv'
  <2>1. Moved
    BY <1>0, <1>5 DEF Message, Moved, Worker
  <2> QED
    BY <1>5, <2>1, MoveStep DEF Message, Moves, Waking
<1>6. CASE PromptAnswered
  <2>1. Moved
    BY <1>0, <1>6 DEF PromptAnswered, Moved, Worker
  <2> QED
    BY <1>6, <2>1, MoveStep DEF PromptAnswered, Moves, Waking
<1>7. CASE Flush
  <2> DEFINE closed == ~cancelled /\ ~worker.progressed /\ watch.peerClosed
             code == IF closed THEN "PeerClosed" ELSE worker.result
  <2>1. /\ pc = "flush" /\ worker' = [worker EXCEPT !.result = code]
        /\ pc' = IF cancelled \/ closed THEN "finish" ELSE IF worker.progressed THEN "loop" ELSE "wait"
        /\ UNCHANGED <<gate, events, auth, control, router, watch, host, history>>
    BY <1>0, <1>7 DEF Flush, Worker
  <2>2. code \in {"None", "Cancelled", "PeerClosed", "EventOverflow", "Failure"}
    BY <1>0
  <2>3. Moves
    BY <1>0, <2>1 DEF Moves, Waking, cancelled
  <2> HIDE DEF code, closed
  <2>4. Moved
    BY <1>0, <2>1, <2>2 DEF Moved, Worker
  <2> QED
    BY <2>3, <2>4, MoveStep
<1>8. ASSUME NEW fin \in BOOLEAN, WaitReturns(fin) PROVE WorkerInv'
  <2> DEFINE closed == watch.peerClosed \/ fin
  <2>1. closed \in BOOLEAN /\ (watch.peerClosed = TRUE => closed = TRUE)
    BY <1>0
  <2>2. watch' = [watch EXCEPT !.peerClosed = closed]
    BY <1>0, <1>8 DEF WaitReturns, Watch
  <2> HIDE DEF closed
  <2>3. Moved
    BY <1>0, <1>8, <2>1, <2>2 DEF WaitReturns, Moved, Watch
  <2> QED
    BY <1>8, <2>3, MoveStep DEF WaitReturns, Moves, Waking
<1>9. CASE TransportThrows
  <2>1. Moved
    BY <1>0, <1>9 DEF TransportThrows, Moved, Worker
  <2> QED
    BY <1>9, <2>1, MoveStep DEF TransportThrows, Moves
<1> QED
  BY <1>1, <1>2, <1>3, <1>4, <1>5, <1>6, <1>7, <1>8, <1>9

\* An attempt that runs has a generation.
LEMMA AttemptNumber ==
  ASSUME WorkerInv, gate.attemptActive = TRUE \/ pc \in Running
  PROVE  generation \in Generations /\ gate.attemptActive = TRUE
BY WorkerInvFacts, GateFields, Widths DEF Phases, generation

\* The fields of a control.
LEMMA ControlFields ==
  ASSUME NEW c \in Control
  PROVE  /\ c.connecting \in BOOLEAN /\ c.closing \in BOOLEAN /\ c.setupCancelled \in BOOLEAN
         /\ c.woken \in BOOLEAN /\ c.stopped \in BOOLEAN
BY DEF Control

\* What a signal does to a control, and what it does not.
LEMMA ControlSignalled ==
  ASSUME control \in [Generations -> Control], NEW g \in Generations, NEW target, NEW how,
         control' = [control EXCEPT ![g] = Signalled(@, target, how)]
  PROVE  /\ control' \in [Generations -> Control] /\ (\A k \in Generations : k # g => control'[k] = control[k])
         /\ \A k \in Generations :
              /\ control'[k].connecting = control[k].connecting /\ control'[k].closing = control[k].closing
              /\ control[k].setupCancelled = TRUE => control'[k].setupCancelled = TRUE
              /\ control[k].woken = TRUE => control'[k].woken = TRUE
         /\ control'[g].setupCancelled = TRUE => control[g].setupCancelled = TRUE \/ (target = "setup" /\ how = "cancel")
         /\ target = "setup" /\ how = "cancel" => control'[g].setupCancelled = TRUE
         /\ target = "transport" => control'[g].woken = TRUE
<1> DEFINE c == control[g]
           d == Signalled(c, target, how)
<1>1. c \in Control /\ d = Signalled(c, target, how)
  OBVIOUS
<1>2. control' = [control EXCEPT ![g] = d]
  OBVIOUS
<1> HIDE DEF c, d
<1>3. /\ d \in Control /\ d.connecting = c.connecting /\ d.closing = c.closing
      /\ (d.setupCancelled = TRUE <=> c.setupCancelled = TRUE \/ (target = "setup" /\ how = "cancel"))
      /\ (d.woken = TRUE <=> c.woken = TRUE \/ target = "transport")
  <2> DEFINE x == c.setupCancelled \/ (target = "setup" /\ how = "cancel")
             w == c.woken \/ target = "transport"
             y == c.stopped \/ (target = "transport" /\ how = "cancel")
  <2>1. /\ x \in BOOLEAN /\ w \in BOOLEAN /\ y \in BOOLEAN
        /\ (x = TRUE <=> c.setupCancelled = TRUE \/ (target = "setup" /\ how = "cancel"))
        /\ (w = TRUE <=> c.woken = TRUE \/ target = "transport")
    BY <1>1, ControlFields
  <2>2. d = [c EXCEPT !.setupCancelled = x, !.woken = w, !.stopped = y]
    BY <1>1 DEF Signalled, Control
  <2> HIDE DEF x, w, y
  <2>3. d \in Control /\ d.connecting = c.connecting /\ d.closing = c.closing /\ d.setupCancelled = x /\ d.woken = w
    BY <1>1, <2>1, <2>2 DEF Control
  <2> QED
    BY <2>1, <2>3
<1>4. control' \in [Generations -> Control] /\ control'[g] = d /\ \A k \in Generations : k # g => control'[k] = control[k]
  BY <1>2, <1>3
<1>5. ASSUME NEW k \in Generations
      PROVE  /\ control'[k].connecting = control[k].connecting /\ control'[k].closing = control[k].closing
             /\ control[k].setupCancelled = TRUE => control'[k].setupCancelled = TRUE
             /\ control[k].woken = TRUE => control'[k].woken = TRUE
  <2>1. CASE k = g
    BY <1>3, <1>4, <2>1 DEF c
  <2>2. CASE k # g
    BY <1>4, <2>2
  <2> QED
    BY <2>1, <2>2
<1> QED
  BY <1>3, <1>4, <1>5 DEF c

\* install() ends the setup and keeps the wake-ups.
LEMMA InstalledFacts ==
  ASSUME NEW c \in Control, NEW d, d = Installed(c)
  PROVE  /\ d \in Control /\ d.connecting = FALSE /\ d.closing = c.closing
         /\ d.setupCancelled = c.setupCancelled /\ (c.woken = TRUE => d.woken = TRUE)
<1> DEFINE w == c.woken \/ c.closing
<1>1. w \in BOOLEAN /\ (c.woken = TRUE => w = TRUE)
  BY ControlFields
<1>2. d = [c EXCEPT !.connecting = FALSE, !.woken = w]
  BY DEF Installed, Control
<1> HIDE DEF w
<1>3. d \in Control /\ d.connecting = FALSE /\ d.closing = c.closing /\ d.setupCancelled = c.setupCancelled /\ d.woken = w
  BY <1>1, <1>2 DEF Control
<1> QED
  BY <1>1, <1>3

\* A prompt that is being cancelled still is.
LEMMA PromptStays ==
  ASSUME UNCHANGED <<host, auth>>
  PROVE  PromptTold => PromptTold'
BY DEF PromptTold, Enroute, InScope

\* The wait consumes a wake-up.
LEMMA WaitWokenStep ==
  ASSUME WorkerInv, WaitWoken
  PROVE  WorkerInv'
<1>0. /\ Types /\ Phases /\ Resources /\ StateKnown /\ QueueKnown /\ OperationsKnown /\ OutcomesKnown
      /\ HostsKnown /\ ControlsKnown /\ Wakes /\ Cancels
      /\ gate \in Gate /\ events \in Events /\ auth \in Auth /\ worker \in Worker /\ watch \in Watch
      /\ control \in [Generations -> Control] /\ router \in 0 .. MaxGeneration
      /\ pc \in Places /\ host \in [Hosts -> HostType] /\ history \in HistoryType
  BY WorkerInvFacts
<1>1. /\ pc = "wait" /\ pc' = "loop" /\ UNCHANGED <<gate, events, auth, router, worker, watch, host, history>>
  BY DEF WaitWoken
<1>2. generation \in Generations /\ gate.attemptActive = TRUE
  BY <1>0, <1>1, AttemptNumber DEF Running, Setup, Session, Ending, Resources, Live
<1>3. /\ control' \in [Generations -> Control] /\ (\A g \in Generations : g # generation => control'[g] = control[g])
      /\ control'[generation].connecting = control[generation].connecting
      /\ control'[generation].closing = control[generation].closing
      /\ control'[generation].setupCancelled = control[generation].setupCancelled
  <2> DEFINE g == generation
             c == [control[g] EXCEPT !.woken = FALSE]
  <2>1. /\ c \in Control
        /\ c.connecting = control[g].connecting
        /\ c.closing = control[g].closing
        /\ c.setupCancelled = control[g].setupCancelled
    BY <1>0, <1>2 DEF Control
  <2>2. control' = [control EXCEPT ![g] = c]
    BY <1>0, <1>2 DEF WaitWoken
  <2> HIDE DEF c, g
  <2> QED
    BY <1>0, <1>2, <2>1, <2>2 DEF g
<1>4. \A g \in Generations : control'[g].closing = control[g].closing /\ control'[g].setupCancelled = control[g].setupCancelled
  BY <1>2, <1>3
<1>5. Types'
  BY <1>0, <1>1, <1>2, <1>3, <1>4 DEF Types, TypeOK, Places, Running, Setup, Session, Ending
<1>6. HostsKnown'
  BY <1>0, <1>1, HostsStay DEF Keeps, cancelled
<1>7. Phases'
  BY <1>0, <1>1, <1>2, <1>3, <1>4 DEF Phases, Running, Setup, Session, Ending, generation, cancelled
<1>8. Resources'
  BY <1>0, <1>1, <1>2, <1>3, <1>4 DEF Resources, Running, Setup, Session, Ending, Live, generation
<1>9. StateKnown'
  BY <1>0, <1>1, <1>2, <1>3, <1>4 DEF StateKnown, Running, Setup, Session, Ending, generation
<1>10. QueueKnown'
  BY <1>0, <1>1, <1>2, <1>3, <1>4 DEF QueueKnown, Session
<1>11. ControlsKnown'
  BY <1>0, <1>1, <1>2, <1>3, <1>4 DEF ControlsKnown, Session, generation
<1>12. Wakes'
  BY <1>0, <1>1 DEF Wakes, Waking, Setup, Types, TypeOK
<1>13. Cancels'
  BY <1>0, <1>1, <1>2, <1>3, <1>4, PromptStays DEF Cancels, Session, Promised, cancelled
<1>14. OperationsKnown' /\ OutcomesKnown'
  BY <1>0, <1>1 DEF OperationsKnown, Owned, generation, OutcomesKnown, cancelled
<1> QED
  BY <1>5, <1>6, <1>7, <1>8, <1>9, <1>10, <1>11, <1>12, <1>13, <1>14 DEF WorkerInv

\* The connection is there; its control is installed.
LEMMA ConnectReturnsStep ==
  ASSUME WorkerInv, ConnectReturns
  PROVE  WorkerInv'
<1>0. /\ Types /\ Phases /\ Resources /\ StateKnown /\ QueueKnown /\ OperationsKnown /\ OutcomesKnown
      /\ HostsKnown /\ ControlsKnown /\ Wakes /\ Cancels
      /\ gate \in Gate /\ events \in Events /\ auth \in Auth /\ worker \in Worker /\ watch \in Watch
      /\ control \in [Generations -> Control] /\ router \in 0 .. MaxGeneration
      /\ pc \in Places /\ host \in [Hosts -> HostType] /\ history \in HistoryType
  BY WorkerInvFacts
<1>1. /\ pc = "connecting" /\ pc' = "starting" /\ UNCHANGED <<gate, events, auth, router, watch, host, history>>
  BY DEF ConnectReturns
<1>2. generation \in Generations /\ gate.attemptActive = TRUE
  BY <1>0, <1>1, AttemptNumber DEF Running, Setup, Session, Ending, Resources, Live
<1>3. /\ control' \in [Generations -> Control] /\ (\A g \in Generations : g # generation => control'[g] = control[g])
      /\ control'[generation].connecting = FALSE
      /\ control'[generation].closing = control[generation].closing
      /\ control'[generation].setupCancelled = control[generation].setupCancelled
      /\ (control[generation].woken = TRUE => control'[generation].woken = TRUE)
  <2> DEFINE g == generation
             c == Installed(control[g])
  <2>1. /\ c \in Control
        /\ c.connecting = FALSE
        /\ c.closing = control[g].closing
        /\ c.setupCancelled = control[g].setupCancelled
        /\ (control[g].woken = TRUE => c.woken = TRUE)
    BY <1>0, <1>2, InstalledFacts
  <2>2. control' = [control EXCEPT ![g] = c]
    BY <1>0, <1>2 DEF ConnectReturns
  <2> HIDE DEF c, g
  <2> QED
    BY <1>0, <1>2, <2>1, <2>2 DEF g
<1>4. \A g \in Generations : control'[g].closing = control[g].closing /\ control'[g].setupCancelled = control[g].setupCancelled
  BY <1>2, <1>3
<1>5. /\ worker' \in Worker /\ worker'.executing = worker.executing /\ worker'.drained = worker.drained
      /\ worker'.progressed = worker.progressed /\ worker'.transport = TRUE /\ worker'.ready = worker.ready
      /\ worker'.resizeOperation = worker.resizeOperation /\ worker'.resizePending = worker.resizePending
      /\ worker'.unanswered = worker.unanswered /\ worker'.result = worker.result
  BY <1>0 DEF ConnectReturns, Worker
<1>6. Types'
  BY <1>0, <1>1, <1>2, <1>3, <1>4, <1>5 DEF Types, TypeOK, Places, Running, Setup, Session, Ending
<1>7. HostsKnown'
  BY <1>0, <1>1, HostsStay DEF Keeps, cancelled
<1>8. Promised
  BY <1>0, <1>1, <1>2, <1>3, <1>4, <1>5, SignalsStay DEF ControlStays, generation
<1>9. Phases'
  BY <1>0, <1>1, <1>2, <1>3, <1>4, <1>5 DEF Phases, Running, Setup, Session, Ending, generation, cancelled
<1>10. Resources'
  BY <1>0, <1>1, <1>2, <1>3, <1>4, <1>5 DEF Resources, Running, Setup, Session, Ending, Live, generation
<1>11. StateKnown'
  BY <1>0, <1>1, <1>2, <1>3, <1>4, <1>5 DEF StateKnown, Running, Setup, Session, Ending, generation
<1>12. QueueKnown'
  BY <1>0, <1>1, <1>2, <1>3, <1>4, <1>5 DEF QueueKnown, Session
<1>13. OperationsKnown'
  BY <1>0, <1>1, <1>2, <1>3, <1>4, <1>5 DEF OperationsKnown, Owned, generation
<1>14. ControlsKnown'
  BY <1>0, <1>1, <1>2, <1>3, <1>4, <1>5 DEF ControlsKnown, Phases, Session, generation
<1>15. Wakes'
  BY <1>0, <1>1, <1>2, <1>3, <1>4, <1>5, <1>8 DEF Wakes, Waking, Setup, Promised
<1>16. Cancels'
  BY <1>0, <1>1, <1>2, <1>3, <1>4, <1>5, <1>8 DEF Cancels, Session, Promised, cancelled
<1>17. OutcomesKnown'
  BY <1>0, <1>1 DEF OutcomesKnown, generation, cancelled
<1> QED
  BY <1>6, <1>7, <1>9, <1>10, <1>11, <1>12, <1>13, <1>14, <1>15, <1>16, <1>17 DEF WorkerInv

\* The prompt bridge opens for the attempt.
LEMMA StartedStep ==
  ASSUME WorkerInv, Started
  PROVE  WorkerInv'
<1>0. /\ Types /\ Phases /\ Resources /\ StateKnown /\ QueueKnown /\ OperationsKnown /\ OutcomesKnown
      /\ HostsKnown /\ ControlsKnown /\ Wakes /\ Cancels
      /\ gate \in Gate /\ events \in Events /\ auth \in Auth /\ worker \in Worker /\ watch \in Watch
      /\ control \in [Generations -> Control] /\ router \in 0 .. MaxGeneration
      /\ pc \in Places /\ host \in [Hosts -> HostType] /\ history \in HistoryType
  BY WorkerInvFacts
<1>1. /\ pc = "started" /\ (pc' = "loop" \/ pc' = "finish") /\ (cancelled = TRUE => pc' = "finish")
      /\ UNCHANGED <<gate, events, auth, control, router, worker, host, history>>
  BY DEF Started, Unless
<1>2. /\ watch' \in Watch /\ watch'.peerClosed = watch.peerClosed /\ watch'.failed = watch.failed
      /\ watch'.observer # "auth"
  BY <1>0 DEF Started, Watch
<1>3. Types'
  BY <1>0, <1>1, <1>2 DEF Types, TypeOK, Places, Running, Setup, Session, Ending
<1>4. HostsKnown'
  BY <1>0, <1>1, HostsStay DEF Keeps, cancelled
<1>5. Promised
  BY <1>0, <1>1, <1>2, SignalsStay DEF ControlStays, generation
<1>6. Phases'
  BY <1>0, <1>1, <1>2 DEF Phases, Running, Setup, Session, Ending, generation, cancelled
<1>7. Resources'
  BY <1>0, <1>1, <1>2 DEF Resources, Running, Setup, Session, Ending, Live, generation
<1>8. StateKnown'
  BY <1>0, <1>1, <1>2 DEF StateKnown, Running, Setup, Session, Ending, generation
<1>9. QueueKnown'
  BY <1>0, <1>1, <1>2 DEF QueueKnown, Session
<1>10. ControlsKnown'
  BY <1>0, <1>1, <1>2 DEF ControlsKnown, Session, generation
<1>11. Wakes'
  BY <1>0, <1>1 DEF Wakes, Waking, Setup, Types, TypeOK
<1>12. Cancels'
  BY <1>0, <1>1, <1>2, <1>5 DEF Cancels, Session, Promised, cancelled
<1>13. OperationsKnown' /\ OutcomesKnown'
  BY <1>0, <1>1 DEF OperationsKnown, Owned, generation, OutcomesKnown, cancelled
<1> QED
  BY <1>3, <1>4, <1>6, <1>7, <1>8, <1>9, <1>10, <1>11, <1>12, <1>13 DEF WorkerInv

\* prepareAttempt() takes up the admitted attempt.
LEMMA PrepareAttemptStep ==
  ASSUME WorkerInv, PrepareAttempt
  PROVE  WorkerInv'
<1>0. /\ Types /\ Phases /\ Resources /\ StateKnown /\ QueueKnown /\ OperationsKnown /\ OutcomesKnown
      /\ HostsKnown /\ ControlsKnown /\ Wakes /\ Cancels
      /\ gate \in Gate /\ events \in Events /\ auth \in Auth /\ worker \in Worker /\ watch \in Watch
      /\ control \in [Generations -> Control] /\ router \in 0 .. MaxGeneration
      /\ pc \in Places /\ host \in [Hosts -> HostType] /\ history \in HistoryType
  BY WorkerInvFacts
<1>1. /\ pc = "prepare" /\ (pc' = "connecting" \/ pc' = "finish") /\ (cancelled = TRUE => pc' = "finish")
      /\ router' = generation /\ UNCHANGED <<gate, auth, control, worker, watch, host, history>>
  BY DEF PrepareAttempt, Unless
<1>2. generation \in Generations /\ gate.attemptActive = TRUE
  BY <1>0, <1>1, AttemptNumber DEF Running, Setup, Session, Ending, Resources, Live
<1>3. /\ events' \in Events /\ events'.issued = events.issued /\ events'.sealed = events.sealed
      /\ events'.op = events.op /\ (events.sealed = TRUE => events' = events)
      /\ (events.sealed = FALSE => events'.state = "Idle" /\ events'.generation = generation)
      /\ events.sealed \in BOOLEAN
  <2>1. events' = Published(events, "Idle")
    BY DEF PrepareAttempt
  <2>2. events' \in Events /\ events'.issued = events.issued /\ events'.sealed = events.sealed
        /\ events'.op = events.op /\ (events.sealed = TRUE => events' = events)
        /\ (events.sealed = FALSE => events'.state = "Idle" /\ events'.generation = generation)
    BY ONLY <1>0, <2>1, PublishedFacts
  <2> QED
    BY <1>0, <2>2, EventsFields
<1>4. generation \in 0 .. MaxGeneration /\ cancelled \in BOOLEAN
  BY <1>0, GateFields DEF generation, cancelled
<1>5. Types'
  BY <1>0, <1>1, <1>2, <1>3, <1>4 DEF Types, TypeOK, Places, Running, Setup, Session, Ending
<1>6. HostsKnown'
  BY <1>0, <1>1, HostsStay DEF Keeps, cancelled
<1>7. Promised
  BY <1>0, <1>1, <1>2, <1>3, <1>4, SignalsStay DEF ControlStays, generation
<1>8. Phases'
  BY <1>0, <1>1, <1>2, <1>3, <1>4 DEF Phases, Running, Setup, Session, Ending, generation, cancelled
<1>9. Resources'
  BY <1>0, <1>1, <1>2, <1>3, <1>4 DEF Resources, Running, Setup, Session, Ending, Live, generation
<1>10. StateKnown'
  BY <1>0, <1>1, <1>2, <1>3, <1>4, GateFields, EventsFields, Widths DEF StateKnown, Phases, Running, Setup, Session, Ending, generation
<1>11. QueueKnown'
  BY <1>0, <1>1, <1>2, <1>3, <1>4 DEF QueueKnown, Session
<1>12. OperationsKnown'
  BY <1>0, <1>1, <1>2, <1>3, <1>4 DEF OperationsKnown, Owned, generation
<1>13. OutcomesKnown'
  BY <1>0, <1>1, <1>2, <1>3, <1>4 DEF OutcomesKnown, generation, cancelled
<1>14. ControlsKnown'
  BY <1>0, <1>1, <1>2, <1>3, <1>4 DEF ControlsKnown, Session, generation
<1>15. Wakes'
  BY <1>0, <1>1, <1>2, <1>3, <1>4, <1>7 DEF Wakes, Waking, Setup, Promised
<1>16. Cancels'
  BY <1>0, <1>1, <1>2, <1>3, <1>4, <1>7 DEF Cancels, Session, Promised, cancelled
<1> QED
  BY <1>5, <1>6, <1>8, <1>9, <1>10, <1>11, <1>12, <1>13, <1>14, <1>15, <1>16 DEF WorkerInv

\* Connecting is published.
LEMMA ConnectPhaseStep ==
  ASSUME WorkerInv, ConnectPhase
  PROVE  WorkerInv'
<1>0. /\ Types /\ Phases /\ Resources /\ StateKnown /\ QueueKnown /\ OperationsKnown /\ OutcomesKnown
      /\ HostsKnown /\ ControlsKnown /\ Wakes /\ Cancels
      /\ gate \in Gate /\ events \in Events /\ auth \in Auth /\ worker \in Worker /\ watch \in Watch
      /\ control \in [Generations -> Control] /\ router \in 0 .. MaxGeneration
      /\ pc \in Places /\ host \in [Hosts -> HostType] /\ history \in HistoryType
  BY WorkerInvFacts
<1>1. /\ pc = "connecting" /\ UNCHANGED <<gate, auth, control, router, pc, worker, watch, host, history>>
  BY DEF ConnectPhase
<1>2. /\ events' \in Events /\ events'.issued = events.issued /\ events'.sealed = events.sealed
      /\ events'.op = events.op /\ (events.sealed = TRUE => events' = events)
      /\ (events.sealed = FALSE => events'.state = "Connecting" /\ events'.generation = generation)
      /\ events.sealed \in BOOLEAN
  <2>1. events' = Published(events, "Connecting")
    BY DEF ConnectPhase
  <2>2. events' \in Events /\ events'.issued = events.issued /\ events'.sealed = events.sealed
        /\ events'.op = events.op /\ (events.sealed = TRUE => events' = events)
        /\ (events.sealed = FALSE => events'.state = "Connecting" /\ events'.generation = generation)
    BY ONLY <1>0, <2>1, PublishedFacts
  <2> QED
    BY <1>0, <2>2, EventsFields
<1>3. Types'
  BY <1>0, <1>1, <1>2 DEF Types, TypeOK, Places, Running, Setup, Session, Ending
<1>4. HostsKnown'
  BY <1>0, <1>1, HostsStay DEF Keeps, cancelled
<1>5. Promised
  BY <1>0, <1>1, <1>2, SignalsStay DEF ControlStays, generation
<1>6. Phases'
  BY <1>0, <1>1, <1>2 DEF Phases, Running, Setup, Session, Ending, generation, cancelled
<1>7. StateKnown'
  BY <1>0, <1>1, <1>2, GateFields, EventsFields, Widths DEF StateKnown, Phases, Running, Setup, Session, Ending, generation
<1>8. QueueKnown'
  BY <1>0, <1>1, <1>2 DEF QueueKnown, Session
<1>9. OperationsKnown'
  BY <1>0, <1>1, <1>2 DEF OperationsKnown, Owned, generation
<1>10. OutcomesKnown'
  BY <1>0, <1>1, <1>2 DEF OutcomesKnown, generation, cancelled
<1>11. Wakes'
  BY <1>0, <1>1, <1>2, <1>5 DEF Wakes, Waking, Setup, Promised
<1>12. Resources' /\ ControlsKnown' /\ Cancels'
  BY <1>0, <1>1, <1>5 DEF Resources, Running, Setup, Session, Ending, Live, generation, ControlsKnown, Cancels, cancelled, Promised
<1> QED
  BY <1>3, <1>4, <1>6, <1>7, <1>8, <1>9, <1>10, <1>11, <1>12 DEF WorkerInv

\* The observer thread is started.
LEMMA StartStep ==
  ASSUME WorkerInv, Start
  PROVE  WorkerInv'
<1>0. /\ Types /\ Phases /\ Resources /\ StateKnown /\ QueueKnown /\ OperationsKnown /\ OutcomesKnown
      /\ HostsKnown /\ ControlsKnown /\ Wakes /\ Cancels
      /\ gate \in Gate /\ events \in Events /\ auth \in Auth /\ worker \in Worker /\ watch \in Watch
      /\ control \in [Generations -> Control] /\ router \in 0 .. MaxGeneration
      /\ pc \in Places /\ host \in [Hosts -> HostType] /\ history \in HistoryType
  BY WorkerInvFacts
<1>1. /\ pc = "start" /\ pc' = "started" /\ UNCHANGED <<gate, control, router, worker, watch, host, history>>
  BY DEF Start
<1>2. generation \in Generations /\ gate.attemptActive = TRUE
  BY <1>0, <1>1, AttemptNumber DEF Running, Setup, Session, Ending, Resources, Live
<1>3. /\ events' \in Events /\ events'.issued = events.issued /\ events'.sealed = events.sealed
      /\ events'.op = events.op /\ (events.sealed = TRUE => events' = events)
      /\ (events.sealed = FALSE => events'.state = "Negotiating" /\ events'.generation = generation)
      /\ events.sealed \in BOOLEAN
  <2>1. events' = Published(events, "Negotiating")
    BY DEF Start
  <2>2. events' \in Events /\ events'.issued = events.issued /\ events'.sealed = events.sealed
        /\ events'.op = events.op /\ (events.sealed = TRUE => events' = events)
        /\ (events.sealed = FALSE => events'.state = "Negotiating" /\ events'.generation = generation)
    BY ONLY <1>0, <2>1, PublishedFacts
  <2> QED
    BY <1>0, <2>2, EventsFields
<1>4. /\ auth' \in Auth /\ auth'.accepting = TRUE /\ auth'.generation = generation /\ auth'.status = auth.status
  BY <1>0, GateFields DEF Start, Auth, generation
<1>5. Types'
  BY <1>0, <1>1, <1>2, <1>3, <1>4 DEF Types, TypeOK, Places, Running, Setup, Session, Ending
<1>6. HostsKnown'
  BY <1>0, <1>1, HostsStay DEF Keeps, cancelled
<1>7. Promised
  BY <1>0, <1>1, <1>2, <1>3, <1>4, SignalsStay DEF ControlStays, generation
<1>8. Phases'
  BY <1>0, <1>1, <1>2, <1>3, <1>4 DEF Phases, Running, Setup, Session, Ending, generation, cancelled
<1>9. Resources'
  BY <1>0, <1>1, <1>2, <1>3, <1>4 DEF Resources, Running, Setup, Session, Ending, Live, generation
<1>10. StateKnown'
  BY <1>0, <1>1, <1>2, <1>3, <1>4, GateFields, EventsFields, Widths DEF StateKnown, Phases, Running, Setup, Session, Ending, generation
<1>11. QueueKnown'
  BY <1>0, <1>1, <1>2, <1>3, <1>4 DEF QueueKnown, Session
<1>12. OperationsKnown'
  BY <1>0, <1>1, <1>2, <1>3, <1>4 DEF OperationsKnown, Owned, generation
<1>13. OutcomesKnown'
  BY <1>0, <1>1, <1>2, <1>3, <1>4 DEF OutcomesKnown, generation, cancelled
<1>14. ControlsKnown'
  BY <1>0, <1>1, <1>2, <1>3, <1>4 DEF ControlsKnown, Session, generation
<1>15. Wakes'
  BY <1>0, <1>1, <1>2, <1>3, <1>4, <1>7 DEF Wakes, Waking, Setup, Promised
<1>16. Cancels'
  BY <1>0, <1>1, <1>2, <1>3, <1>4, <1>7 DEF Cancels, Session, Promised, cancelled
<1> QED
  BY <1>5, <1>6, <1>8, <1>9, <1>10, <1>11, <1>12, <1>13, <1>14, <1>15, <1>16 DEF WorkerInv

\* The protocol becomes ready and Connected is published.
LEMMA MessageConnectsStep ==
  ASSUME WorkerInv, MessageConnects
  PROVE  WorkerInv'
<1>0. /\ Types /\ Phases /\ Resources /\ StateKnown /\ QueueKnown /\ OperationsKnown /\ OutcomesKnown
      /\ HostsKnown /\ ControlsKnown /\ Wakes /\ Cancels
      /\ gate \in Gate /\ events \in Events /\ auth \in Auth /\ worker \in Worker /\ watch \in Watch
      /\ control \in [Generations -> Control] /\ router \in 0 .. MaxGeneration
      /\ pc \in Places /\ host \in [Hosts -> HostType] /\ history \in HistoryType
  BY WorkerInvFacts
<1>1. /\ pc = "message" /\ pc' = "boundary" /\ UNCHANGED <<gate, auth, control, router, watch, host, history>>
  BY DEF MessageConnects
<1>2. generation \in Generations /\ gate.attemptActive = TRUE
  BY <1>0, <1>1, AttemptNumber DEF Running, Setup, Session, Ending, Resources, Live
<1>3. /\ events' \in Events /\ events'.issued = events.issued /\ events'.sealed = events.sealed
      /\ events'.op = events.op /\ (events.sealed = TRUE => events' = events)
      /\ (events.sealed = FALSE => events'.state = "Connected" /\ events'.generation = generation)
      /\ events.sealed \in BOOLEAN
  <2>1. events' = Published(events, "Connected")
    BY DEF MessageConnects
  <2>2. events' \in Events /\ events'.issued = events.issued /\ events'.sealed = events.sealed
        /\ events'.op = events.op /\ (events.sealed = TRUE => events' = events)
        /\ (events.sealed = FALSE => events'.state = "Connected" /\ events'.generation = generation)
    BY ONLY <1>0, <2>1, PublishedFacts
  <2> QED
    BY <1>0, <2>2, EventsFields
<1>4. /\ worker' \in Worker /\ worker'.executing = worker.executing /\ worker'.drained = worker.drained
      /\ worker'.progressed = TRUE /\ worker'.transport = worker.transport /\ worker'.ready = TRUE
      /\ worker'.resizeOperation = worker.resizeOperation /\ worker'.resizePending = worker.resizePending
      /\ worker'.unanswered = worker.unanswered /\ worker'.result = worker.result
  BY <1>0 DEF MessageConnects, Worker
<1>5. Types'
  BY <1>0, <1>1, <1>2, <1>3, <1>4 DEF Types, TypeOK, Places, Running, Setup, Session, Ending
<1>6. HostsKnown'
  BY <1>0, <1>1, HostsStay DEF Keeps, cancelled
<1>7. Promised
  BY <1>0, <1>1, <1>2, <1>3, <1>4, SignalsStay DEF ControlStays, generation
<1>8. Phases'
  BY <1>0, <1>1, <1>2, <1>3, <1>4 DEF Phases, Running, Setup, Session, Ending, generation, cancelled
<1>9. Resources'
  BY <1>0, <1>1, <1>2, <1>3, <1>4 DEF Resources, Running, Setup, Session, Ending, Live, generation
<1>10. StateKnown'
  BY <1>0, <1>1, <1>2, <1>3, <1>4, GateFields, EventsFields, Widths DEF StateKnown, Phases, Running, Setup, Session, Ending, generation
<1>11. QueueKnown'
  BY <1>0, <1>1, <1>2, <1>3, <1>4 DEF QueueKnown, Session
<1>12. OperationsKnown'
  BY <1>0, <1>1, <1>2, <1>3, <1>4 DEF OperationsKnown, Owned, generation
<1>13. OutcomesKnown'
  BY <1>0, <1>1, <1>2, <1>3, <1>4 DEF OutcomesKnown, generation, cancelled
<1>14. ControlsKnown'
  BY <1>0, <1>1, <1>2, <1>3, <1>4 DEF ControlsKnown, Session, generation
<1>15. Wakes'
  BY <1>0, <1>1, <1>2, <1>3, <1>4, <1>7 DEF Wakes, Waking, Setup, Promised
<1>16. Cancels'
  BY <1>0, <1>1, <1>2, <1>3, <1>4, <1>7 DEF Cancels, Session, Promised, cancelled
<1> QED
  BY <1>5, <1>6, <1>8, <1>9, <1>10, <1>11, <1>12, <1>13, <1>14, <1>15, <1>16 DEF WorkerInv

\* Whoever holds an operation holds a valid id.
LEMMA OwnedIds ==
  ASSUME Types
  PROVE  /\ 0 \notin Ids /\ ToSet(gate.commands) \subseteq Ids /\ history.revoked \subseteq Ids /\ history.executed \subseteq Ids
         /\ gate.connectOperation # 0 => gate.connectOperation \in Ids
         /\ gate.disconnectOperation # 0 => gate.disconnectOperation \in Ids
         /\ worker.executing # 0 => worker.executing \in Ids
         /\ worker.resizeOperation # 0 => worker.resizeOperation \in Ids
<1>1. gate \in Gate /\ worker \in Worker
  BY SideFields
<1> QED
  BY <1>1, SideFields, GateFields, WorkerFields, Widths, Elements

----------------------------------------------------------------------------
(* An exception out of the protocol *)

\* The operations of the protocol have failed, or all have.
Broken(e) ==
  /\ e.issued = events.issued /\ e.generation = events.generation
  /\ (e.sealed = events.sealed /\ e.state = events.state) \/ e.sealed = TRUE
  /\ e.sealed = events.sealed \/ \A id \in Ids : e.op[id].result # "pending"
  /\ \A id \in Ids :
       /\ e.op[id].kind = events.op[id].kind /\ e.op[id].generation = events.op[id].generation
       /\ e.op[id].result = events.op[id].result \/ (events.op[id].result = "pending" /\ e.op[id].result = "Failed")
       /\ id \in {worker.executing, worker.resizeOperation} => e.op[id].result # "pending"

\* The command that is being executed may have been handed to the protocol.
Handed ==
  /\ history' \in HistoryType /\ history'.revoked = history.revoked /\ history'.closed = history.closed
  /\ \A id \in history'.executed : id \in history.executed \/ (pc = "execute" /\ id = worker.executing)

\* An exception settles what the protocol had and ends the session loop.
LEMMA ThrownStep ==
  ASSUME WorkerInv, NEW code \in {"Cancelled", "PeerClosed", "Failure"}, NEW e \in Events, Thrown(code, e),
         pc \in {"start", "execute", "dispatch", "message", "prompt"}, Broken(e), Handed
  PROVE  WorkerInv'
<1>0. /\ Types /\ Phases /\ Resources /\ StateKnown /\ QueueKnown /\ OperationsKnown /\ OutcomesKnown
      /\ HostsKnown /\ ControlsKnown /\ Wakes /\ Cancels
      /\ gate \in Gate /\ events \in Events /\ auth \in Auth /\ worker \in Worker /\ watch \in Watch
      /\ control \in [Generations -> Control] /\ router \in 0 .. MaxGeneration
      /\ pc \in Places /\ host \in [Hosts -> HostType] /\ history \in HistoryType
  BY WorkerInvFacts
<1>1. /\ pc' = "finish" /\ events' = e /\ UNCHANGED <<gate, control, router, watch, host>>
      /\ history' \in HistoryType /\ history'.revoked = history.revoked /\ history'.closed = history.closed
      /\ \A id \in history'.executed : id \in history.executed \/ (pc = "execute" /\ id = worker.executing)
  BY DEF Thrown, Handed
<1>2. generation \in Generations /\ gate.attemptActive = TRUE
  BY <1>0, <1>1, AttemptNumber DEF Running, Setup, Session, Ending, Resources, Live
<1>3. /\ worker' \in Worker /\ worker'.executing = 0 /\ worker'.drained = worker.drained
      /\ worker'.transport = worker.transport /\ worker'.ready = FALSE /\ worker'.resizeOperation = 0
      /\ worker'.resizePending = FALSE /\ worker'.unanswered = 0
  <2> DEFINE none == 0
  <2>1. /\ none \in 0 .. MaxOperation /\ none \in Nat
        /\ code \in {"None", "Cancelled", "PeerClosed", "EventOverflow", "Failure"}
    BY WorkerBounds
  <2>2. worker' = [worker EXCEPT !.ready = FALSE, !.resizeOperation = none, !.resizePending = FALSE,
                     !.unanswered = none, !.result = code, !.executing = none]
    BY <1>0 DEF Thrown, Finished, Worker
  <2> HIDE DEF none
  <2>3. /\ worker' \in Worker /\ worker'.executing = none /\ worker'.drained = worker.drained
        /\ worker'.transport = worker.transport /\ worker'.ready = FALSE /\ worker'.resizeOperation = none
        /\ worker'.resizePending = FALSE /\ worker'.unanswered = none
    BY <1>0, <2>1, <2>2 DEF Worker
  <2> QED
    BY <2>3 DEF none
<1>4. auth' \in Auth /\ auth'.accepting = FALSE /\ auth'.generation = generation /\ auth'.status = "Cancelled"
  BY <1>0, GateFields DEF Thrown, Interrupted, Auth, generation
<1>5. /\ e.issued = events.issued /\ e.generation = events.generation
      /\ (e.sealed = events.sealed /\ e.state = events.state) \/ e.sealed = TRUE
      /\ e.sealed = events.sealed \/ \A id \in Ids : e.op[id].result # "pending"
      /\ events.sealed \in BOOLEAN /\ e.sealed \in BOOLEAN
      /\ \A id \in Ids :
           /\ e.op[id].kind = events.op[id].kind /\ e.op[id].generation = events.op[id].generation
           /\ e.op[id].result = events.op[id].result \/ (events.op[id].result = "pending" /\ e.op[id].result = "Failed")
           /\ id \in {worker.executing, worker.resizeOperation} => e.op[id].result # "pending"
  BY <1>0, EventsFields DEF Broken
<1>6. Types'
  BY <1>0, <1>1, <1>2, <1>3, <1>4, <1>5 DEF Types, TypeOK, Places, Running, Setup, Session, Ending
<1>7. HostsKnown'
  BY <1>0, <1>1, <1>2, <1>3, <1>4, <1>5, HostsStay DEF Keeps, cancelled
<1>8. Promised
  BY <1>0, <1>1, <1>2, <1>3, <1>4, <1>5, SignalsStay DEF ControlStays, generation
<1>9. Phases'
  BY <1>0, <1>1, <1>2, <1>3, <1>4, <1>5 DEF Phases, Running, Setup, Session, Ending, generation, cancelled
<1>10. Resources'
  BY <1>0, <1>1, <1>2, <1>3, <1>4, <1>5 DEF Resources, Running, Setup, Session, Ending, Live, generation
<1>11. StateKnown'
  BY <1>0, <1>1, <1>2, <1>3, <1>4, <1>5 DEF StateKnown, Running, Setup, Session, Ending, generation
<1>12. QueueKnown'
  BY <1>0, <1>1, <1>2, <1>3, <1>4, <1>5, OwnedIds DEF QueueKnown, Session
<1>13. OperationsKnown'
  BY <1>0, <1>1, <1>2, <1>3, <1>4, <1>5, OwnedIds DEF OperationsKnown, Owned, generation
<1>14. OutcomesKnown'
  <2>1. /\ \A id \in Ids : events'.op[id].kind = "disconnect" /\ events'.op[id].result = "Succeeded" =>
                       gate'.generation > events'.op[id].generation \/ gate'.attemptActive = FALSE
        /\ \A id \in history'.revoked :
             /\ id <= events'.issued /\ events'.op[id].kind = "connect" /\ events'.op[id].result # "Succeeded"
             /\ id = gate'.connectOperation => gate'.cancelled = TRUE
    BY <1>0, <1>1, <1>5, OwnedIds DEF OutcomesKnown, generation, cancelled
  <2>2. ASSUME NEW id \in history'.executed
        PROVE  /\ id <= events'.issued /\ events'.op[id].kind \in CommandKinds
               /\ events'.op[id].result \in {"Succeeded", "Failed"} \/ events'.op[id].kind = "DesktopLayout"
    <3>1. CASE id \in history.executed
      BY <1>0, <1>1, <1>5, <3>1, OwnedIds DEF OutcomesKnown
    <3>2. CASE pc = "execute" /\ id = worker.executing
      <4>1. /\ id \in Ids /\ id <= events.issued /\ events.op[id].kind \in CommandKinds
            /\ events.op[id].result \in {"pending", "Failed"}
        BY <1>0, <3>2, OwnedIds DEF OperationsKnown, Resources
      <4> QED
        BY <1>1, <1>5, <3>2, <4>1
    <3> QED
      BY <1>1, <3>1, <3>2
  <2> QED
    BY <2>1, <2>2 DEF OutcomesKnown, generation, cancelled
<1>15. ControlsKnown'
  BY <1>0, <1>1, <1>2, <1>3, <1>4, <1>5 DEF ControlsKnown, Session, generation
<1>16. Wakes'
  BY <1>0, <1>1, <1>2, <1>3, <1>4, <1>5, <1>8 DEF Wakes, Waking, Setup, Promised
<1>17. Cancels'
  BY <1>0, <1>1, <1>2, <1>3, <1>4, <1>5, <1>8 DEF Cancels, Session, Promised, cancelled
<1> QED
  BY <1>6, <1>7, <1>9, <1>10, <1>11, <1>12, <1>13, <1>14, <1>15, <1>16, <1>17 DEF WorkerInv

\* finish() settles the layout request.
LEMMA EndedFacts ==
  ASSUME Types, NEW f \in BOOLEAN, NEW d, d = Ended(events, f)
  PROVE  /\ d \in Events /\ d.issued = events.issued /\ d.sealed = events.sealed /\ d.state = events.state
         /\ d.generation = events.generation
         /\ \A id \in Ids :
              /\ d.op[id].kind = events.op[id].kind /\ d.op[id].generation = events.op[id].generation
              /\ d.op[id].result = IF id = worker.resizeOperation /\ events.op[id].result = "pending"
                                   THEN (IF f THEN "Failed" ELSE "Cancelled") ELSE events.op[id].result
<1> DEFINE S == {worker.resizeOperation}
           r == IF f THEN "Failed" ELSE "Cancelled"
<1>1. d = Completed(events, S, r) /\ r \in Results /\ events \in Events
  BY SideFields DEF Ended, Results
<1> HIDE DEF r, S
<1>2. /\ d \in Events /\ d.issued = events.issued /\ d.sealed = events.sealed /\ d.state = events.state
      /\ d.generation = events.generation
      /\ \A id \in Ids :
           /\ d.op[id].kind = events.op[id].kind /\ d.op[id].generation = events.op[id].generation
           /\ d.op[id].result = IF id \in S /\ events.op[id].result = "pending" THEN r ELSE events.op[id].result
  BY ONLY <1>1, CompletedFacts
<1> QED
  BY <1>2 DEF S, r

\* The steps that throw.
LEMMA ThrowSteps ==
  ASSUME WorkerInv,
         \/ ExecuteThrows \/ (\E code \in {"PeerClosed", "Failure"} : MessageThrows(code))
         \/ (MessagePrompts /\ ~auth.accepting) \/ PromptInterrupted \/ PromptTimesOut \/ PublishOverflows
  PROVE  WorkerInv'
<1>0. /\ Types /\ Resources /\ OperationsKnown /\ events \in Events /\ worker \in Worker /\ history \in HistoryType
      /\ auth.status \in {"Waiting", "Cancelled", "PeerClosed"} /\ auth.accepting \in BOOLEAN
  BY WorkerInvFacts, SideFields
<1>1. UNCHANGED history => Handed
  BY <1>0 DEF Handed
<1> DEFINE ended == Ended(events, TRUE)
<1>2. /\ ended \in Events /\ ended.issued = events.issued /\ ended.sealed = events.sealed /\ ended.state = events.state
      /\ ended.generation = events.generation
      /\ \A id \in Ids :
           /\ ended.op[id].kind = events.op[id].kind /\ ended.op[id].generation = events.op[id].generation
           /\ ended.op[id].result = IF id = worker.resizeOperation /\ events.op[id].result = "pending"
                                    THEN "Failed" ELSE events.op[id].result
  BY <1>0, EndedFacts
<1> HIDE DEF ended
<1>3. pc # "execute" => Broken(ended)
  BY <1>0, <1>2, Widths DEF Broken, Resources
<1>4. CASE ExecuteThrows
  <2> DEFINE S == {worker.executing}
             e == Completed(ended, S, "Failed")
  <2>1. pc = "execute" /\ Thrown("Failure", e) /\ history' = [history EXCEPT !.executed = @ \cup {worker.executing}]
    BY <1>4 DEF ExecuteThrows, ended
  <2>2. /\ e \in Events /\ e.issued = ended.issued /\ e.sealed = ended.sealed /\ e.state = ended.state
        /\ e.generation = ended.generation
        /\ \A id \in Ids :
             /\ e.op[id].kind = ended.op[id].kind /\ e.op[id].generation = ended.op[id].generation
             /\ e.op[id].result = IF id \in S /\ ended.op[id].result = "pending" THEN "Failed" ELSE ended.op[id].result
    BY <1>2, CompletedFacts DEF Results
  <2>3. worker.executing \in Ids
    BY <1>0, <2>1, OwnedIds DEF Resources
  <2>4. Handed
    <3> DEFINE x == history.executed \cup {worker.executing}
    <3>1. x \in SUBSET Ids
      BY <1>0, <2>3, OwnedIds
    <3>2. history' = [history EXCEPT !.executed = x]
      BY <2>1
    <3> HIDE DEF x
    <3>3. history' \in HistoryType /\ history'.revoked = history.revoked /\ history'.closed = history.closed
          /\ history'.executed = x
      BY <1>0, <3>1, <3>2 DEF HistoryType
    <3> QED
      BY <2>1, <3>3 DEF Handed, x
  <2> HIDE DEF e
  <2>5. Broken(e)
    BY <1>2, <2>2 DEF Broken, S
  <2> QED
    BY <2>1, <2>2, <2>4, <2>5, ThrownStep
<1>5. ASSUME NEW code \in {"PeerClosed", "Failure"}, MessageThrows(code) PROVE WorkerInv'
  BY <1>1, <1>2, <1>3, <1>5, ThrownStep DEF MessageThrows, ended
<1>6. ASSUME NEW code \in {"Cancelled", "PeerClosed", "Failure"}, pc \in {"message", "prompt"},
             Thrown(code, ended), UNCHANGED history
      PROVE  WorkerInv'
  BY <1>1, <1>2, <1>3, <1>6, ThrownStep
<1>7. CASE MessagePrompts /\ ~auth.accepting
  <2>1. pc = "message" /\ Thrown(auth.status, ended) /\ UNCHANGED history
    BY <1>7 DEF MessagePrompts, ended
  <2>2. auth.status \in {"Cancelled", "PeerClosed", "Failure"}
    BY <1>0, <1>7 DEF Resources
  <2> QED
    BY <1>6, <2>1, <2>2
<1>8. CASE PromptInterrupted
  BY <1>0, <1>6, <1>8 DEF PromptInterrupted, ended
<1>9. CASE PromptTimesOut
  BY <1>0, <1>6, <1>9 DEF PromptTimesOut, ended
<1>10. CASE PublishOverflows
  <2> DEFINE e == Overflowed(events)
  <2>1. pc \in {"start", "execute", "message"} /\ Thrown("Failure", e) /\ UNCHANGED history
    BY <1>10 DEF PublishOverflows
  <2>0. e = Overflowed(events)
    OBVIOUS
  <2> HIDE DEF e
  <2>2. /\ e \in Events /\ e.issued = events.issued /\ e.generation = events.generation
        /\ \A id \in Ids :
             /\ e.op[id].kind = events.op[id].kind /\ e.op[id].generation = events.op[id].generation
             /\ events.op[id].result = "pending" => e.op[id].result = "Failed"
             /\ events.op[id].result # "pending" => e.op[id].result = events.op[id].result
    BY ONLY <1>0, <2>0, OverflowedFacts
  <2>4. e.sealed = TRUE
    BY ONLY <1>0, <2>0, OverflowedSealed
  <2>3. Broken(e)
    BY <2>2, <2>4 DEF Broken
  <2> QED
    BY <1>1, <2>1, <2>2, <2>3, ThrownStep
<1> QED
  BY <1>4, <1>5, <1>7, <1>8, <1>9, <1>10

\* The stream overflows during the setup.
LEMMA SetupOverflowsStep ==
  ASSUME WorkerInv, SetupOverflows
  PROVE  WorkerInv'
<1>0. /\ Types /\ Phases /\ Resources /\ StateKnown /\ QueueKnown /\ OperationsKnown /\ OutcomesKnown
      /\ HostsKnown /\ ControlsKnown /\ Wakes /\ Cancels
      /\ gate \in Gate /\ events \in Events /\ auth \in Auth /\ worker \in Worker /\ watch \in Watch
      /\ control \in [Generations -> Control] /\ router \in 0 .. MaxGeneration
      /\ pc \in Places /\ host \in [Hosts -> HostType] /\ history \in HistoryType
  BY WorkerInvFacts
<1>1. /\ pc \in {"prepare", "connecting"} /\ pc' = "finish" /\ router' = generation
      /\ UNCHANGED <<gate, auth, control, watch, host, history>>
  BY DEF SetupOverflows
<1>2. generation \in Generations /\ gate.attemptActive = TRUE
  BY <1>0, <1>1, AttemptNumber DEF Running, Setup, Session, Ending, Resources, Live
<1>3. /\ events' \in Events /\ events'.issued = events.issued /\ events'.generation = events.generation
      /\ \A id \in Ids :
           /\ events'.op[id].kind = events.op[id].kind /\ events'.op[id].generation = events.op[id].generation
           /\ events.op[id].result = "pending" => events'.op[id].result = "Failed"
           /\ events.op[id].result # "pending" => events'.op[id].result = events.op[id].result
  <2>1. events' = Overflowed(events)
    BY DEF SetupOverflows
  <2> QED
    BY ONLY <1>0, <2>1, OverflowedFacts
<1>4. events'.sealed = TRUE
  <2>1. events' = Overflowed(events)
    BY DEF SetupOverflows
  <2> QED
    BY ONLY <1>0, <2>1, OverflowedSealed
<1>5. /\ worker' \in Worker /\ worker'.executing = worker.executing /\ worker'.drained = worker.drained
      /\ worker'.progressed = worker.progressed /\ worker'.transport = worker.transport
      /\ worker'.ready = worker.ready /\ worker'.resizeOperation = worker.resizeOperation
      /\ worker'.resizePending = worker.resizePending /\ worker'.unanswered = worker.unanswered
  BY <1>0 DEF SetupOverflows, Worker
<1>6. generation \in 0 .. MaxGeneration
  BY <1>0, GateFields DEF generation
<1>7. Types'
  BY <1>0, <1>1, <1>2, <1>3, <1>4, <1>5, <1>6 DEF Types, TypeOK, Places, Running, Setup, Session, Ending
<1>8. HostsKnown'
  BY <1>0, <1>1, HostsStay DEF Keeps, cancelled
<1>9. Promised
  BY <1>0, <1>1, <1>2, <1>3, <1>4, <1>5, <1>6, SignalsStay DEF ControlStays, generation
<1>10. Phases'
  BY <1>0, <1>1, <1>2, <1>3, <1>4, <1>5, <1>6 DEF Phases, Running, Setup, Session, Ending, generation, cancelled
<1>11. Resources'
  BY <1>0, <1>1, <1>2, <1>3, <1>4, <1>5, <1>6 DEF Resources, Running, Setup, Session, Ending, Live, generation
<1>12. StateKnown'
  BY <1>0, <1>1, <1>2, <1>3, <1>4, <1>5, <1>6 DEF StateKnown, Running, Setup, Session, Ending, generation
<1>13. QueueKnown'
  BY <1>0, <1>1, <1>2, <1>3, <1>4, <1>5, <1>6, OwnedIds DEF QueueKnown, Session
<1>14. OperationsKnown'
  BY <1>0, <1>1, <1>2, <1>3, <1>4, <1>5, <1>6, OwnedIds DEF OperationsKnown, Owned, generation
<1>15. OutcomesKnown'
  BY <1>0, <1>1, <1>2, <1>3, <1>4, <1>5, <1>6, OwnedIds DEF OutcomesKnown, generation, cancelled
<1>16. ControlsKnown'
  BY <1>0, <1>1, <1>2, <1>3, <1>4, <1>5, <1>6 DEF ControlsKnown, Session, generation
<1>17. Wakes'
  BY <1>0, <1>1, <1>2, <1>3, <1>4, <1>5, <1>6, <1>9 DEF Wakes, Waking, Setup, Promised
<1>18. Cancels'
  BY <1>0, <1>1, <1>2, <1>3, <1>4, <1>5, <1>6, <1>9 DEF Cancels, Session, Promised, cancelled
<1> QED
  BY <1>7, <1>8, <1>10, <1>11, <1>12, <1>13, <1>14, <1>15, <1>16, <1>17, <1>18 DEF WorkerInv

\* The resize timer fires.
LEMMA ResizeTimesOut ==
  ASSUME WorkerInv, Dispatch(TRUE)
  PROVE  WorkerInv'
<1>0. /\ Types /\ Phases /\ Resources /\ StateKnown /\ QueueKnown /\ OperationsKnown /\ OutcomesKnown
      /\ HostsKnown /\ ControlsKnown /\ Wakes /\ Cancels
      /\ gate \in Gate /\ events \in Events /\ auth \in Auth /\ worker \in Worker /\ watch \in Watch
      /\ control \in [Generations -> Control] /\ router \in 0 .. MaxGeneration
      /\ pc \in Places /\ host \in [Hosts -> HostType] /\ history \in HistoryType
  BY WorkerInvFacts
<1>1. /\ pc = "dispatch" /\ pc' \in {"flush", "message"} /\ worker.resizeOperation # 0
      /\ UNCHANGED <<gate, auth, control, router, watch, host, history>>
  BY DEF Dispatch, Processing
<1>2. /\ events' \in Events /\ events'.issued = events.issued /\ events'.sealed = events.sealed
      /\ events'.state = events.state /\ events'.generation = events.generation
      /\ \A id \in Ids :
           /\ events'.op[id].kind = events.op[id].kind /\ events'.op[id].generation = events.op[id].generation
           /\ events'.op[id].result = IF id \in {worker.resizeOperation} /\ events.op[id].result = "pending" THEN "Failed" ELSE events.op[id].result
  <2>1. events' = Completed(events, {worker.resizeOperation}, "Failed") /\ "Failed" \in Results
    BY <1>0 DEF Dispatch, Results
  <2> QED
    BY ONLY <1>0, <2>1, CompletedFacts
<1>3. /\ worker' \in Worker /\ worker'.executing = worker.executing /\ worker'.drained = worker.drained
      /\ worker'.progressed = worker.progressed /\ worker'.transport = worker.transport
      /\ worker'.ready = worker.ready /\ worker'.resizeOperation = 0
      /\ worker'.resizePending = worker.resizePending /\ worker'.unanswered = worker.unanswered
      /\ worker'.result = worker.result
  <2> DEFINE none == 0
  <2>1. worker' = [worker EXCEPT !.resizeOperation = none] /\ none \in 0 .. MaxOperation
    BY WorkerBounds DEF Dispatch, TimedOut
  <2> HIDE DEF none
  <2>2. /\ worker' \in Worker /\ worker'.executing = worker.executing /\ worker'.drained = worker.drained
        /\ worker'.progressed = worker.progressed /\ worker'.transport = worker.transport
        /\ worker'.ready = worker.ready /\ worker'.resizeOperation = none
        /\ worker'.resizePending = worker.resizePending /\ worker'.unanswered = worker.unanswered
        /\ worker'.result = worker.result
    BY <1>0, <2>1 DEF Worker
  <2> QED
    BY <2>2 DEF none
<1>4. Types'
  BY <1>0, <1>1, <1>2, <1>3 DEF Types, TypeOK, Places, Running, Setup, Session, Ending
<1>5. HostsKnown'
  BY <1>0, <1>1, HostsStay DEF Keeps, cancelled
<1>6. Promised
  BY <1>0, <1>1, <1>2, <1>3, SignalsStay DEF ControlStays, generation
<1>7. Phases'
  BY <1>0, <1>1, <1>2, <1>3 DEF Phases, Running, Setup, Session, Ending, generation, cancelled
<1>8. Resources'
  BY <1>0, <1>1, <1>2, <1>3 DEF Resources, Running, Setup, Session, Ending, Live, generation
<1>9. StateKnown'
  BY <1>0, <1>1, <1>2, <1>3 DEF StateKnown, Running, Setup, Session, Ending, generation
<1>10. QueueKnown'
  BY <1>0, <1>1, <1>2, <1>3, OwnedIds DEF QueueKnown, Session
<1>11. OperationsKnown'
  BY <1>0, <1>1, <1>2, <1>3, OwnedIds DEF OperationsKnown, Owned, generation
<1>12. OutcomesKnown'
  BY <1>0, <1>1, <1>2, <1>3, OwnedIds DEF OutcomesKnown, generation, cancelled
<1>13. ControlsKnown'
  BY <1>0, <1>1, <1>2, <1>3 DEF ControlsKnown, Session, generation
<1>14. Wakes'
  BY <1>0, <1>1, <1>2, <1>3, <1>6 DEF Wakes, Waking, Setup, Promised
<1>15. Cancels'
  BY <1>0, <1>1, <1>2, <1>3, <1>6 DEF Cancels, Session, Promised, cancelled
<1> QED
  BY <1>4, <1>5, <1>7, <1>8, <1>9, <1>10, <1>11, <1>12, <1>13, <1>14, <1>15 DEF WorkerInv

\* The reply to a layout request arrives.
LEMMA MessageResizesStep ==
  ASSUME WorkerInv, NEW r \in {"Succeeded", "Failed"}, MessageResizes(r)
  PROVE  WorkerInv'
<1>0. /\ Types /\ Phases /\ Resources /\ StateKnown /\ QueueKnown /\ OperationsKnown /\ OutcomesKnown
      /\ HostsKnown /\ ControlsKnown /\ Wakes /\ Cancels
      /\ gate \in Gate /\ events \in Events /\ auth \in Auth /\ worker \in Worker /\ watch \in Watch
      /\ control \in [Generations -> Control] /\ router \in 0 .. MaxGeneration
      /\ pc \in Places /\ host \in [Hosts -> HostType] /\ history \in HistoryType
  BY WorkerInvFacts
<1>1. /\ pc = "message" /\ pc' = "boundary" /\ UNCHANGED <<gate, auth, control, router, watch, host, history>>
  BY DEF MessageResizes
<1>2. /\ events' \in Events /\ events'.issued = events.issued /\ events'.sealed = events.sealed
      /\ events'.state = events.state /\ events'.generation = events.generation
      /\ \A id \in Ids :
           /\ events'.op[id].kind = events.op[id].kind /\ events'.op[id].generation = events.op[id].generation
           /\ events'.op[id].result = IF id \in {worker.resizeOperation} /\ events.op[id].result = "pending" THEN r ELSE events.op[id].result
  <2>1. events' = Completed(events, {worker.resizeOperation}, r) /\ r \in Results
    BY <1>0 DEF MessageResizes, Results
  <2> QED
    BY ONLY <1>0, <2>1, CompletedFacts
<1>3. /\ worker' \in Worker /\ worker'.executing = worker.executing /\ worker'.drained = worker.drained
      /\ worker'.transport = worker.transport /\ worker'.ready = worker.ready /\ worker'.resizeOperation = 0
      /\ worker'.resizePending = FALSE /\ worker'.unanswered = 0 /\ worker'.result = worker.result
  <2> DEFINE none == 0
  <2>1. worker.resizePending = TRUE /\ worker.unanswered = 1
    BY <1>0, WorkerFields DEF MessageResizes, Resources
  <2>2. /\ worker' = [worker EXCEPT !.resizePending = FALSE, !.resizeOperation = none, !.unanswered = none, !.progressed = TRUE]
        /\ none \in 0 .. MaxOperation /\ none \in Nat
    BY <1>0, <2>1, WorkerBounds DEF MessageResizes, Worker
  <2> HIDE DEF none
  <2>3. /\ worker' \in Worker /\ worker'.executing = worker.executing /\ worker'.drained = worker.drained
        /\ worker'.transport = worker.transport /\ worker'.ready = worker.ready
        /\ worker'.resizeOperation = none /\ worker'.resizePending = FALSE /\ worker'.unanswered = none
        /\ worker'.result = worker.result
    BY <1>0, <2>2 DEF Worker
  <2> QED
    BY <2>3 DEF none
<1>20. worker.executing = 0 /\ \A id \in Ids : id = worker.resizeOperation => events.op[id].kind = "DesktopLayout"
  BY <1>0, <1>1, OwnedIds DEF Resources, OperationsKnown
<1>4. Types'
  BY <1>0, <1>1, <1>2, <1>3 DEF Types, TypeOK, Places, Running, Setup, Session, Ending
<1>5. HostsKnown'
  BY <1>0, <1>1, HostsStay DEF Keeps, cancelled
<1>6. Promised
  BY <1>0, <1>1, <1>2, <1>3, SignalsStay DEF ControlStays, generation
<1>7. Phases'
  BY <1>0, <1>1, <1>2, <1>3 DEF Phases, Running, Setup, Session, Ending, generation, cancelled
<1>8. Resources'
  BY <1>0, <1>1, <1>2, <1>3 DEF Resources, Running, Setup, Session, Ending, Live, generation
<1>9. StateKnown'
  BY <1>0, <1>1, <1>2, <1>3 DEF StateKnown, Running, Setup, Session, Ending, generation
<1>10. QueueKnown'
  BY <1>0, <1>1, <1>2, <1>3, OwnedIds DEF QueueKnown, Session
<1>11. OperationsKnown'
  BY <1>0, <1>1, <1>2, <1>3, <1>20, OwnedIds DEF OperationsKnown, Owned, generation
<1>12. OutcomesKnown'
  BY <1>0, <1>1, <1>2, <1>3, <1>20, OwnedIds DEF OutcomesKnown, generation, cancelled
<1>13. ControlsKnown'
  BY <1>0, <1>1, <1>2, <1>3 DEF ControlsKnown, Session, generation
<1>14. Wakes'
  BY <1>0, <1>1, <1>2, <1>3, <1>6 DEF Wakes, Waking, Setup, Promised
<1>15. Cancels'
  BY <1>0, <1>1, <1>2, <1>3, <1>6 DEF Cancels, Session, Promised, cancelled
<1> QED
  BY <1>4, <1>5, <1>7, <1>8, <1>9, <1>10, <1>11, <1>12, <1>13, <1>14, <1>15 DEF WorkerInv

\* PromptAuthentication parks the worker.
LEMMA MessageAsks ==
  ASSUME WorkerInv, MessagePrompts, auth.accepting
  PROVE  WorkerInv'
<1>0. /\ Types /\ Phases /\ Resources /\ StateKnown /\ QueueKnown /\ OperationsKnown /\ OutcomesKnown
      /\ HostsKnown /\ ControlsKnown /\ Wakes /\ Cancels
      /\ gate \in Gate /\ events \in Events /\ auth \in Auth /\ worker \in Worker /\ watch \in Watch
      /\ control \in [Generations -> Control] /\ router \in 0 .. MaxGeneration
      /\ pc \in Places /\ host \in [Hosts -> HostType] /\ history \in HistoryType
  BY WorkerInvFacts
<1>1. /\ pc = "message" /\ pc' = "prompt"
      /\ UNCHANGED <<gate, events, control, router, worker, watch, host, history>>
  BY DEF MessagePrompts
<1>2. /\ auth' \in Auth /\ auth'.accepting = auth.accepting /\ auth'.generation = auth.generation
      /\ auth'.status = "Waiting" /\ auth.accepting = TRUE
  BY <1>0, SideFields DEF MessagePrompts, Auth
<1>3. Types'
  BY <1>0, <1>1, <1>2 DEF Types, TypeOK, Places, Running, Setup, Session, Ending
<1>4. HostsKnown'
  BY <1>0, <1>1, HostsStay DEF Keeps, cancelled
<1>5. Promised
  BY <1>0, <1>1, <1>2, SignalsStay DEF ControlStays, generation
<1>6. Phases'
  BY <1>0, <1>1, <1>2 DEF Phases, Running, Setup, Session, Ending, generation, cancelled
<1>7. Resources'
  BY <1>0, <1>1, <1>2 DEF Resources, Running, Setup, Session, Ending, Live, generation
<1>8. StateKnown'
  BY <1>0, <1>1, <1>2 DEF StateKnown, Running, Setup, Session, Ending, generation
<1>9. QueueKnown'
  BY <1>0, <1>1, <1>2 DEF QueueKnown, Session
<1>10. ControlsKnown'
  BY <1>0, <1>1, <1>2 DEF ControlsKnown, Session, generation
<1>11. Wakes'
  BY <1>0, <1>1, <1>2, <1>5 DEF Wakes, Waking, Setup, Promised
<1>12. Cancels'
  BY <1>0, <1>1, <1>2, <1>5 DEF Cancels, Session, Promised, cancelled
<1>13. OperationsKnown' /\ OutcomesKnown'
  BY <1>0, <1>1 DEF OperationsKnown, Owned, generation, OutcomesKnown, cancelled
<1> QED
  BY <1>3, <1>4, <1>6, <1>7, <1>8, <1>9, <1>10, <1>11, <1>12, <1>13 DEF WorkerInv

\* The end of the attempt is announced, or finds no room.
LEMMA DisconnectingPublished ==
  ASSUME WorkerInv, pc = "disconnecting", pc' = "closing", events' = Published(events, "Disconnecting"),
         UNCHANGED <<gate, auth, control, router, worker, watch, host, history>>
  PROVE  WorkerInv'
<1>0. /\ Types /\ Phases /\ Resources /\ StateKnown /\ QueueKnown /\ OperationsKnown /\ OutcomesKnown
      /\ HostsKnown /\ ControlsKnown /\ Wakes /\ Cancels
      /\ gate \in Gate /\ events \in Events /\ auth \in Auth /\ worker \in Worker /\ watch \in Watch
      /\ control \in [Generations -> Control] /\ router \in 0 .. MaxGeneration
      /\ pc \in Places /\ host \in [Hosts -> HostType] /\ history \in HistoryType
  BY WorkerInvFacts
<1>1. /\ pc = "disconnecting" /\ pc' = "closing"
      /\ UNCHANGED <<gate, auth, control, router, worker, watch, host, history>>
  OBVIOUS
<1>2. /\ events' \in Events /\ events'.issued = events.issued /\ events'.sealed = events.sealed
      /\ events'.op = events.op /\ (events.sealed = TRUE => events' = events)
      /\ (events.sealed = FALSE => events'.state = "Disconnecting" /\ events'.generation = generation)
      /\ events.sealed \in BOOLEAN
  <2>1. events' = Published(events, "Disconnecting")
    OBVIOUS
  <2>2. events' \in Events /\ events'.issued = events.issued /\ events'.sealed = events.sealed
        /\ events'.op = events.op /\ (events.sealed = TRUE => events' = events)
        /\ (events.sealed = FALSE => events'.state = "Disconnecting" /\ events'.generation = generation)
    BY ONLY <1>0, <2>1, PublishedFacts
  <2> QED
    BY <1>0, <2>2, EventsFields
<1>3. Types'
  BY <1>0, <1>1, <1>2 DEF Types, TypeOK, Places, Running, Setup, Session, Ending
<1>4. HostsKnown'
  BY <1>0, <1>1, HostsStay DEF Keeps, cancelled
<1>5. Promised
  BY <1>0, <1>1, <1>2, SignalsStay DEF ControlStays, generation
<1>6. Phases'
  BY <1>0, <1>1, <1>2 DEF Phases, Running, Setup, Session, Ending, generation, cancelled
<1>7. Resources'
  BY <1>0, <1>1, <1>2 DEF Resources, Running, Setup, Session, Ending, Live, generation
<1>8. StateKnown'
  BY <1>0, <1>1, <1>2, GateFields, EventsFields, Widths DEF StateKnown, Phases, Running, Setup, Session, Ending, generation
<1>9. QueueKnown'
  BY <1>0, <1>1, <1>2, OwnedIds DEF QueueKnown, Session
<1>10. OperationsKnown'
  BY <1>0, <1>1, <1>2, OwnedIds DEF OperationsKnown, Owned, generation
<1>11. OutcomesKnown'
  BY <1>0, <1>1, <1>2, OwnedIds DEF OutcomesKnown, generation, cancelled
<1>12. ControlsKnown'
  BY <1>0, <1>1, <1>2 DEF ControlsKnown, Session, generation
<1>13. Wakes'
  BY <1>0, <1>1, <1>2, <1>5 DEF Wakes, Waking, Setup, Promised
<1>14. Cancels'
  BY <1>0, <1>1, <1>2, <1>5 DEF Cancels, Session, Promised, cancelled
<1> QED
  BY <1>3, <1>4, <1>6, <1>7, <1>8, <1>9, <1>10, <1>11, <1>12, <1>13, <1>14 DEF WorkerInv

\* Disconnecting finds no room.
LEMMA DisconnectingOverflows ==
  ASSUME WorkerInv, pc = "disconnecting", pc' = "closing", events' = Overflowed(events),
         worker' = [worker EXCEPT !.result = "EventOverflow"], UNCHANGED <<gate, auth, control, router, watch, host, history>>
  PROVE  WorkerInv'
<1>0. /\ Types /\ Phases /\ Resources /\ StateKnown /\ QueueKnown /\ OperationsKnown /\ OutcomesKnown
      /\ HostsKnown /\ ControlsKnown /\ Wakes /\ Cancels
      /\ gate \in Gate /\ events \in Events /\ auth \in Auth /\ worker \in Worker /\ watch \in Watch
      /\ control \in [Generations -> Control] /\ router \in 0 .. MaxGeneration
      /\ pc \in Places /\ host \in [Hosts -> HostType] /\ history \in HistoryType
  BY WorkerInvFacts
<1>1. /\ pc = "disconnecting" /\ pc' = "closing"
      /\ UNCHANGED <<gate, auth, control, router, watch, host, history>>
  OBVIOUS
<1>2. /\ events' \in Events /\ events'.issued = events.issued /\ events'.generation = events.generation
      /\ \A id \in Ids :
           /\ events'.op[id].kind = events.op[id].kind /\ events'.op[id].generation = events.op[id].generation
           /\ events.op[id].result = "pending" => events'.op[id].result = "Failed"
           /\ events.op[id].result # "pending" => events'.op[id].result = events.op[id].result
  <2>1. events' = Overflowed(events)
    OBVIOUS
  <2> QED
    BY ONLY <1>0, <2>1, OverflowedFacts
<1>3. events'.sealed = TRUE
  <2>1. events' = Overflowed(events)
    OBVIOUS
  <2> QED
    BY ONLY <1>0, <2>1, OverflowedSealed
<1>4. /\ worker' \in Worker /\ worker'.executing = worker.executing /\ worker'.drained = worker.drained
      /\ worker'.progressed = worker.progressed /\ worker'.transport = worker.transport
      /\ worker'.ready = worker.ready /\ worker'.resizeOperation = worker.resizeOperation
      /\ worker'.resizePending = worker.resizePending /\ worker'.unanswered = worker.unanswered
  BY <1>0 DEF Worker
<1>5. Types'
  BY <1>0, <1>1, <1>2, <1>3, <1>4 DEF Types, TypeOK, Places, Running, Setup, Session, Ending
<1>6. HostsKnown'
  BY <1>0, <1>1, HostsStay DEF Keeps, cancelled
<1>7. Promised
  BY <1>0, <1>1, <1>2, <1>3, <1>4, SignalsStay DEF ControlStays, generation
<1>8. Phases'
  BY <1>0, <1>1, <1>2, <1>3, <1>4 DEF Phases, Running, Setup, Session, Ending, generation, cancelled
<1>9. Resources'
  BY <1>0, <1>1, <1>2, <1>3, <1>4 DEF Resources, Running, Setup, Session, Ending, Live, generation
<1>10. StateKnown'
  BY <1>0, <1>1, <1>2, <1>3, <1>4 DEF StateKnown, Running, Setup, Session, Ending, generation
<1>11. QueueKnown'
  BY <1>0, <1>1, <1>2, <1>3, <1>4, OwnedIds DEF QueueKnown, Session
<1>12. OperationsKnown'
  BY <1>0, <1>1, <1>2, <1>3, <1>4, OwnedIds DEF OperationsKnown, Owned, generation
<1>13. OutcomesKnown'
  BY <1>0, <1>1, <1>2, <1>3, <1>4, OwnedIds DEF OutcomesKnown, generation, cancelled
<1>14. ControlsKnown'
  BY <1>0, <1>1, <1>2, <1>3, <1>4 DEF ControlsKnown, Session, generation
<1>15. Wakes'
  BY <1>0, <1>1, <1>2, <1>3, <1>4, <1>7 DEF Wakes, Waking, Setup, Promised
<1>16. Cancels'
  BY <1>0, <1>1, <1>2, <1>3, <1>4, <1>7 DEF Cancels, Session, Promised, cancelled
<1> QED
  BY <1>5, <1>6, <1>8, <1>9, <1>10, <1>11, <1>12, <1>13, <1>14, <1>15, <1>16 DEF WorkerInv

\* The protocol is closed and the prompt cancelled.
LEMMA CloseProtocolStep ==
  ASSUME WorkerInv, CloseProtocol
  PROVE  WorkerInv'
<1>0. /\ Types /\ Phases /\ Resources /\ StateKnown /\ QueueKnown /\ OperationsKnown /\ OutcomesKnown
      /\ HostsKnown /\ ControlsKnown /\ Wakes /\ Cancels
      /\ gate \in Gate /\ events \in Events /\ auth \in Auth /\ worker \in Worker /\ watch \in Watch
      /\ control \in [Generations -> Control] /\ router \in 0 .. MaxGeneration
      /\ pc \in Places /\ host \in [Hosts -> HostType] /\ history \in HistoryType
  BY WorkerInvFacts
<1>1. /\ pc = "closing" /\ pc' = "cancelling" /\ UNCHANGED <<gate, control, router, watch, host, history>>
  BY DEF CloseProtocol
<1>2. /\ events' \in Events /\ events'.issued = events.issued /\ events'.sealed = events.sealed
      /\ events'.state = events.state /\ events'.generation = events.generation
      /\ \A id \in Ids :
           /\ events'.op[id].kind = events.op[id].kind /\ events'.op[id].generation = events.op[id].generation
           /\ id # worker.resizeOperation => events'.op[id].result = events.op[id].result
           /\ id = worker.resizeOperation /\ events.op[id].result = "pending" =>
                events'.op[id].result \in {"Failed", "Cancelled"}
           /\ events.op[id].result # "pending" => events'.op[id].result = events.op[id].result
  <2> DEFINE f == worker.result \notin Orderly
  <2>1. events' = Ended(events, f) /\ f \in BOOLEAN
    BY DEF CloseProtocol
  <2> HIDE DEF f
  <2> QED
    BY <1>0, <2>1, EndedFacts
<1>3. /\ worker' \in Worker /\ worker'.executing = worker.executing /\ worker'.drained = worker.drained
      /\ worker'.progressed = worker.progressed /\ worker'.transport = worker.transport /\ worker'.ready = FALSE
      /\ worker'.resizeOperation = 0 /\ worker'.resizePending = FALSE /\ worker'.unanswered = 0
      /\ worker'.result = worker.result
  <2> DEFINE none == 0
  <2>2. /\ worker' = [worker EXCEPT !.ready = FALSE, !.resizeOperation = none, !.resizePending = FALSE, !.unanswered = none]
        /\ none \in 0 .. MaxOperation /\ none \in Nat
    BY <1>0, WorkerBounds DEF CloseProtocol, Finished
  <2> HIDE DEF none
  <2>3. /\ worker' \in Worker /\ worker'.executing = worker.executing /\ worker'.drained = worker.drained
        /\ worker'.progressed = worker.progressed /\ worker'.transport = worker.transport
        /\ worker'.ready = FALSE /\ worker'.resizeOperation = none /\ worker'.resizePending = FALSE
        /\ worker'.unanswered = none /\ worker'.result = worker.result
    BY <1>0, <2>2 DEF Worker
  <2> QED
    BY <2>3 DEF none
<1>4. auth' \in Auth /\ auth'.accepting = FALSE /\ auth'.status = "Cancelled"
  BY <1>0 DEF CloseProtocol, Interrupted, Auth
<1>5. \A id \in Ids : id = worker.resizeOperation => events.op[id].kind = "DesktopLayout"
  BY <1>0, OwnedIds DEF OperationsKnown
<1>6. worker.executing = 0
  BY <1>0, <1>1 DEF Resources
<1>7. Types'
  BY <1>0, <1>1, <1>2, <1>3, <1>4, <1>5, <1>6 DEF Types, TypeOK, Places, Running, Setup, Session, Ending
<1>8. HostsKnown'
  BY <1>0, <1>1, HostsStay DEF Keeps, cancelled
<1>9. Phases'
  BY <1>0, <1>1, <1>2, <1>3, <1>4, <1>5, <1>6 DEF Phases, Running, Setup, Session, Ending, generation, cancelled
<1>10. Resources'
  BY <1>0, <1>1, <1>2, <1>3, <1>4, <1>5, <1>6 DEF Resources, Running, Setup, Session, Ending, Live, generation
<1>11. StateKnown'
  BY <1>0, <1>1, <1>2, <1>3, <1>4, <1>5, <1>6 DEF StateKnown, Running, Setup, Session, Ending, generation
<1>12. QueueKnown'
  BY <1>0, <1>1, <1>2, <1>3, <1>4, <1>5, <1>6, OwnedIds DEF QueueKnown, Session
<1>13. OperationsKnown'
  BY <1>0, <1>1, <1>2, <1>3, <1>4, <1>5, <1>6, OwnedIds DEF OperationsKnown, Owned, generation
<1>14. OutcomesKnown'
  BY <1>0, <1>1, <1>2, <1>3, <1>4, <1>5, <1>6, OwnedIds DEF OutcomesKnown, generation, cancelled
<1>15. ControlsKnown'
  BY <1>0, <1>1, <1>2, <1>3, <1>4, <1>5, <1>6 DEF ControlsKnown, Session, generation
<1>16. Wakes'
  BY <1>0, <1>1, <1>2, <1>3, <1>4, <1>5, <1>6 DEF Wakes, Waking, Setup, Promised
<1>17. Cancels'
  BY <1>0, <1>1, <1>2, <1>3, <1>4, <1>5, <1>6 DEF Cancels, Session, Promised, cancelled
<1> QED
  BY <1>7, <1>8, <1>9, <1>10, <1>11, <1>12, <1>13, <1>14, <1>15, <1>16, <1>17 DEF WorkerInv

\* The transport is told to stop.
LEMMA CancelControlStep ==
  ASSUME WorkerInv, CancelControl
  PROVE  WorkerInv'
<1>0. /\ Types /\ Phases /\ Resources /\ StateKnown /\ QueueKnown /\ OperationsKnown /\ OutcomesKnown
      /\ HostsKnown /\ ControlsKnown /\ Wakes /\ Cancels
      /\ gate \in Gate /\ events \in Events /\ auth \in Auth /\ worker \in Worker /\ watch \in Watch
      /\ control \in [Generations -> Control] /\ router \in 0 .. MaxGeneration
      /\ pc \in Places /\ host \in [Hosts -> HostType] /\ history \in HistoryType
  BY WorkerInvFacts
<1>1. /\ pc = "cancelling" /\ pc' = "joining"
      /\ UNCHANGED <<gate, events, auth, router, worker, watch, host, history>>
  BY DEF CancelControl
<1>2. generation \in Generations /\ gate.attemptActive = TRUE
  BY <1>0, <1>1, AttemptNumber DEF Running, Setup, Session, Ending, Resources, Live
<1>3. /\ control' \in [Generations -> Control] /\ (\A g \in Generations : g # generation => control'[g] = control[g])
      /\ \A g \in Generations :
           /\ control'[g].connecting = control[g].connecting /\ control'[g].closing = control[g].closing
           /\ control[g].setupCancelled = TRUE => control'[g].setupCancelled = TRUE
           /\ control[g].woken = TRUE => control'[g].woken = TRUE
  <2>1. control' = [control EXCEPT ![generation] = Signalled(@, Target(generation), "cancel")]
    BY DEF CancelControl
  <2> QED
    BY ONLY <1>0, <1>2, <2>1, ControlSignalled
<1>4. \A g \in Generations : g > generation => g # generation
  BY <1>2, WorkerBounds DEF Generations
<1>5. Types'
  BY <1>0, <1>1, <1>2, <1>3, <1>4 DEF Types, TypeOK, Places, Running, Setup, Session, Ending
<1>6. HostsKnown'
  BY <1>0, <1>1, HostsStay DEF Keeps, cancelled
<1>7. Promised
  BY <1>0, <1>1, <1>2, <1>3, <1>4, SignalsStay DEF ControlStays, generation
<1>8. Phases'
  BY <1>0, <1>1, <1>2, <1>3, <1>4 DEF Phases, Running, Setup, Session, Ending, generation, cancelled
<1>9. Resources'
  BY <1>0, <1>1, <1>2, <1>3, <1>4 DEF Resources, Running, Setup, Session, Ending, Live, generation
<1>10. StateKnown'
  BY <1>0, <1>1, <1>2, <1>3, <1>4 DEF StateKnown, Running, Setup, Session, Ending, generation
<1>11. QueueKnown'
  BY <1>0, <1>1, <1>2, <1>3, <1>4 DEF QueueKnown, Session
<1>12. ControlsKnown'
  BY <1>0, <1>1, <1>2, <1>3, <1>4 DEF ControlsKnown, Phases, Session, Ending, generation
<1>13. Wakes'
  BY <1>0, <1>1, <1>2, <1>3, <1>4, <1>7 DEF Wakes, Waking, Setup, Promised
<1>14. Cancels'
  BY <1>0, <1>1, <1>2, <1>3, <1>4, <1>7 DEF Cancels, Session, Promised, cancelled
<1>15. OperationsKnown' /\ OutcomesKnown'
  BY <1>0, <1>1 DEF OperationsKnown, Owned, generation, OutcomesKnown, cancelled
<1> QED
  BY <1>5, <1>6, <1>8, <1>9, <1>10, <1>11, <1>12, <1>13, <1>14, <1>15 DEF WorkerInv

\* The observer is joined, the transport dropped and the router cleared.
LEMMA JoinObserverStep ==
  ASSUME WorkerInv, JoinObserver
  PROVE  WorkerInv'
<1>0. /\ Types /\ Phases /\ Resources /\ StateKnown /\ QueueKnown /\ OperationsKnown /\ OutcomesKnown
      /\ HostsKnown /\ ControlsKnown /\ Wakes /\ Cancels
      /\ gate \in Gate /\ events \in Events /\ auth \in Auth /\ worker \in Worker /\ watch \in Watch
      /\ control \in [Generations -> Control] /\ router \in 0 .. MaxGeneration
      /\ pc \in Places /\ host \in [Hosts -> HostType] /\ history \in HistoryType
  BY WorkerInvFacts
<1>1. /\ pc = "joining" /\ pc' = "retire" /\ router' = 0
      /\ UNCHANGED <<gate, events, auth, control, host, history>>
  BY DEF JoinObserver
<1>2. /\ watch' \in Watch /\ watch'.observer = "none" /\ watch'.peerClosed = watch.peerClosed
      /\ watch'.failed = watch.failed
  BY <1>0 DEF JoinObserver, Joinable, Watch
<1>3. /\ worker' \in Worker /\ worker'.executing = worker.executing /\ worker'.drained = worker.drained
      /\ worker'.progressed = worker.progressed /\ worker'.transport = FALSE /\ worker'.ready = worker.ready
      /\ worker'.resizeOperation = worker.resizeOperation /\ worker'.resizePending = worker.resizePending
      /\ worker'.unanswered = worker.unanswered /\ worker'.result = worker.result
  BY <1>0 DEF JoinObserver, Worker
<1>4. 0 \in 0 .. MaxGeneration
  BY WorkerBounds
<1>5. Types'
  BY <1>0, <1>1, <1>2, <1>3, <1>4 DEF Types, TypeOK, Places, Running, Setup, Session, Ending
<1>6. HostsKnown'
  BY <1>0, <1>1, HostsStay DEF Keeps, cancelled
<1>7. Promised
  BY <1>0, <1>1, <1>2, <1>3, <1>4, SignalsStay DEF ControlStays, generation
<1>8. Phases'
  BY <1>0, <1>1, <1>2, <1>3, <1>4 DEF Phases, Running, Setup, Session, Ending, generation, cancelled
<1>9. Resources'
  BY <1>0, <1>1, <1>2, <1>3, <1>4 DEF Resources, Running, Setup, Session, Ending, Live, generation
<1>10. StateKnown'
  BY <1>0, <1>1, <1>2, <1>3, <1>4 DEF StateKnown, Running, Setup, Session, Ending, generation
<1>11. QueueKnown'
  BY <1>0, <1>1, <1>2, <1>3, <1>4 DEF QueueKnown, Session
<1>12. OperationsKnown'
  BY <1>0, <1>1, <1>2, <1>3, <1>4 DEF OperationsKnown, Owned, generation
<1>13. ControlsKnown'
  BY <1>0, <1>1, <1>2, <1>3, <1>4 DEF ControlsKnown, Session, generation
<1>14. Wakes'
  BY <1>0, <1>1, <1>2, <1>3, <1>4, <1>7 DEF Wakes, Waking, Setup, Promised
<1>15. Cancels'
  BY <1>0, <1>1, <1>2, <1>3, <1>4, <1>7 DEF Cancels, Session, Promised, cancelled
<1>16. OutcomesKnown'
  BY <1>0, <1>1 DEF OutcomesKnown, generation, cancelled
<1> QED
  BY <1>5, <1>6, <1>8, <1>9, <1>10, <1>11, <1>12, <1>13, <1>14, <1>15, <1>16 DEF WorkerInv

\* The worker thread ends and the stream is sealed.
LEMMA ExitStep ==
  ASSUME WorkerInv, Exit
  PROVE  WorkerInv'
<1>0. /\ Types /\ Phases /\ Resources /\ StateKnown /\ QueueKnown /\ OperationsKnown /\ OutcomesKnown
      /\ HostsKnown /\ ControlsKnown /\ Wakes /\ Cancels
      /\ gate \in Gate /\ events \in Events /\ auth \in Auth /\ worker \in Worker /\ watch \in Watch
      /\ control \in [Generations -> Control] /\ router \in 0 .. MaxGeneration
      /\ pc \in Places /\ host \in [Hosts -> HostType] /\ history \in HistoryType
  BY WorkerInvFacts
<1>1. /\ pc = "exit" /\ pc' = "exited" /\ UNCHANGED <<gate, control, router, worker, watch, host, history>>
  BY DEF Exit
<1>2. /\ events' \in Events /\ events'.issued = events.issued /\ events'.generation = events.generation
      /\ \A id \in Ids :
           /\ events'.op[id].kind = events.op[id].kind /\ events'.op[id].generation = events.op[id].generation
           /\ events'.op[id].result = IF events.op[id].result = "pending" THEN "Cancelled" ELSE events.op[id].result
  <2> DEFINE c == Completed(events, Ids, "Cancelled")
             s == IF ~events.sealed /\ c.state = "Idle" THEN "Closed" ELSE c.state
  <2>1. /\ c \in Events /\ c.issued = events.issued /\ c.generation = events.generation
        /\ \A id \in Ids :
             /\ c.op[id].kind = events.op[id].kind /\ c.op[id].generation = events.op[id].generation
             /\ c.op[id].result = IF events.op[id].result = "pending" THEN "Cancelled" ELSE events.op[id].result
    BY <1>0, CompletedFacts DEF Results
  <2>2. events' = [c EXCEPT !.sealed = TRUE, !.state = s]
    BY <2>1 DEF Exit, Events
  <2>3. s \in {"Idle", "Connecting", "Negotiating", "Connected", "Disconnecting", "Closed", "Failed"}
    BY <2>1, EventsFields
  <2> HIDE DEF c, s
  <2>4. events' \in Events /\ events'.issued = c.issued /\ events'.generation = c.generation /\ events'.op = c.op
    BY <2>1, <2>2, <2>3 DEF Events
  <2> QED
    BY <2>1, <2>4
<1>3. events'.sealed = TRUE
  <2> DEFINE c == Completed(events, Ids, "Cancelled")
             s == IF ~events.sealed /\ c.state = "Idle" THEN "Closed" ELSE c.state
  <2>1. c \in Events
    BY <1>0, CompletedFacts DEF Results
  <2>2. events' = [c EXCEPT !.sealed = TRUE, !.state = s]
    BY <2>1 DEF Exit, Events
  <2> HIDE DEF c, s
  <2> QED
    BY <2>1, <2>2 DEF Events
<1>4. auth' \in Auth /\ auth'.accepting = FALSE /\ auth'.status = "Cancelled"
  BY <1>0 DEF Exit, Interrupted, Auth
<1>5. Types'
  BY <1>0, <1>1, <1>2, <1>3, <1>4 DEF Types, TypeOK, Places, Running, Setup, Session, Ending
<1>6. HostsKnown'
  BY <1>0, <1>1, HostsStay DEF Keeps, cancelled
<1>7. Phases'
  BY <1>0, <1>1, <1>2, <1>3, <1>4 DEF Phases, Running, Setup, Session, Ending, generation, cancelled
<1>8. Resources'
  BY <1>0, <1>1, <1>2, <1>3, <1>4 DEF Resources, Running, Setup, Session, Ending, Live, generation
<1>9. StateKnown'
  BY <1>0, <1>1, <1>2, <1>3, <1>4 DEF StateKnown, Running, Setup, Session, Ending, generation
<1>10. QueueKnown'
  BY <1>0, <1>1, <1>2, <1>3, <1>4, OwnedIds, ProgramSets DEF QueueKnown, Session
<1>11. OperationsKnown'
  BY <1>0, <1>1, <1>2, <1>3, <1>4, OwnedIds DEF OperationsKnown, Owned, Resources, generation
<1>12. OutcomesKnown'
  BY <1>0, <1>1, <1>2, <1>3, <1>4, OwnedIds DEF OutcomesKnown, generation, cancelled
<1>13. ControlsKnown'
  BY <1>0, <1>1, <1>2, <1>3, <1>4 DEF ControlsKnown, Session, generation
<1>14. Wakes'
  BY <1>0, <1>1, <1>2, <1>3, <1>4 DEF Wakes, Waking, Setup, Promised
<1>15. Cancels'
  BY <1>0, <1>1, <1>2, <1>3, <1>4 DEF Cancels, Session, Promised, cancelled
<1> QED
  BY <1>5, <1>6, <1>7, <1>8, <1>9, <1>10, <1>11, <1>12, <1>13, <1>14, <1>15 DEF WorkerInv

----------------------------------------------------------------------------
(* The observer thread *)

\* The observer sees the peer go.
LEMMA ObserverSeesStep ==
  ASSUME WorkerInv, NEW failed \in BOOLEAN, ObserverSees(failed)
  PROVE  WorkerInv'
<1>0. /\ Types /\ Phases /\ Resources /\ StateKnown /\ QueueKnown /\ OperationsKnown /\ OutcomesKnown
      /\ HostsKnown /\ ControlsKnown /\ Wakes /\ Cancels
      /\ gate \in Gate /\ events \in Events /\ auth \in Auth /\ worker \in Worker /\ watch \in Watch
      /\ control \in [Generations -> Control] /\ router \in 0 .. MaxGeneration
      /\ pc \in Places /\ host \in [Hosts -> HostType] /\ history \in HistoryType
  BY WorkerInvFacts
<1>1. /\ watch.observer = "watching"
      /\ UNCHANGED <<gate, events, auth, control, router, pc, worker, host, history>>
  BY DEF ObserverSees
<1>2. /\ watch' \in Watch /\ watch'.observer = "auth" /\ (watch.peerClosed = TRUE => watch'.peerClosed = TRUE)
      /\ (watch.failed = TRUE => watch'.failed = TRUE) /\ (watch'.peerClosed = TRUE \/ watch'.failed = TRUE)
  <2> DEFINE p == watch.peerClosed \/ ~failed
             f == watch.failed \/ failed
  <2>1. /\ p \in BOOLEAN /\ f \in BOOLEAN /\ (watch.peerClosed = TRUE => p = TRUE) /\ (watch.failed = TRUE => f = TRUE)
        /\ (p = TRUE \/ f = TRUE)
    BY <1>0, SideFields
  <2>2. watch' = [watch EXCEPT !.observer = "auth", !.peerClosed = p, !.failed = f]
    BY <1>0 DEF ObserverSees, Watch
  <2> HIDE DEF p, f
  <2>3. watch' \in Watch /\ watch'.observer = "auth" /\ watch'.peerClosed = p /\ watch'.failed = f
    BY <1>0, <2>1, <2>2 DEF Watch
  <2> QED
    BY <2>1, <2>3
<1>3. Types'
  BY <1>0, <1>1, <1>2 DEF Types, TypeOK, Places, Running, Setup, Session, Ending
<1>4. HostsKnown'
  BY <1>0, <1>1, HostsStay DEF Keeps, cancelled
<1>5. Promised
  BY <1>0, <1>1, <1>2, SignalsStay DEF ControlStays, generation
<1>6. Resources'
  BY <1>0, <1>1, <1>2 DEF Resources, Running, Setup, Session, Ending, Live, generation
<1>7. Cancels'
  BY <1>0, <1>1, <1>2, <1>5 DEF Cancels, Session, Promised, cancelled
<1>8. Phases' /\ StateKnown' /\ QueueKnown' /\ OperationsKnown' /\ OutcomesKnown' /\ ControlsKnown' /\ Wakes'
  BY <1>0, <1>1, <1>5 DEF Phases, Running, Setup, Session, Ending, generation, cancelled, StateKnown, QueueKnown, OperationsKnown, Owned, OutcomesKnown, ControlsKnown, Wakes, Waking, Promised
<1> QED
  BY <1>3, <1>4, <1>6, <1>7, <1>8 DEF WorkerInv

\* The observer interrupts the prompt.
LEMMA ObserverAuthStep ==
  ASSUME WorkerInv, ObserverAuth
  PROVE  WorkerInv'
<1>0. /\ Types /\ Phases /\ Resources /\ StateKnown /\ QueueKnown /\ OperationsKnown /\ OutcomesKnown
      /\ HostsKnown /\ ControlsKnown /\ Wakes /\ Cancels
      /\ gate \in Gate /\ events \in Events /\ auth \in Auth /\ worker \in Worker /\ watch \in Watch
      /\ control \in [Generations -> Control] /\ router \in 0 .. MaxGeneration
      /\ pc \in Places /\ host \in [Hosts -> HostType] /\ history \in HistoryType
  BY WorkerInvFacts
<1>1. /\ watch.observer = "auth" /\ UNCHANGED <<gate, events, control, router, pc, worker, host, history>>
  BY DEF ObserverAuth
<1>2. auth' \in Auth /\ auth'.accepting = FALSE /\ auth'.status = "PeerClosed" /\ auth'.generation = auth.generation
  BY <1>0 DEF ObserverAuth, Interrupted, Auth
<1>3. /\ watch' \in Watch /\ watch'.observer = "wake" /\ watch'.peerClosed = watch.peerClosed
      /\ watch'.failed = watch.failed
  BY <1>0 DEF ObserverAuth, Watch
<1>4. watch.peerClosed = TRUE \/ watch.failed = TRUE
  BY <1>0, <1>1 DEF Resources
<1>5. Types'
  BY <1>0, <1>1, <1>2, <1>3, <1>4 DEF Types, TypeOK, Places, Running, Setup, Session, Ending
<1>6. HostsKnown'
  BY <1>0, <1>1, HostsStay DEF Keeps, cancelled
<1>7. Promised
  BY <1>0, <1>1, <1>2, <1>3, <1>4, SignalsStay DEF ControlStays, generation
<1>8. Resources'
  BY <1>0, <1>1, <1>2, <1>3, <1>4 DEF Resources, Running, Setup, Session, Ending, Live, generation
<1>9. Cancels'
  BY <1>0, <1>1, <1>2, <1>3, <1>4, <1>7 DEF Cancels, Session, Promised, cancelled
<1>10. Phases' /\ StateKnown' /\ QueueKnown' /\ OperationsKnown' /\ OutcomesKnown' /\ ControlsKnown' /\ Wakes'
  BY <1>0, <1>1, <1>7 DEF Phases, Running, Setup, Session, Ending, generation, cancelled, StateKnown, QueueKnown, OperationsKnown, Owned, OutcomesKnown, ControlsKnown, Wakes, Waking, Promised
<1> QED
  BY <1>5, <1>6, <1>8, <1>9, <1>10 DEF WorkerInv

\* The observer wakes the worker.
LEMMA ObserverWakesStep ==
  ASSUME WorkerInv, ObserverWakes
  PROVE  WorkerInv'
<1>0. /\ Types /\ Phases /\ Resources /\ StateKnown /\ QueueKnown /\ OperationsKnown /\ OutcomesKnown
      /\ HostsKnown /\ ControlsKnown /\ Wakes /\ Cancels
      /\ gate \in Gate /\ events \in Events /\ auth \in Auth /\ worker \in Worker /\ watch \in Watch
      /\ control \in [Generations -> Control] /\ router \in 0 .. MaxGeneration
      /\ pc \in Places /\ host \in [Hosts -> HostType] /\ history \in HistoryType
  BY WorkerInvFacts
<1>1. /\ watch.observer = "wake" /\ UNCHANGED <<gate, events, auth, router, pc, worker, host, history>>
  BY DEF ObserverWakes
<1>2. generation \in Generations /\ gate.attemptActive = TRUE
  BY <1>0, <1>1, AttemptNumber DEF Running, Setup, Session, Ending, Resources, Live
<1>3. /\ control' \in [Generations -> Control] /\ (\A g \in Generations : g # generation => control'[g] = control[g])
      /\ \A g \in Generations :
           /\ control'[g].connecting = control[g].connecting /\ control'[g].closing = control[g].closing
           /\ control[g].setupCancelled = TRUE => control'[g].setupCancelled = TRUE
           /\ control[g].woken = TRUE => control'[g].woken = TRUE
      /\ control'[generation].setupCancelled = TRUE => control[generation].setupCancelled = TRUE
  <2>1. control' = [control EXCEPT ![generation] = Signalled(@, Target(generation), "wake")]
    BY DEF ObserverWakes
  <2>2. /\ control' \in [Generations -> Control] /\ (\A g \in Generations : g # generation => control'[g] = control[g])
        /\ \A g \in Generations :
             /\ control'[g].connecting = control[g].connecting /\ control'[g].closing = control[g].closing
             /\ control[g].setupCancelled = TRUE => control'[g].setupCancelled = TRUE
             /\ control[g].woken = TRUE => control'[g].woken = TRUE
    BY ONLY <1>0, <1>2, <2>1, ControlSignalled
  <2>3. control'[generation].setupCancelled = TRUE => control[generation].setupCancelled = TRUE
    <3> DEFINE how == "wake"
    <3>1. control' = [control EXCEPT ![generation] = Signalled(@, Target(generation), how)] /\ how # "cancel"
      BY <2>1
    <3> HIDE DEF how
    <3> QED
      BY ONLY <1>0, <1>2, <3>1, ControlSignalled
  <2> QED
    BY <2>2, <2>3
<1>4. \A g \in Generations : g > generation => g # generation
  BY <1>2, WorkerBounds DEF Generations
<1>5. /\ watch' \in Watch /\ watch'.observer = "done" /\ watch'.peerClosed = watch.peerClosed
      /\ watch'.failed = watch.failed
  BY <1>0 DEF ObserverWakes, Watch
<1>6. Types'
  BY <1>0, <1>1, <1>2, <1>3, <1>4, <1>5 DEF Types, TypeOK, Places, Running, Setup, Session, Ending
<1>7. HostsKnown'
  BY <1>0, <1>1, HostsStay DEF Keeps, cancelled
<1>8. Promised
  BY <1>0, <1>1, <1>2, <1>3, <1>4, <1>5, SignalsStay DEF ControlStays, generation
<1>9. Resources'
  BY <1>0, <1>1, <1>2, <1>3, <1>4, <1>5 DEF Resources, Running, Setup, Session, Ending, Live, generation
<1>10. ControlsKnown'
  BY <1>0, <1>1, <1>2, <1>3, <1>4, <1>5 DEF ControlsKnown, Session, generation
<1>11. Wakes'
  BY <1>0, <1>1, <1>2, <1>3, <1>4, <1>5, <1>8 DEF Wakes, Waking, Setup, Promised
<1>12. Cancels'
  BY <1>0, <1>1, <1>2, <1>3, <1>4, <1>5, <1>8 DEF Cancels, Session, Promised, cancelled
<1>13. Phases' /\ StateKnown' /\ QueueKnown' /\ OperationsKnown' /\ OutcomesKnown'
  BY <1>0, <1>1 DEF Phases, Running, Setup, Session, Ending, generation, cancelled, StateKnown, QueueKnown, OperationsKnown, Owned, OutcomesKnown
<1> QED
  BY <1>6, <1>7, <1>9, <1>10, <1>11, <1>12, <1>13 DEF WorkerInv

\* The observer is told to stop.
LEMMA ObserverCancelledStep ==
  ASSUME WorkerInv, ObserverCancelled
  PROVE  WorkerInv'
<1>0. /\ Types /\ Phases /\ Resources /\ StateKnown /\ QueueKnown /\ OperationsKnown /\ OutcomesKnown
      /\ HostsKnown /\ ControlsKnown /\ Wakes /\ Cancels
      /\ gate \in Gate /\ events \in Events /\ auth \in Auth /\ worker \in Worker /\ watch \in Watch
      /\ control \in [Generations -> Control] /\ router \in 0 .. MaxGeneration
      /\ pc \in Places /\ host \in [Hosts -> HostType] /\ history \in HistoryType
  BY WorkerInvFacts
<1>1. /\ watch.observer = "watching"
      /\ UNCHANGED <<gate, events, auth, control, router, pc, worker, host, history>>
  BY DEF ObserverCancelled
<1>2. /\ watch' \in Watch /\ watch'.observer = "done" /\ watch'.peerClosed = watch.peerClosed
      /\ watch'.failed = watch.failed
  BY <1>0 DEF ObserverCancelled, Watch
<1>3. Types'
  BY <1>0, <1>1, <1>2 DEF Types, TypeOK, Places, Running, Setup, Session, Ending
<1>4. HostsKnown'
  BY <1>0, <1>1, HostsStay DEF Keeps, cancelled
<1>5. Promised
  BY <1>0, <1>1, <1>2, SignalsStay DEF ControlStays, generation
<1>6. Resources'
  BY <1>0, <1>1, <1>2 DEF Resources, Running, Setup, Session, Ending, Live, generation
<1>7. Cancels'
  BY <1>0, <1>1, <1>2, <1>5 DEF Cancels, Session, Promised, cancelled
<1>8. Phases' /\ StateKnown' /\ QueueKnown' /\ OperationsKnown' /\ OutcomesKnown' /\ ControlsKnown' /\ Wakes'
  BY <1>0, <1>1, <1>5 DEF Phases, Running, Setup, Session, Ending, generation, cancelled, StateKnown, QueueKnown, OperationsKnown, Owned, OutcomesKnown, ControlsKnown, Wakes, Waking, Promised
<1> QED
  BY <1>3, <1>4, <1>6, <1>7, <1>8 DEF WorkerInv

----------------------------------------------------------------------------
(* Steps of the worker thread under commandMutex *)

\* The worker takes an attempt, sleeps or ends.
LEMMA WaitForAttemptStep ==
  ASSUME WorkerInv, WaitForAttempt
  PROVE  WorkerInv'
<1>0. /\ Types /\ Phases /\ Resources /\ StateKnown /\ QueueKnown /\ OperationsKnown /\ OutcomesKnown
      /\ HostsKnown /\ ControlsKnown /\ Wakes /\ Cancels
      /\ gate \in Gate /\ events \in Events /\ auth \in Auth /\ worker \in Worker /\ watch \in Watch
      /\ control \in [Generations -> Control] /\ router \in 0 .. MaxGeneration
      /\ pc \in Places /\ host \in [Hosts -> HostType] /\ history \in HistoryType
  BY WorkerInvFacts
<1>1. /\ pc = "idle" /\ UNCHANGED <<events, auth, control, router, worker, watch, host, history>>
  BY DEF WaitForAttempt
<1>2. /\ gate.stopping \in BOOLEAN /\ gate.attemptActive \in BOOLEAN /\ gate.pendingAttempt \in BOOLEAN
      /\ gate.commandsClosed \in BOOLEAN /\ gate.finishing \in BOOLEAN /\ gate.cancelled \in BOOLEAN
      /\ events.sealed \in BOOLEAN
  BY <1>0, GateFields, EventsFields
<1>3. /\ gate.pendingAttempt = TRUE => pc' = "prepare"
      /\ gate.pendingAttempt = FALSE /\ (gate.stopping = TRUE \/ events.sealed = TRUE) => pc' = "exit"
      /\ gate.pendingAttempt = FALSE /\ gate.stopping = FALSE /\ events.sealed = FALSE => pc' = "asleep"
  BY <1>2 DEF WaitForAttempt, Wakeable
<1>4. /\ gate' \in Gate /\ gate'.stopping = gate.stopping /\ gate'.attemptActive = gate.attemptActive
      /\ gate'.pendingAttempt = FALSE /\ gate'.generation = gate.generation
      /\ gate'.connectOperation = gate.connectOperation /\ gate'.disconnectOperation = gate.disconnectOperation
      /\ gate'.commandsClosed = gate.commandsClosed /\ gate'.finishing = gate.finishing
      /\ gate'.cancelled = gate.cancelled /\ gate'.commands = gate.commands /\ gate'.queued = gate.queued
  BY <1>0 DEF WaitForAttempt, Gate
<1>5. Types'
  BY <1>0, <1>1, <1>2, <1>3, <1>4 DEF Types, TypeOK, Places, Running, Setup, Session, Ending
<1>6. HostsKnown'
  BY <1>0, <1>1, <1>2, <1>3, <1>4, HostsStay DEF Keeps, cancelled
<1>7. Promised
  BY <1>0, <1>1, <1>2, <1>3, <1>4, SignalsStay DEF ControlStays, generation
<1>8. Phases'
  BY <1>0, <1>1, <1>2, <1>3, <1>4 DEF Phases, Running, Setup, Session, Ending, generation, cancelled
<1>9. Resources'
  BY <1>0, <1>1, <1>2, <1>3, <1>4 DEF Resources, Running, Setup, Session, Ending, Live, generation
<1>10. StateKnown'
  BY <1>0, <1>1, <1>2, <1>3, <1>4 DEF StateKnown, Running, Setup, Session, Ending, generation
<1>11. QueueKnown'
  BY <1>0, <1>1, <1>2, <1>3, <1>4 DEF QueueKnown, Session
<1>12. OperationsKnown'
  BY <1>0, <1>1, <1>2, <1>3, <1>4 DEF OperationsKnown, Owned, generation
<1>13. OutcomesKnown'
  BY <1>0, <1>1, <1>2, <1>3, <1>4 DEF OutcomesKnown, generation, cancelled
<1>14. ControlsKnown'
  BY <1>0, <1>1, <1>2, <1>3, <1>4 DEF ControlsKnown, Session, generation
<1>15. Wakes'
  BY <1>0, <1>1, <1>2, <1>3, <1>4, <1>7 DEF Wakes, Waking, Setup, Promised
<1>16. Cancels'
  BY <1>0, <1>1, <1>2, <1>3, <1>4, <1>7 DEF Cancels, Session, Promised, cancelled
<1> QED
  BY <1>5, <1>6, <1>8, <1>9, <1>10, <1>11, <1>12, <1>13, <1>14, <1>15, <1>16 DEF WorkerInv

\* The round of commands ends: the queue is empty, or a wake-up is under way.
LEMMA DrainEnds ==
  ASSUME WorkerInv, Dequeue, ~MayDequeue
  PROVE  WorkerInv'
<1>0. /\ Types /\ Phases /\ Resources /\ StateKnown /\ QueueKnown /\ OperationsKnown /\ OutcomesKnown
      /\ HostsKnown /\ ControlsKnown /\ Wakes /\ Cancels
      /\ gate \in Gate /\ events \in Events /\ auth \in Auth /\ worker \in Worker /\ watch \in Watch
      /\ control \in [Generations -> Control] /\ router \in 0 .. MaxGeneration
      /\ pc \in Places /\ host \in [Hosts -> HostType] /\ history \in HistoryType
  BY WorkerInvFacts
<1>1. /\ pc = "drain" /\ pc' = "dispatch"
      /\ UNCHANGED <<gate, events, auth, control, router, watch, host, history>>
  BY DEF Dequeue
<1>2. /\ worker' \in Worker /\ worker'.executing = worker.executing /\ worker'.drained = 0
      /\ worker'.progressed = worker.progressed /\ worker'.transport = worker.transport
      /\ worker'.ready = worker.ready /\ worker'.resizeOperation = worker.resizeOperation
      /\ worker'.resizePending = worker.resizePending /\ worker'.unanswered = worker.unanswered
      /\ worker'.result = worker.result
  <2> DEFINE none == 0
  <2>1. worker' = [worker EXCEPT !.drained = none] /\ none \in 0 .. CommandCapacity
    BY WorkerBounds DEF Dequeue
  <2> HIDE DEF none
  <2>2. /\ worker' \in Worker /\ worker'.executing = worker.executing /\ worker'.drained = none
        /\ worker'.progressed = worker.progressed /\ worker'.transport = worker.transport
        /\ worker'.ready = worker.ready /\ worker'.resizeOperation = worker.resizeOperation
        /\ worker'.resizePending = worker.resizePending /\ worker'.unanswered = worker.unanswered
        /\ worker'.result = worker.result
    BY <1>0, <2>1 DEF Worker
  <2> QED
    BY <2>2 DEF none
<1>3. Covered \/ gate.commands = <<>>
  <2>1. gate.commands \in Seq(Ids) /\ worker.drained \in 0 .. CommandCapacity
    BY <1>0, GateFields, WorkerFields
  <2>2. Len(gate.commands) \in Nat /\ (gate.commands = <<>> <=> Len(gate.commands) = 0)
    BY <2>1, Elements
  <2>3. gate.commandsClosed = TRUE => gate.commands = <<>>
    BY <1>0 DEF QueueKnown
  <2>4. gate.commandsClosed \in BOOLEAN
    BY <1>0, GateFields
  <2>5. Covered \/ Len(gate.commands) + worker.drained <= CommandCapacity
    BY <1>0, <1>1 DEF Wakes
  <2>6. worker.drained = CommandCapacity \/ gate.commandsClosed = TRUE \/ gate.commands = <<>>
    BY <2>1, <2>4, WorkerBounds DEF MayDequeue
  <2> QED
    BY <2>1, <2>2, <2>3, <2>5, <2>6, WorkerBounds
<1>4. Types'
  BY <1>0, <1>1, <1>2, <1>3 DEF Types, TypeOK, Places, Running, Setup, Session, Ending
<1>5. HostsKnown'
  BY <1>0, <1>1, HostsStay DEF Keeps, cancelled
<1>6. Promised
  BY <1>0, <1>1, <1>2, <1>3, SignalsStay DEF ControlStays, generation
<1>7. Phases'
  BY <1>0, <1>1, <1>2, <1>3 DEF Phases, Running, Setup, Session, Ending, generation, cancelled
<1>8. Resources'
  BY <1>0, <1>1, <1>2, <1>3 DEF Resources, Running, Setup, Session, Ending, Live, generation
<1>9. StateKnown'
  BY <1>0, <1>1, <1>2, <1>3 DEF StateKnown, Running, Setup, Session, Ending, generation
<1>10. QueueKnown'
  BY <1>0, <1>1, <1>2, <1>3 DEF QueueKnown, Session
<1>11. OperationsKnown'
  BY <1>0, <1>1, <1>2, <1>3 DEF OperationsKnown, Owned, generation
<1>12. ControlsKnown'
  BY <1>0, <1>1, <1>2, <1>3 DEF ControlsKnown, Session, generation
<1>13. Wakes'
  BY <1>0, <1>1, <1>2, <1>3, <1>6 DEF Wakes, Waking, Setup, Promised
<1>14. Cancels'
  BY <1>0, <1>1, <1>2, <1>3, <1>6 DEF Cancels, Session, Promised, cancelled
<1>15. OutcomesKnown'
  BY <1>0, <1>1 DEF OutcomesKnown, generation, cancelled
<1> QED
  BY <1>4, <1>5, <1>7, <1>8, <1>9, <1>10, <1>11, <1>12, <1>13, <1>14, <1>15 DEF WorkerInv

\* The worker takes the first command.
LEMMA CommandTaken ==
  ASSUME WorkerInv, Dequeue, MayDequeue
  PROVE  WorkerInv'
<1>0. /\ Types /\ Phases /\ Resources /\ StateKnown /\ QueueKnown /\ OperationsKnown /\ OutcomesKnown
      /\ HostsKnown /\ ControlsKnown /\ Wakes /\ Cancels
      /\ gate \in Gate /\ events \in Events /\ auth \in Auth /\ worker \in Worker /\ watch \in Watch
      /\ control \in [Generations -> Control] /\ router \in 0 .. MaxGeneration
      /\ pc \in Places /\ host \in [Hosts -> HostType] /\ history \in HistoryType
  BY WorkerInvFacts
<1>1. /\ pc = "drain" /\ pc' = "execute" /\ UNCHANGED <<events, auth, control, router, watch, host, history>>
  BY DEF Dequeue
<1>2. /\ gate.commands \in Seq(Ids) /\ gate.commands # <<>> /\ Distinct(gate.commands)
      /\ worker.drained \in 0 .. CommandCapacity /\ worker.drained < CommandCapacity /\ gate.commandsClosed = FALSE
      /\ CommandCapacity \in Nat /\ Len(gate.commands) \in Nat /\ Len(gate.commands) <= CommandCapacity
  BY <1>0, GateFields, WorkerFields, WorkerBounds, Elements DEF MayDequeue, QueueKnown, Types, TypeOK
<1>3. /\ gate' \in Gate /\ gate'.stopping = gate.stopping /\ gate'.attemptActive = gate.attemptActive
      /\ gate'.pendingAttempt = gate.pendingAttempt /\ gate'.generation = gate.generation
      /\ gate'.connectOperation = gate.connectOperation /\ gate'.disconnectOperation = gate.disconnectOperation
      /\ gate'.commandsClosed = gate.commandsClosed /\ gate'.finishing = gate.finishing
      /\ gate'.cancelled = gate.cancelled /\ gate'.commands = Tail(gate.commands) /\ gate'.queued = gate.queued
      /\ gate'.commands \in Seq(Ids) /\ Len(gate'.commands) = Len(gate.commands) - 1 /\ Distinct(gate'.commands)
      /\ Head(gate.commands) \in Ids
      /\ (\A x : x \in ToSet(gate.commands) <=> x = Head(gate.commands) \/ x \in ToSet(gate'.commands))
      /\ Head(gate.commands) \notin ToSet(gate'.commands)
  <2> DEFINE q == Tail(gate.commands)
  <2>1. /\ q \in Seq(Ids) /\ Len(q) = Len(gate.commands) - 1 /\ Distinct(q) /\ Head(gate.commands) \in Ids
        /\ (\A x : x \in ToSet(gate.commands) <=> x = Head(gate.commands) \/ x \in ToSet(q))
        /\ Head(gate.commands) \notin ToSet(q)
    BY <1>2, TailElements
  <2>2. gate' = [gate EXCEPT !.commands = q]
    BY DEF Dequeue, Dequeued
  <2> HIDE DEF q
  <2>3. /\ gate' \in Gate /\ gate'.stopping = gate.stopping /\ gate'.attemptActive = gate.attemptActive
        /\ gate'.pendingAttempt = gate.pendingAttempt /\ gate'.generation = gate.generation
        /\ gate'.connectOperation = gate.connectOperation
        /\ gate'.disconnectOperation = gate.disconnectOperation /\ gate'.commandsClosed = gate.commandsClosed
        /\ gate'.finishing = gate.finishing /\ gate'.cancelled = gate.cancelled /\ gate'.commands = q
        /\ gate'.queued = gate.queued
    BY <1>0, <2>1, <2>2 DEF Gate
  <2> QED
    BY <2>1, <2>3 DEF q
<1>4. /\ worker' \in Worker /\ worker'.executing = Head(gate.commands) /\ worker'.drained = worker.drained + 1
      /\ worker'.progressed = worker.progressed /\ worker'.transport = worker.transport
      /\ worker'.ready = worker.ready /\ worker'.resizeOperation = worker.resizeOperation
      /\ worker'.resizePending = worker.resizePending /\ worker'.unanswered = worker.unanswered
      /\ worker'.result = worker.result
  <2> DEFINE x == Head(gate.commands)
             n == worker.drained + 1
  <2>1. worker' = [worker EXCEPT !.executing = x, !.drained = n]
    BY <1>0 DEF Dequeue, Worker
  <2>2. x \in 0 .. MaxOperation /\ n \in 0 .. CommandCapacity
    <3>1. n \in 0 .. CommandCapacity
      BY <1>2
    <3>2. x \in 0 .. MaxOperation
      BY <1>3, Widths
    <3> QED
      BY <3>1, <3>2
  <2> HIDE DEF x, n
  <2>3. /\ worker' \in Worker /\ worker'.executing = x /\ worker'.drained = n
        /\ worker'.progressed = worker.progressed /\ worker'.transport = worker.transport
        /\ worker'.ready = worker.ready /\ worker'.resizeOperation = worker.resizeOperation
        /\ worker'.resizePending = worker.resizePending /\ worker'.unanswered = worker.unanswered
        /\ worker'.result = worker.result
    BY <1>0, <2>1, <2>2 DEF Worker
  <2> QED
    BY <2>3 DEF x, n
<1>5. /\ worker.executing = 0 /\ Head(gate.commands) <= events.issued /\ Head(gate.commands) # 0
      /\ events.op[Head(gate.commands)].kind \in CommandKinds
      /\ events.op[Head(gate.commands)].result \in {"pending", "Failed"}
  BY <1>0, <1>1, <1>2, <1>3, Widths DEF Resources, QueueKnown
<1>6. \A id \in Ids : id \in Owned => id \in Owned'
  BY <1>0, <1>1, <1>3, <1>4, <1>5, OwnedIds DEF Owned
<1>7. Types'
  BY <1>0, <1>1, <1>2, <1>3, <1>4, <1>5, <1>6 DEF Types, TypeOK, Places, Running, Setup, Session, Ending
<1>8. HostsKnown'
  BY <1>0, <1>1, <1>2, <1>3, <1>4, <1>5, <1>6, HostsStay DEF Keeps, cancelled
<1>9. Promised
  BY <1>0, <1>1, <1>2, <1>3, <1>4, <1>5, <1>6, SignalsStay DEF ControlStays, generation
<1>10. Phases'
  BY <1>0, <1>1, <1>2, <1>3, <1>4, <1>5, <1>6 DEF Phases, Running, Setup, Session, Ending, generation, cancelled
<1>11. Resources'
  BY <1>0, <1>1, <1>2, <1>3, <1>4, <1>5, <1>6 DEF Resources, Running, Setup, Session, Ending, Live, generation
<1>12. StateKnown'
  BY <1>0, <1>1, <1>2, <1>3, <1>4, <1>5, <1>6 DEF StateKnown, Running, Setup, Session, Ending, generation
<1>13. QueueKnown'
  BY <1>0, <1>1, <1>2, <1>3, <1>4, <1>5, <1>6 DEF QueueKnown, Session
<1>14. OperationsKnown'
  BY <1>0, <1>1, <1>3, <1>4, <1>5, <1>6 DEF OperationsKnown, generation
<1>15. OutcomesKnown'
  BY <1>0, <1>1, <1>2, <1>3, <1>4, <1>5, <1>6 DEF OutcomesKnown, generation, cancelled
<1>16. ControlsKnown'
  BY <1>0, <1>1, <1>2, <1>3, <1>4, <1>5, <1>6 DEF ControlsKnown, Session, generation
<1>17. Wakes'
  BY <1>0, <1>1, <1>2, <1>3, <1>4, <1>5, <1>6, <1>9 DEF Wakes, Waking, Setup, Promised
<1>18. Cancels'
  BY <1>0, <1>1, <1>2, <1>3, <1>4, <1>5, <1>6, <1>9 DEF Cancels, Session, Promised, cancelled
<1> QED
  BY <1>7, <1>8, <1>10, <1>11, <1>12, <1>13, <1>14, <1>15, <1>16, <1>17, <1>18 DEF WorkerInv

\* The protocol refuses a command.
LEMMA ExecuteRefusedStep ==
  ASSUME WorkerInv, ExecuteRefused
  PROVE  WorkerInv'
<1>0. /\ Types /\ Phases /\ Resources /\ StateKnown /\ QueueKnown /\ OperationsKnown /\ OutcomesKnown
      /\ HostsKnown /\ ControlsKnown /\ Wakes /\ Cancels
      /\ gate \in Gate /\ events \in Events /\ auth \in Auth /\ worker \in Worker /\ watch \in Watch
      /\ control \in [Generations -> Control] /\ router \in 0 .. MaxGeneration
      /\ pc \in Places /\ host \in [Hosts -> HostType] /\ history \in HistoryType
  BY WorkerInvFacts
<1>1. /\ pc = "execute" /\ pc' = "drain" /\ UNCHANGED <<auth, control, router, watch, host, history>>
  BY DEF ExecuteRefused
<1>2. /\ worker.executing # 0 /\ worker.executing \in Ids /\ worker.executing <= events.issued
      /\ events.op[worker.executing].kind \in CommandKinds
      /\ events.op[worker.executing].result \in {"pending", "Failed"}
      /\ worker.executing \notin ToSet(gate.commands)
  BY <1>0, <1>1, OwnedIds DEF Resources, OperationsKnown, QueueKnown
<1>3. /\ gate' \in Gate /\ gate'.stopping = gate.stopping /\ gate'.attemptActive = gate.attemptActive
      /\ gate'.pendingAttempt = gate.pendingAttempt /\ gate'.generation = gate.generation
      /\ gate'.connectOperation = gate.connectOperation /\ gate'.disconnectOperation = gate.disconnectOperation
      /\ gate'.commandsClosed = gate.commandsClosed /\ gate'.finishing = gate.finishing
      /\ gate'.cancelled = gate.cancelled /\ gate'.commands = gate.commands
      /\ \A kind \in Exclusive : gate'.queued[kind] =
           IF gate.queued[kind] = worker.executing THEN 0 ELSE gate.queued[kind]
  <2> DEFINE u == Unqueued(worker.executing)
  <2>1. gate' = [gate EXCEPT !.queued = u]
    BY DEF ExecuteRefused, SlotReleased
  <2>2. u = Unqueued(worker.executing)
    OBVIOUS
  <2> HIDE DEF u
  <2>3. /\ u \in [Exclusive -> 0 .. MaxOperation]
        /\ \A kind \in Exclusive : u[kind] = IF gate.queued[kind] = worker.executing THEN 0 ELSE gate.queued[kind]
    BY ONLY <1>0, <2>2, UnqueuedFacts
  <2>4. /\ gate' \in Gate /\ gate'.stopping = gate.stopping /\ gate'.attemptActive = gate.attemptActive
        /\ gate'.pendingAttempt = gate.pendingAttempt /\ gate'.generation = gate.generation
        /\ gate'.connectOperation = gate.connectOperation
        /\ gate'.disconnectOperation = gate.disconnectOperation /\ gate'.commandsClosed = gate.commandsClosed
        /\ gate'.finishing = gate.finishing /\ gate'.cancelled = gate.cancelled
        /\ gate'.commands = gate.commands /\ gate'.queued = u
    BY <1>0, <2>1, <2>3 DEF Gate
  <2> QED
    BY <2>3, <2>4
<1>4. /\ worker' \in Worker /\ worker'.executing = 0 /\ worker'.drained = worker.drained
      /\ worker'.progressed = worker.progressed /\ worker'.transport = worker.transport
      /\ worker'.ready = worker.ready /\ worker'.resizeOperation = worker.resizeOperation
      /\ worker'.resizePending = worker.resizePending /\ worker'.unanswered = worker.unanswered
      /\ worker'.result = worker.result
  <2> DEFINE none == 0
  <2>1. worker' = [worker EXCEPT !.executing = none] /\ none \in 0 .. MaxOperation
    BY WorkerBounds DEF ExecuteRefused
  <2> HIDE DEF none
  <2>2. /\ worker' \in Worker /\ worker'.executing = none /\ worker'.drained = worker.drained
        /\ worker'.progressed = worker.progressed /\ worker'.transport = worker.transport
        /\ worker'.ready = worker.ready /\ worker'.resizeOperation = worker.resizeOperation
        /\ worker'.resizePending = worker.resizePending /\ worker'.unanswered = worker.unanswered
        /\ worker'.result = worker.result
    BY <1>0, <2>1 DEF Worker
  <2> QED
    BY <2>2 DEF none
<1>5. /\ events' \in Events /\ events'.issued = events.issued /\ events'.sealed = events.sealed
      /\ events'.state = events.state /\ events'.generation = events.generation
      /\ \A id \in Ids :
           /\ events'.op[id].kind = events.op[id].kind /\ events'.op[id].generation = events.op[id].generation
           /\ events'.op[id].result = IF id \in {worker.executing} /\ events.op[id].result = "pending" THEN "Failed" ELSE events.op[id].result
  <2>1. events' = Completed(events, {worker.executing}, "Failed") /\ "Failed" \in Results
    BY <1>0 DEF ExecuteRefused, Results
  <2> QED
    BY ONLY <1>0, <2>1, CompletedFacts
<1>6. Types'
  BY <1>0, <1>1, <1>2, <1>3, <1>4, <1>5 DEF Types, TypeOK, Places, Running, Setup, Session, Ending
<1>7. HostsKnown'
  BY <1>0, <1>1, <1>2, <1>3, <1>4, <1>5, HostsStay DEF Keeps, cancelled
<1>8. Promised
  BY <1>0, <1>1, <1>2, <1>3, <1>4, <1>5, SignalsStay DEF ControlStays, generation
<1>9. Phases'
  BY <1>0, <1>1, <1>2, <1>3, <1>4, <1>5 DEF Phases, Running, Setup, Session, Ending, generation, cancelled
<1>10. Resources'
  BY <1>0, <1>1, <1>2, <1>3, <1>4, <1>5 DEF Resources, Running, Setup, Session, Ending, Live, generation
<1>11. StateKnown'
  BY <1>0, <1>1, <1>2, <1>3, <1>4, <1>5 DEF StateKnown, Running, Setup, Session, Ending, generation
<1>12. QueueKnown'
  <2>1. 0 \notin Ids /\ worker.executing # 0 /\ \A kind \in Exclusive :
          gate'.queued[kind] = 0 \/ gate'.queued[kind] \in ToSet(gate.commands)
    BY <1>0, <1>1, <1>2, <1>3, OwnedIds DEF QueueKnown
  <2> QED
    BY <1>0, <1>1, <1>2, <1>3, <1>4, <1>5, <2>1, OwnedIds DEF QueueKnown, Session
<1>13. OperationsKnown'
  BY <1>0, <1>1, <1>2, <1>3, <1>4, <1>5, OwnedIds DEF OperationsKnown, Owned, generation
<1>14. OutcomesKnown'
  BY <1>0, <1>1, <1>2, <1>3, <1>4, <1>5, OwnedIds DEF OutcomesKnown, generation, cancelled
<1>15. ControlsKnown'
  BY <1>0, <1>1, <1>2, <1>3, <1>4, <1>5 DEF ControlsKnown, Session, generation
<1>16. Wakes'
  BY <1>0, <1>1, <1>2, <1>3, <1>4, <1>5, <1>8 DEF Wakes, Waking, Setup, Promised
<1>17. Cancels'
  BY <1>0, <1>1, <1>2, <1>3, <1>4, <1>5, <1>8 DEF Cancels, Session, Promised, cancelled
<1> QED
  BY <1>6, <1>7, <1>9, <1>10, <1>11, <1>12, <1>13, <1>14, <1>15, <1>16, <1>17 DEF WorkerInv

\* The protocol carried a command out.
LEMMA CommandSucceeds ==
  ASSUME WorkerInv, ExecuteOk, events.op[worker.executing].kind # "DesktopLayout"
  PROVE  WorkerInv'
<1>0. /\ Types /\ Phases /\ Resources /\ StateKnown /\ QueueKnown /\ OperationsKnown /\ OutcomesKnown
      /\ HostsKnown /\ ControlsKnown /\ Wakes /\ Cancels
      /\ gate \in Gate /\ events \in Events /\ auth \in Auth /\ worker \in Worker /\ watch \in Watch
      /\ control \in [Generations -> Control] /\ router \in 0 .. MaxGeneration
      /\ pc \in Places /\ host \in [Hosts -> HostType] /\ history \in HistoryType
  BY WorkerInvFacts
<1>1. /\ pc = "execute" /\ pc' = "drain" /\ UNCHANGED <<auth, control, router, watch, host>>
  BY DEF ExecuteOk
<1>2. /\ worker.executing # 0 /\ worker.executing \in Ids /\ worker.executing <= events.issued
      /\ events.op[worker.executing].kind \in CommandKinds
      /\ events.op[worker.executing].result \in {"pending", "Failed"}
      /\ worker.executing \notin ToSet(gate.commands)
  BY <1>0, <1>1, OwnedIds DEF Resources, OperationsKnown, QueueKnown
<1>3. /\ gate' \in Gate /\ gate'.stopping = gate.stopping /\ gate'.attemptActive = gate.attemptActive
      /\ gate'.pendingAttempt = gate.pendingAttempt /\ gate'.generation = gate.generation
      /\ gate'.connectOperation = gate.connectOperation /\ gate'.disconnectOperation = gate.disconnectOperation
      /\ gate'.commandsClosed = gate.commandsClosed /\ gate'.finishing = gate.finishing
      /\ gate'.cancelled = gate.cancelled /\ gate'.commands = gate.commands
      /\ \A kind \in Exclusive : gate'.queued[kind] =
           IF gate.queued[kind] = worker.executing THEN 0 ELSE gate.queued[kind]
  <2> DEFINE u == Unqueued(worker.executing)
  <2>1. gate' = [gate EXCEPT !.queued = u]
    BY DEF ExecuteOk, SlotReleased
  <2>2. u = Unqueued(worker.executing)
    OBVIOUS
  <2> HIDE DEF u
  <2>3. /\ u \in [Exclusive -> 0 .. MaxOperation]
        /\ \A kind \in Exclusive : u[kind] = IF gate.queued[kind] = worker.executing THEN 0 ELSE gate.queued[kind]
    BY ONLY <1>0, <2>2, UnqueuedFacts
  <2>4. /\ gate' \in Gate /\ gate'.stopping = gate.stopping /\ gate'.attemptActive = gate.attemptActive
        /\ gate'.pendingAttempt = gate.pendingAttempt /\ gate'.generation = gate.generation
        /\ gate'.connectOperation = gate.connectOperation
        /\ gate'.disconnectOperation = gate.disconnectOperation /\ gate'.commandsClosed = gate.commandsClosed
        /\ gate'.finishing = gate.finishing /\ gate'.cancelled = gate.cancelled
        /\ gate'.commands = gate.commands /\ gate'.queued = u
    BY <1>0, <2>1, <2>3 DEF Gate
  <2> QED
    BY <2>3, <2>4
<1>4. /\ worker' \in Worker /\ worker'.executing = 0 /\ worker'.drained = worker.drained
      /\ worker'.progressed = worker.progressed /\ worker'.transport = worker.transport
      /\ worker'.ready = worker.ready /\ worker'.resizeOperation = worker.resizeOperation
      /\ worker'.resizePending = worker.resizePending /\ worker'.unanswered = worker.unanswered
      /\ worker'.result = worker.result
  <2> DEFINE none == 0
             p == worker.resizePending
             o == worker.resizeOperation
             n == worker.unanswered
  <2>1. p \in BOOLEAN /\ o \in 0 .. MaxOperation /\ n \in Nat /\ none \in 0 .. MaxOperation
    BY <1>0, WorkerFields, WorkerBounds
  <2>2. worker' = [worker EXCEPT !.executing = none, !.resizePending = p, !.resizeOperation = o, !.unanswered = n]
    BY <1>0, <2>1 DEF ExecuteOk, Worker
  <2> HIDE DEF none, p, o, n
  <2>3. /\ worker' \in Worker /\ worker'.executing = none /\ worker'.drained = worker.drained
        /\ worker'.progressed = worker.progressed /\ worker'.transport = worker.transport
        /\ worker'.ready = worker.ready /\ worker'.resizeOperation = o /\ worker'.resizePending = p
        /\ worker'.unanswered = n /\ worker'.result = worker.result
    BY <1>0, <2>1, <2>2 DEF Worker
  <2> QED
    BY <2>3 DEF none, p, o, n
<1>5. /\ events' \in Events /\ events'.issued = events.issued /\ events'.sealed = events.sealed
      /\ events'.state = events.state /\ events'.generation = events.generation
      /\ \A id \in Ids :
           /\ events'.op[id].kind = events.op[id].kind /\ events'.op[id].generation = events.op[id].generation
           /\ events'.op[id].result = IF id \in {worker.executing} /\ events.op[id].result = "pending" THEN "Succeeded" ELSE events.op[id].result
  <2>1. events' = Completed(events, {worker.executing}, "Succeeded") /\ "Succeeded" \in Results
    BY <1>0 DEF ExecuteOk, Results
  <2> QED
    BY ONLY <1>0, <2>1, CompletedFacts
<1>6. /\ history' \in HistoryType /\ history'.revoked = history.revoked /\ history'.closed = history.closed
      /\ history'.executed = history.executed \cup {worker.executing}
  <2> DEFINE x == history.executed \cup {worker.executing}
  <2>1. x \in SUBSET Ids
    BY <1>0, <1>2, OwnedIds
  <2>2. history' = [history EXCEPT !.executed = x]
    BY DEF ExecuteOk
  <2> HIDE DEF x
  <2>3. history' \in HistoryType /\ history'.revoked = history.revoked /\ history'.closed = history.closed
        /\ history'.executed = x
    BY <1>0, <2>1, <2>2 DEF HistoryType
  <2> QED
    BY <2>3 DEF x
<1>7. Types'
  BY <1>0, <1>1, <1>2, <1>3, <1>4, <1>5, <1>6 DEF Types, TypeOK, Places, Running, Setup, Session, Ending
<1>8. HostsKnown'
  BY <1>0, <1>1, <1>2, <1>3, <1>4, <1>5, <1>6, HostsStay DEF Keeps, cancelled
<1>9. Promised
  BY <1>0, <1>1, <1>2, <1>3, <1>4, <1>5, <1>6, SignalsStay DEF ControlStays, generation
<1>10. Phases'
  BY <1>0, <1>1, <1>2, <1>3, <1>4, <1>5, <1>6 DEF Phases, Running, Setup, Session, Ending, generation, cancelled
<1>11. Resources'
  BY <1>0, <1>1, <1>2, <1>3, <1>4, <1>5, <1>6 DEF Resources, Running, Setup, Session, Ending, Live, generation
<1>12. StateKnown'
  BY <1>0, <1>1, <1>2, <1>3, <1>4, <1>5, <1>6 DEF StateKnown, Running, Setup, Session, Ending, generation
<1>13. QueueKnown'
  <2>1. 0 \notin Ids /\ worker.executing # 0 /\ \A kind \in Exclusive :
          gate'.queued[kind] = 0 \/ gate'.queued[kind] \in ToSet(gate.commands)
    BY <1>0, <1>1, <1>2, <1>3, OwnedIds DEF QueueKnown
  <2> QED
    BY <1>0, <1>1, <1>2, <1>3, <1>4, <1>5, <2>1, OwnedIds DEF QueueKnown, Session
<1>14. OperationsKnown'
  BY <1>0, <1>1, <1>2, <1>3, <1>4, <1>5, <1>6, OwnedIds DEF OperationsKnown, Owned, generation
<1>15. OutcomesKnown'
  <2>1. /\ \A id \in Ids : events'.op[id].kind = "disconnect" /\ events'.op[id].result = "Succeeded" =>
                       gate'.generation > events'.op[id].generation \/ gate'.attemptActive = FALSE
        /\ \A id \in history'.revoked :
             /\ id <= events'.issued /\ events'.op[id].kind = "connect" /\ events'.op[id].result # "Succeeded"
             /\ id = gate'.connectOperation => gate'.cancelled = TRUE
    BY <1>0, <1>1, <1>2, <1>3, <1>5, <1>6, OwnedIds, WorkerBounds DEF OutcomesKnown, generation, cancelled
  <2>2. ASSUME NEW id \in history'.executed
        PROVE  /\ id <= events'.issued /\ events'.op[id].kind \in CommandKinds
               /\ events'.op[id].result \in {"Succeeded", "Failed"} \/ events'.op[id].kind = "DesktopLayout"
    <3>1. CASE id = worker.executing
      BY <1>2, <1>5, <3>1
    <3>2. CASE id # worker.executing
      BY <1>0, <1>5, <1>6, <3>2, OwnedIds DEF OutcomesKnown
    <3> QED
      BY <3>1, <3>2
  <2> QED
    BY <2>1, <2>2 DEF OutcomesKnown, generation, cancelled
<1>16. ControlsKnown'
  BY <1>0, <1>1, <1>2, <1>3, <1>4, <1>5, <1>6 DEF ControlsKnown, Session, generation
<1>17. Wakes'
  BY <1>0, <1>1, <1>2, <1>3, <1>4, <1>5, <1>6, <1>9 DEF Wakes, Waking, Setup, Promised
<1>18. Cancels'
  BY <1>0, <1>1, <1>2, <1>3, <1>4, <1>5, <1>6, <1>9 DEF Cancels, Session, Promised, cancelled
<1> QED
  BY <1>7, <1>8, <1>10, <1>11, <1>12, <1>13, <1>14, <1>15, <1>16, <1>17, <1>18 DEF WorkerInv

\* The protocol requested a layout, which stays pending with it.
LEMMA LayoutRequested ==
  ASSUME WorkerInv, ExecuteOk, events.op[worker.executing].kind = "DesktopLayout"
  PROVE  WorkerInv'
<1>0. /\ Types /\ Phases /\ Resources /\ StateKnown /\ QueueKnown /\ OperationsKnown /\ OutcomesKnown
      /\ HostsKnown /\ ControlsKnown /\ Wakes /\ Cancels
      /\ gate \in Gate /\ events \in Events /\ auth \in Auth /\ worker \in Worker /\ watch \in Watch
      /\ control \in [Generations -> Control] /\ router \in 0 .. MaxGeneration
      /\ pc \in Places /\ host \in [Hosts -> HostType] /\ history \in HistoryType
  BY WorkerInvFacts
<1>1. /\ pc = "execute" /\ pc' = "drain" /\ UNCHANGED <<events, auth, control, router, watch, host>>
  BY DEF ExecuteOk
<1>2. /\ worker.executing # 0 /\ worker.executing \in Ids /\ worker.executing <= events.issued
      /\ events.op[worker.executing].kind \in CommandKinds
      /\ events.op[worker.executing].result \in {"pending", "Failed"}
      /\ worker.executing \notin ToSet(gate.commands)
  BY <1>0, <1>1, OwnedIds DEF Resources, OperationsKnown, QueueKnown
<1>3. /\ gate' \in Gate /\ gate'.stopping = gate.stopping /\ gate'.attemptActive = gate.attemptActive
      /\ gate'.pendingAttempt = gate.pendingAttempt /\ gate'.generation = gate.generation
      /\ gate'.connectOperation = gate.connectOperation /\ gate'.disconnectOperation = gate.disconnectOperation
      /\ gate'.commandsClosed = gate.commandsClosed /\ gate'.finishing = gate.finishing
      /\ gate'.cancelled = gate.cancelled /\ gate'.commands = gate.commands
      /\ \A kind \in Exclusive : gate'.queued[kind] =
           IF gate.queued[kind] = worker.executing THEN 0 ELSE gate.queued[kind]
  <2> DEFINE u == Unqueued(worker.executing)
  <2>1. gate' = [gate EXCEPT !.queued = u]
    BY DEF ExecuteOk, SlotReleased
  <2>2. u = Unqueued(worker.executing)
    OBVIOUS
  <2> HIDE DEF u
  <2>3. /\ u \in [Exclusive -> 0 .. MaxOperation]
        /\ \A kind \in Exclusive : u[kind] = IF gate.queued[kind] = worker.executing THEN 0 ELSE gate.queued[kind]
    BY ONLY <1>0, <2>2, UnqueuedFacts
  <2>4. /\ gate' \in Gate /\ gate'.stopping = gate.stopping /\ gate'.attemptActive = gate.attemptActive
        /\ gate'.pendingAttempt = gate.pendingAttempt /\ gate'.generation = gate.generation
        /\ gate'.connectOperation = gate.connectOperation
        /\ gate'.disconnectOperation = gate.disconnectOperation /\ gate'.commandsClosed = gate.commandsClosed
        /\ gate'.finishing = gate.finishing /\ gate'.cancelled = gate.cancelled
        /\ gate'.commands = gate.commands /\ gate'.queued = u
    BY <1>0, <2>1, <2>3 DEF Gate
  <2> QED
    BY <2>3, <2>4
<1>4. /\ worker.resizePending = FALSE /\ worker.unanswered = 0 /\ worker.resizeOperation = 0
  BY <1>0, <1>1, WorkerFields DEF ExecuteOk, Resources
<1>5. /\ worker' \in Worker /\ worker'.executing = 0 /\ worker'.drained = worker.drained
      /\ worker'.progressed = worker.progressed /\ worker'.transport = worker.transport
      /\ worker'.ready = worker.ready /\ worker'.resizeOperation = worker.executing
      /\ worker'.resizePending = TRUE /\ worker'.unanswered = 1 /\ worker'.result = worker.result
  <2> DEFINE none == 0
             id == worker.executing
             n == 1
  <2>1. id \in 0 .. MaxOperation /\ n \in Nat /\ none \in 0 .. MaxOperation
    BY <1>0, WorkerFields, WorkerBounds
  <2>2. worker' = [worker EXCEPT !.executing = none, !.resizePending = TRUE, !.resizeOperation = id, !.unanswered = n]
    <3> DEFINE layout == events.op[worker.executing].kind = "DesktopLayout"
               p == worker.resizePending \/ layout
               o == IF layout THEN worker.executing ELSE worker.resizeOperation
               u == IF layout THEN worker.unanswered + 1 ELSE worker.unanswered
    <3>1. worker' = [worker EXCEPT !.executing = none, !.resizePending = p, !.resizeOperation = o, !.unanswered = u]
      BY <1>0 DEF ExecuteOk, Worker
    <3>2. p = TRUE /\ o = id /\ u = n
      BY <1>4
    <3> HIDE DEF p, o, u
    <3> QED
      BY <3>1, <3>2
  <2> HIDE DEF none, id, n
  <2>3. /\ worker' \in Worker /\ worker'.executing = none /\ worker'.drained = worker.drained
        /\ worker'.progressed = worker.progressed /\ worker'.transport = worker.transport
        /\ worker'.ready = worker.ready /\ worker'.resizeOperation = id /\ worker'.resizePending = TRUE
        /\ worker'.unanswered = n /\ worker'.result = worker.result
    BY <1>0, <2>1, <2>2 DEF Worker
  <2> QED
    BY <2>3 DEF none, id, n
<1>6. /\ history' \in HistoryType /\ history'.revoked = history.revoked /\ history'.closed = history.closed
      /\ history'.executed = history.executed \cup {worker.executing}
  <2> DEFINE x == history.executed \cup {worker.executing}
  <2>1. x \in SUBSET Ids
    BY <1>0, <1>2, OwnedIds
  <2>2. history' = [history EXCEPT !.executed = x]
    BY DEF ExecuteOk
  <2> HIDE DEF x
  <2>3. history' \in HistoryType /\ history'.revoked = history.revoked /\ history'.closed = history.closed
        /\ history'.executed = x
    BY <1>0, <2>1, <2>2 DEF HistoryType
  <2> QED
    BY <2>3 DEF x
<1>7. Types'
  BY <1>0, <1>1, <1>2, <1>3, <1>4, <1>5, <1>6 DEF Types, TypeOK, Places, Running, Setup, Session, Ending
<1>8. HostsKnown'
  BY <1>0, <1>1, <1>2, <1>3, <1>4, <1>5, <1>6, HostsStay DEF Keeps, cancelled
<1>9. Promised
  BY <1>0, <1>1, <1>2, <1>3, <1>4, <1>5, <1>6, SignalsStay DEF ControlStays, generation
<1>10. Phases'
  BY <1>0, <1>1, <1>2, <1>3, <1>4, <1>5, <1>6 DEF Phases, Running, Setup, Session, Ending, generation, cancelled
<1>11. Resources'
  BY <1>0, <1>1, <1>2, <1>3, <1>4, <1>5, <1>6 DEF Resources, Running, Setup, Session, Ending, Live, generation
<1>12. StateKnown'
  BY <1>0, <1>1, <1>2, <1>3, <1>4, <1>5, <1>6 DEF StateKnown, Running, Setup, Session, Ending, generation
<1>13. QueueKnown'
  <2>1. 0 \notin Ids /\ worker.executing # 0 /\ \A kind \in Exclusive :
          gate'.queued[kind] = 0 \/ gate'.queued[kind] \in ToSet(gate.commands)
    BY <1>0, <1>1, <1>2, <1>3, OwnedIds DEF QueueKnown
  <2> QED
    BY <1>0, <1>1, <1>2, <1>3, <1>5, <2>1, OwnedIds DEF QueueKnown, Session
<1>14. OperationsKnown'
  BY <1>0, <1>1, <1>2, <1>3, <1>4, <1>5, <1>6 DEF OperationsKnown, Owned, generation
<1>15. OutcomesKnown'
  BY <1>0, <1>1, <1>2, <1>3, <1>4, <1>5, <1>6 DEF OutcomesKnown, generation, cancelled
<1>16. ControlsKnown'
  BY <1>0, <1>1, <1>2, <1>3, <1>4, <1>5, <1>6 DEF ControlsKnown, Session, generation
<1>17. Wakes'
  BY <1>0, <1>1, <1>2, <1>3, <1>4, <1>5, <1>6, <1>9 DEF Wakes, Waking, Setup, Promised
<1>18. Cancels'
  BY <1>0, <1>1, <1>2, <1>3, <1>4, <1>5, <1>6, <1>9 DEF Cancels, Session, Promised, cancelled
<1> QED
  BY <1>7, <1>8, <1>10, <1>11, <1>12, <1>13, <1>14, <1>15, <1>16, <1>17, <1>18 DEF WorkerInv

\* Negotiation succeeded before a cancellation.
LEMMA ConnectConfirmed ==
  ASSUME WorkerInv, ConnectBoundary, ConnectSucceeds
  PROVE  WorkerInv'
<1>0. /\ Types /\ Phases /\ Resources /\ StateKnown /\ QueueKnown /\ OperationsKnown /\ OutcomesKnown
      /\ HostsKnown /\ ControlsKnown /\ Wakes /\ Cancels
      /\ gate \in Gate /\ events \in Events /\ auth \in Auth /\ worker \in Worker /\ watch \in Watch
      /\ control \in [Generations -> Control] /\ router \in 0 .. MaxGeneration
      /\ pc \in Places /\ host \in [Hosts -> HostType] /\ history \in HistoryType
  BY WorkerInvFacts
<1>1. /\ pc = "boundary" /\ pc' \in {"flush", "message"} /\ cancelled = FALSE /\ gate.connectOperation # 0
      /\ UNCHANGED <<auth, control, router, worker, watch, host, history>>
  BY WorkerInvFacts, GateFields DEF ConnectBoundary, ConnectSucceeds, Processing, cancelled
<1>2. /\ gate' \in Gate /\ gate'.stopping = gate.stopping /\ gate'.attemptActive = gate.attemptActive
      /\ gate'.pendingAttempt = gate.pendingAttempt /\ gate'.generation = gate.generation
      /\ gate'.connectOperation = 0 /\ gate'.disconnectOperation = gate.disconnectOperation
      /\ gate'.commandsClosed = gate.commandsClosed /\ gate'.finishing = gate.finishing
      /\ gate'.cancelled = gate.cancelled /\ gate'.commands = gate.commands /\ gate'.queued = gate.queued
  <2> DEFINE none == 0
  <2>1. gate' = [gate EXCEPT !.connectOperation = none] /\ none \in 0 .. MaxOperation
    BY WorkerBounds DEF ConnectBoundary
  <2> HIDE DEF none
  <2>2. /\ gate' \in Gate /\ gate'.stopping = gate.stopping /\ gate'.attemptActive = gate.attemptActive
        /\ gate'.pendingAttempt = gate.pendingAttempt /\ gate'.generation = gate.generation
        /\ gate'.connectOperation = none /\ gate'.disconnectOperation = gate.disconnectOperation
        /\ gate'.commandsClosed = gate.commandsClosed /\ gate'.finishing = gate.finishing
        /\ gate'.cancelled = gate.cancelled /\ gate'.commands = gate.commands /\ gate'.queued = gate.queued
    BY <1>0, <2>1 DEF Gate
  <2> QED
    BY <2>2 DEF none
<1>3. /\ events' \in Events /\ events'.issued = events.issued /\ events'.sealed = events.sealed
      /\ events'.state = events.state /\ events'.generation = events.generation
      /\ \A id \in Ids :
           /\ events'.op[id].kind = events.op[id].kind /\ events'.op[id].generation = events.op[id].generation
           /\ events'.op[id].result = IF id \in {gate.connectOperation} /\ events.op[id].result = "pending" THEN "Succeeded" ELSE events.op[id].result
  <2>1. events' = Completed(events, {gate.connectOperation}, "Succeeded") /\ "Succeeded" \in Results
    BY <1>0 DEF ConnectBoundary, Results
  <2> QED
    BY ONLY <1>0, <2>1, CompletedFacts
<1>4. /\ gate.connectOperation \in Ids /\ events.op[gate.connectOperation].kind = "connect"
      /\ "connect" \notin CommandKinds
  BY <1>0, <1>1, OwnedIds, WorkerBounds DEF OperationsKnown
<1>5. Types'
  BY <1>0, <1>1, <1>2, <1>3, <1>4 DEF Types, TypeOK, Places, Running, Setup, Session, Ending
<1>6. HostsKnown'
  BY <1>0, <1>1, <1>2, <1>3, <1>4, HostsStay DEF Keeps, cancelled
<1>7. Promised
  BY <1>0, <1>1, <1>2, <1>3, <1>4, SignalsStay DEF ControlStays, generation
<1>8. Phases'
  BY <1>0, <1>1, <1>2, <1>3, <1>4 DEF Phases, Running, Setup, Session, Ending, generation, cancelled
<1>9. Resources'
  BY <1>0, <1>1, <1>2, <1>3, <1>4 DEF Resources, Running, Setup, Session, Ending, Live, generation
<1>10. StateKnown'
  BY <1>0, <1>1, <1>2, <1>3, <1>4 DEF StateKnown, Running, Setup, Session, Ending, generation
<1>11. QueueKnown'
  BY <1>0, <1>1, <1>2, <1>3, <1>4, OwnedIds DEF QueueKnown, Session
<1>12. OperationsKnown'
  BY <1>0, <1>1, <1>2, <1>3, <1>4, OwnedIds DEF OperationsKnown, Owned, generation
<1>13. OutcomesKnown'
  BY <1>0, <1>1, <1>2, <1>3, <1>4, OwnedIds DEF OutcomesKnown, generation, cancelled
<1>14. ControlsKnown'
  BY <1>0, <1>1, <1>2, <1>3, <1>4 DEF ControlsKnown, Session, generation
<1>15. Wakes'
  BY <1>0, <1>1, <1>2, <1>3, <1>4, <1>7 DEF Wakes, Waking, Setup, Promised
<1>16. Cancels'
  BY <1>0, <1>1, <1>2, <1>3, <1>4, <1>7 DEF Cancels, Session, Promised, cancelled
<1> QED
  BY <1>5, <1>6, <1>8, <1>9, <1>10, <1>11, <1>12, <1>13, <1>14, <1>15, <1>16 DEF WorkerInv

\* The terminal boundary settles the queue.
LEMMA TerminalBoundaryStep ==
  ASSUME WorkerInv, TerminalBoundary
  PROVE  WorkerInv'
<1>0. /\ Types /\ Phases /\ Resources /\ StateKnown /\ QueueKnown /\ OperationsKnown /\ OutcomesKnown
      /\ HostsKnown /\ ControlsKnown /\ Wakes /\ Cancels
      /\ gate \in Gate /\ events \in Events /\ auth \in Auth /\ worker \in Worker /\ watch \in Watch
      /\ control \in [Generations -> Control] /\ router \in 0 .. MaxGeneration
      /\ pc \in Places /\ host \in [Hosts -> HostType] /\ history \in HistoryType
  BY WorkerInvFacts
<1>1. /\ pc = "finish" /\ pc' = "disconnecting" /\ UNCHANGED <<auth, control, router, watch, host, history>>
  BY DEF TerminalBoundary
<1>2. /\ gate' \in Gate /\ gate'.stopping = gate.stopping /\ gate'.attemptActive = gate.attemptActive
      /\ gate'.pendingAttempt = gate.pendingAttempt /\ gate'.generation = gate.generation
      /\ gate'.connectOperation = gate.connectOperation /\ gate'.disconnectOperation = gate.disconnectOperation
      /\ gate'.commandsClosed = TRUE /\ gate'.finishing = TRUE /\ gate'.cancelled = gate.cancelled
      /\ gate'.commands = <<>> /\ gate'.queued = NoSlots
  <2> DEFINE c == QueueCleared(gate)
  <2>1. gate' = [c EXCEPT !.finishing = TRUE, !.commandsClosed = TRUE] /\ c = QueueCleared(gate)
    BY DEF TerminalBoundary
  <2> HIDE DEF c
  <2>2. /\ c \in Gate /\ SameAttempt(gate, c) /\ c.disconnectOperation = gate.disconnectOperation
        /\ c.stopping = gate.stopping /\ c.cancelled = gate.cancelled /\ c.commands = <<>> /\ c.queued = NoSlots
    BY ONLY <1>0, <2>1, QueueClearedFacts
  <2>3. /\ gate' \in Gate /\ gate'.stopping = c.stopping /\ gate'.attemptActive = c.attemptActive
        /\ gate'.pendingAttempt = c.pendingAttempt /\ gate'.generation = c.generation
        /\ gate'.connectOperation = c.connectOperation /\ gate'.disconnectOperation = c.disconnectOperation
        /\ gate'.commandsClosed = TRUE /\ gate'.finishing = TRUE /\ gate'.cancelled = c.cancelled
        /\ gate'.commands = c.commands /\ gate'.queued = c.queued
    BY <2>1, <2>2 DEF Gate
  <2> QED
    BY <2>2, <2>3 DEF SameAttempt
<1>3. /\ worker' \in Worker /\ worker'.executing = worker.executing /\ worker'.drained = 0
      /\ worker'.transport = worker.transport /\ worker'.ready = worker.ready
      /\ worker'.resizeOperation = worker.resizeOperation /\ worker'.resizePending = worker.resizePending
      /\ worker'.unanswered = worker.unanswered
  <2> DEFINE none == 0
             r == FinalResult
  <2>1. worker' = [worker EXCEPT !.result = r, !.progressed = FALSE, !.drained = none]
    BY DEF TerminalBoundary
  <2>2. r \in {"None", "Cancelled", "PeerClosed", "EventOverflow", "Failure"} /\ none \in 0 .. CommandCapacity
    BY <1>0, WorkerFields, WorkerBounds DEF FinalResult
  <2> HIDE DEF none, r
  <2>3. /\ worker' \in Worker /\ worker'.executing = worker.executing /\ worker'.drained = none
        /\ worker'.transport = worker.transport /\ worker'.ready = worker.ready
        /\ worker'.resizeOperation = worker.resizeOperation /\ worker'.resizePending = worker.resizePending
        /\ worker'.unanswered = worker.unanswered
    BY <1>0, <2>1, <2>2 DEF Worker
  <2> QED
    BY <2>3 DEF none
<1>4. /\ events' \in Events /\ events'.issued = events.issued /\ events'.sealed = events.sealed
      /\ events'.state = events.state /\ events'.generation = events.generation
      /\ \A id \in Ids :
           /\ events'.op[id].kind = events.op[id].kind /\ events'.op[id].generation = events.op[id].generation
           /\ id \in ToSet(gate.commands) => events'.op[id].result # "pending"
           /\ events'.op[id].result = events.op[id].result
                \/ (id \in ToSet(gate.commands) /\ events.op[id].result = "pending" /\ events'.op[id].result \in {"Failed", "Cancelled"})
  <2> DEFINE r == IF FinalResult \in Orderly THEN "Cancelled" ELSE "Failed"
             S == ToSet(gate.commands)
  <2>1. events' = Completed(events, S, r) /\ r \in {"Failed", "Cancelled"} /\ r \in Results
    BY DEF TerminalBoundary, QueueFinished, Results
  <2> HIDE DEF r, S
  <2>2. /\ events' \in Events /\ events'.issued = events.issued /\ events'.sealed = events.sealed
        /\ events'.state = events.state /\ events'.generation = events.generation
        /\ \A id \in Ids :
             /\ events'.op[id].kind = events.op[id].kind /\ events'.op[id].generation = events.op[id].generation
             /\ events'.op[id].result = IF id \in S /\ events.op[id].result = "pending" THEN r ELSE events.op[id].result
    BY ONLY <1>0, <2>1, CompletedFacts
  <2> QED
    BY <2>1, <2>2 DEF S
<1>5. /\ ToSet(<<>>) = {} /\ (\A kind \in Exclusive : NoSlots[kind] = 0) /\ worker.executing = 0
      /\ \A id \in ToSet(gate.commands) : id \in Ids /\ events.op[id].kind \notin {"connect", "disconnect"}
  BY <1>0, <1>1, ProgramSets, NoSlotsFacts, OwnedIds, WorkerBounds DEF Resources, QueueKnown
<1>6. generation \in Generations /\ gate.attemptActive = TRUE
  BY <1>1, AttemptNumber DEF Running, Setup, Session, Ending, Resources, Live
<1>7. CommandCapacity \in Nat /\ Len(<<>>) = 0 /\ Distinct(<<>>)
  <2>1. Len(<<>>) = 0
    OBVIOUS
  <2> QED
    BY <2>1, WorkerBounds DEF Distinct
<1>8. Types'
  <2>1. Len(gate'.commands) <= CommandCapacity
    BY <1>2, <1>7
  <2> QED
    BY <1>0, <1>1, <1>2, <1>3, <1>4, <2>1 DEF Types, TypeOK, Places, Running, Setup, Session, Ending
<1>9. HostsKnown'
  BY <1>0, <1>1, <1>2, <1>3, <1>4, <1>5, <1>6, <1>7, HostsStay DEF Keeps, cancelled
<1>10. Promised
  BY <1>0, <1>1, <1>2, <1>3, <1>4, <1>5, <1>6, <1>7, SignalsStay DEF ControlStays, generation
<1>11. Phases'
  BY <1>0, <1>1, <1>2, <1>3, <1>4, <1>5, <1>6, <1>7 DEF Phases, Running, Setup, Session, Ending, generation, cancelled
<1>12. Resources'
  BY <1>0, <1>1, <1>2, <1>3, <1>4, <1>5, <1>6, <1>7 DEF Resources, Running, Setup, Session, Ending, Live, generation
<1>13. StateKnown'
  BY <1>0, <1>1, <1>2, <1>3, <1>4, <1>5, <1>6, <1>7 DEF StateKnown, Running, Setup, Session, Ending, generation
<1>14. QueueKnown'
  BY <1>1, <1>2, <1>3, <1>5, <1>7 DEF QueueKnown, Session
<1>15. OperationsKnown'
  BY <1>0, <1>1, <1>2, <1>3, <1>4, <1>5, <1>6, <1>7, OwnedIds DEF OperationsKnown, Owned, generation
<1>16. OutcomesKnown'
  BY <1>0, <1>1, <1>2, <1>3, <1>4, <1>5, <1>6, <1>7, OwnedIds DEF OutcomesKnown, generation, cancelled
<1>17. ControlsKnown'
  BY <1>0, <1>1, <1>2, <1>3, <1>4, <1>5, <1>6, <1>7 DEF ControlsKnown, Session, generation
<1>18. Wakes'
  BY <1>0, <1>1, <1>2, <1>3, <1>4, <1>5, <1>6, <1>7, <1>10 DEF Wakes, Waking, Setup, Promised
<1>19. Cancels'
  BY <1>0, <1>1, <1>2, <1>3, <1>4, <1>5, <1>6, <1>7, <1>10 DEF Cancels, Session, Promised, cancelled
<1> QED
  BY <1>8, <1>9, <1>11, <1>12, <1>13, <1>14, <1>15, <1>16, <1>17, <1>18, <1>19 DEF WorkerInv

\* The terminal state is published and the operations of the attempt completed, or there is no room.
LEMMA RetirePublished ==
  ASSUME WorkerInv, pc = "retire", pc' = "idle", events' = Settled(Published(events, TerminalState)),
         gate' = Retired(gate, events'.sealed), control' = [control EXCEPT ![generation] = NoControl],
         UNCHANGED <<auth, router, worker, watch, host, history>>
  PROVE  WorkerInv'
<1>0. /\ Types /\ Phases /\ Resources /\ StateKnown /\ QueueKnown /\ OperationsKnown /\ OutcomesKnown
      /\ HostsKnown /\ ControlsKnown /\ Wakes /\ Cancels
      /\ gate \in Gate /\ events \in Events /\ auth \in Auth /\ worker \in Worker /\ watch \in Watch
      /\ control \in [Generations -> Control] /\ router \in 0 .. MaxGeneration
      /\ pc \in Places /\ host \in [Hosts -> HostType] /\ history \in HistoryType
  BY WorkerInvFacts
<1>1. /\ pc = "retire" /\ pc' = "idle" /\ UNCHANGED <<auth, router, worker, watch, host, history>>
  OBVIOUS
<1>2. /\ events' \in Events /\ events'.issued = events.issued /\ events'.sealed = events.sealed
      /\ (events.sealed = TRUE => events'.generation = events.generation)
      /\ (events.sealed = FALSE => events'.state \in {"Closed", "Failed"} /\ events'.generation = generation)
      /\ events.sealed \in BOOLEAN
      /\ \A id \in Ids :
           /\ events'.op[id].kind = events.op[id].kind /\ events'.op[id].generation = events.op[id].generation
           /\ events.op[id].result # "pending" => events'.op[id].result = events.op[id].result
           /\ id \in {gate.connectOperation, gate.disconnectOperation} => events'.op[id].result # "pending"
           /\ events'.op[id].result = events.op[id].result
                \/ (id = gate.connectOperation /\ events'.op[id].result \in {"Cancelled", "Failed"})
                \/ (id = gate.disconnectOperation /\ events'.op[id].result = "Succeeded")
  <2> DEFINE s == TerminalState
             p == Published(events, s)
             C == {gate.connectOperation}
             r == IF worker.result = "Cancelled" THEN "Cancelled" ELSE "Failed"
             c == Completed(p, C, r)
             D == {gate.disconnectOperation}
  <2>1. /\ events' = Completed(c, D, "Succeeded") /\ c = Completed(p, C, r) /\ p = Published(events, s)
        /\ s \in {"Closed", "Failed"} /\ r \in {"Cancelled", "Failed"} /\ r \in Results /\ "Succeeded" \in Results
    BY DEF Settled, TerminalState, Results
  <2> HIDE DEF s, p, C, r, c, D
  <2>2. /\ p \in Events /\ p.issued = events.issued /\ p.sealed = events.sealed /\ p.op = events.op
        /\ (events.sealed = TRUE => p = events)
        /\ (events.sealed = FALSE => p.state = s /\ p.generation = generation)
    <3>1. gate \in Gate /\ events \in Events /\ p = Published(events, s)
      BY <1>0, <2>1
    <3>2. s \in {"Idle", "Connecting", "Negotiating", "Connected", "Disconnecting", "Closed", "Failed"}
      BY ONLY <2>1
    <3> QED
      BY ONLY <3>1, <3>2, PublishedFacts
  <2>3. /\ c \in Events /\ c.issued = p.issued /\ c.sealed = p.sealed /\ c.state = p.state /\ c.generation = p.generation
        /\ \A id \in Ids :
             /\ c.op[id].kind = p.op[id].kind /\ c.op[id].generation = p.op[id].generation
             /\ c.op[id].result = IF id \in C /\ p.op[id].result = "pending" THEN r ELSE p.op[id].result
    BY ONLY <2>1, <2>2, CompletedFacts
  <2>4. /\ events' \in Events /\ events'.issued = c.issued /\ events'.sealed = c.sealed /\ events'.state = c.state
        /\ events'.generation = c.generation
        /\ \A id \in Ids :
             /\ events'.op[id].kind = c.op[id].kind /\ events'.op[id].generation = c.op[id].generation
             /\ events'.op[id].result = IF id \in D /\ c.op[id].result = "pending" THEN "Succeeded" ELSE c.op[id].result
    BY ONLY <2>1, <2>3, CompletedFacts
  <2>5. /\ events' \in Events /\ events'.issued = events.issued /\ events'.sealed = events.sealed
        /\ (events.sealed = TRUE => events'.generation = events.generation)
        /\ (events.sealed = FALSE => events'.state \in {"Closed", "Failed"} /\ events'.generation = generation)
        /\ events.sealed \in BOOLEAN
    BY <1>0, <2>1, <2>2, <2>3, <2>4, EventsFields
  <2>6. ASSUME NEW id \in Ids
        PROVE  /\ events'.op[id].kind = events.op[id].kind /\ events'.op[id].generation = events.op[id].generation
               /\ events.op[id].result # "pending" => events'.op[id].result = events.op[id].result
               /\ id \in {gate.connectOperation, gate.disconnectOperation} => events'.op[id].result # "pending"
               /\ events'.op[id].result = events.op[id].result
                    \/ (id = gate.connectOperation /\ events'.op[id].result \in {"Cancelled", "Failed"})
                    \/ (id = gate.disconnectOperation /\ events'.op[id].result = "Succeeded")
    <3>1. events'.op[id].kind = events.op[id].kind /\ events'.op[id].generation = events.op[id].generation
      BY <2>2, <2>3, <2>4
    <3>2. c.op[id].result = IF id = gate.connectOperation /\ events.op[id].result = "pending" THEN r ELSE events.op[id].result
      BY <2>2, <2>3 DEF C
    <3>3. events'.op[id].result = IF id = gate.disconnectOperation /\ c.op[id].result = "pending"
                                  THEN "Succeeded" ELSE c.op[id].result
      BY <2>4 DEF D
    <3> QED
      BY <2>1, <3>1, <3>2, <3>3
  <2> QED
    BY <2>5, <2>6
<1>3. /\ gate' \in Gate /\ gate'.attemptActive = FALSE /\ gate'.pendingAttempt = gate.pendingAttempt
      /\ gate'.generation = gate.generation /\ gate'.connectOperation = 0 /\ gate'.disconnectOperation = 0
      /\ (gate'.stopping = TRUE <=> gate.stopping = TRUE \/ events'.sealed = TRUE)
      /\ gate'.commandsClosed = gate.commandsClosed /\ gate'.finishing = gate.finishing
      /\ gate'.cancelled = gate.cancelled /\ gate'.commands = gate.commands /\ gate'.queued = gate.queued
  <2> DEFINE z == 0
             t == gate.stopping \/ events'.sealed
  <2>1. z \in 0 .. MaxOperation /\ t \in BOOLEAN /\ (t = TRUE <=> gate.stopping = TRUE \/ events'.sealed = TRUE)
    BY <1>0, <1>2, GateFields, EventsFields, WorkerBounds
  <2>2. gate' = [gate EXCEPT !.attemptActive = FALSE, !.connectOperation = z, !.disconnectOperation = z, !.stopping = t]
    BY <1>0 DEF Retired, Gate
  <2> HIDE DEF z, t
  <2>3. /\ gate' \in Gate /\ gate'.attemptActive = FALSE /\ gate'.pendingAttempt = gate.pendingAttempt
        /\ gate'.generation = gate.generation /\ gate'.connectOperation = z /\ gate'.disconnectOperation = z
        /\ gate'.stopping = t
        /\ gate'.commandsClosed = gate.commandsClosed /\ gate'.finishing = gate.finishing
        /\ gate'.cancelled = gate.cancelled /\ gate'.commands = gate.commands /\ gate'.queued = gate.queued
    BY <1>0, <2>1, <2>2 DEF Gate
  <2> QED
    BY <2>1, <2>3 DEF z
<1>4. generation \in Generations /\ gate.attemptActive = TRUE
  BY <1>0, <1>1, AttemptNumber DEF Running, Setup, Session, Ending, Resources, Live
<1>5. /\ control' \in [Generations -> Control] /\ (\A g \in Generations : g # generation => control'[g] = control[g])
      /\ control'[generation] = NoControl /\ NoControl.closing = FALSE /\ NoControl.setupCancelled = FALSE
  <2>1. NoControl \in Control /\ NoControl.closing = FALSE /\ NoControl.setupCancelled = FALSE
    BY DEF NoControl, Control
  <2> QED
    BY <1>0, <1>4, <2>1
<1>6. /\ worker.executing = 0 /\ worker.resizeOperation = 0 /\ gate.commands = <<>> /\ ToSet(<<>>) = {}
      /\ gate.finishing = TRUE /\ gate.pendingAttempt = FALSE
  BY <1>0, <1>1, <1>4, GateFields, ProgramSets DEF Resources, QueueKnown, Phases, Live, Session, Ending
<1>7. generation \in 0 .. MaxGeneration /\ events.generation \in 0 .. MaxGeneration /\ generation \in Nat
  BY <1>0, GateFields, EventsFields, Widths DEF generation
<1>8. /\ gate.connectOperation # 0 => events.op[gate.connectOperation].kind = "connect"
      /\ gate.disconnectOperation # 0 => events.op[gate.disconnectOperation].kind = "disconnect"
      /\ "connect" \notin CommandKinds /\ "disconnect" \notin CommandKinds
  BY <1>0, WorkerBounds DEF OperationsKnown
<1>9. Types'
  BY <1>0, <1>1, <1>2, <1>3, <1>4, <1>5, <1>6, <1>7, <1>8 DEF Types, TypeOK, Places, Running, Setup, Session, Ending
<1>10. HostsKnown'
  BY <1>0, <1>1, <1>2, <1>3, <1>4, <1>5, <1>6, <1>7, <1>8, HostsStay DEF Keeps, cancelled
<1>11. Phases'
  BY <1>0, <1>1, <1>2, <1>3, <1>4, <1>5, <1>6, <1>7, <1>8 DEF Phases, Running, Setup, Session, Ending, generation, cancelled
<1>12. Resources'
  BY <1>0, <1>1, <1>2, <1>3, <1>4, <1>5, <1>6, <1>7, <1>8 DEF Resources, Running, Setup, Session, Ending, Live, generation
<1>13. StateKnown'
  BY <1>0, <1>1, <1>2, <1>3, <1>4, <1>5, <1>6, <1>7, <1>8 DEF StateKnown, Running, Setup, Session, Ending, generation
<1>14. QueueKnown'
  BY <1>0, <1>1, <1>2, <1>3, <1>4, <1>5, <1>6, <1>7, <1>8, OwnedIds DEF QueueKnown, Session
<1>15. OperationsKnown'
  BY <1>0, <1>1, <1>2, <1>3, <1>4, <1>5, <1>6, <1>7, <1>8, OwnedIds DEF OperationsKnown, Owned, generation
<1>16. OutcomesKnown'
  BY <1>0, <1>1, <1>2, <1>3, <1>4, <1>5, <1>6, <1>7, <1>8, OwnedIds DEF OutcomesKnown, generation, cancelled
<1>17. ControlsKnown'
  BY <1>0, <1>1, <1>2, <1>3, <1>4, <1>5, <1>6, <1>7, <1>8 DEF ControlsKnown, Session, generation
<1>18. Wakes'
  BY <1>0, <1>1 DEF Wakes, Waking
<1>19. Cancels'
  BY <1>1 DEF Cancels, Session
<1> QED
  BY <1>9, <1>10, <1>11, <1>12, <1>13, <1>14, <1>15, <1>16, <1>17, <1>18, <1>19 DEF WorkerInv

\* The terminal state finds no room.
LEMMA RetireOverflows ==
  ASSUME WorkerInv, pc = "retire", pc' = "idle", events' = Overflowed(events),
         worker' = [worker EXCEPT !.result = "EventOverflow"],
         gate' = Retired(gate, events'.sealed), control' = [control EXCEPT ![generation] = NoControl],
         UNCHANGED <<auth, router, watch, host, history>>
  PROVE  WorkerInv'
<1>0. /\ Types /\ Phases /\ Resources /\ StateKnown /\ QueueKnown /\ OperationsKnown /\ OutcomesKnown
      /\ HostsKnown /\ ControlsKnown /\ Wakes /\ Cancels
      /\ gate \in Gate /\ events \in Events /\ auth \in Auth /\ worker \in Worker /\ watch \in Watch
      /\ control \in [Generations -> Control] /\ router \in 0 .. MaxGeneration
      /\ pc \in Places /\ host \in [Hosts -> HostType] /\ history \in HistoryType
  BY WorkerInvFacts
<1>1. /\ pc = "retire" /\ pc' = "idle" /\ UNCHANGED <<auth, router, watch, host, history>>
  OBVIOUS
<1>2. /\ events' \in Events /\ events'.issued = events.issued /\ events'.generation = events.generation
      /\ \A id \in Ids :
           /\ events'.op[id].kind = events.op[id].kind /\ events'.op[id].generation = events.op[id].generation
           /\ events.op[id].result = "pending" => events'.op[id].result = "Failed"
           /\ events.op[id].result # "pending" => events'.op[id].result = events.op[id].result
  <2>1. events' = Overflowed(events)
    OBVIOUS
  <2> QED
    BY ONLY <1>0, <2>1, OverflowedFacts
<1>9. events'.sealed = TRUE
  <2>1. events' = Overflowed(events)
    OBVIOUS
  <2> QED
    BY ONLY <1>0, <2>1, OverflowedSealed
<1>3. /\ gate' \in Gate /\ gate'.attemptActive = FALSE /\ gate'.pendingAttempt = gate.pendingAttempt
      /\ gate'.generation = gate.generation /\ gate'.connectOperation = 0 /\ gate'.disconnectOperation = 0
      /\ (gate'.stopping = TRUE <=> gate.stopping = TRUE \/ events'.sealed = TRUE)
      /\ gate'.commandsClosed = gate.commandsClosed /\ gate'.finishing = gate.finishing
      /\ gate'.cancelled = gate.cancelled /\ gate'.commands = gate.commands /\ gate'.queued = gate.queued
  <2> DEFINE z == 0
             t == gate.stopping \/ events'.sealed
  <2>1. z \in 0 .. MaxOperation /\ t \in BOOLEAN /\ (t = TRUE <=> gate.stopping = TRUE \/ events'.sealed = TRUE)
    BY <1>0, <1>2, GateFields, EventsFields, WorkerBounds
  <2>2. gate' = [gate EXCEPT !.attemptActive = FALSE, !.connectOperation = z, !.disconnectOperation = z, !.stopping = t]
    BY <1>0 DEF Retired, Gate
  <2> HIDE DEF z, t
  <2>3. /\ gate' \in Gate /\ gate'.attemptActive = FALSE /\ gate'.pendingAttempt = gate.pendingAttempt
        /\ gate'.generation = gate.generation /\ gate'.connectOperation = z /\ gate'.disconnectOperation = z
        /\ gate'.stopping = t
        /\ gate'.commandsClosed = gate.commandsClosed /\ gate'.finishing = gate.finishing
        /\ gate'.cancelled = gate.cancelled /\ gate'.commands = gate.commands /\ gate'.queued = gate.queued
    BY <1>0, <2>1, <2>2 DEF Gate
  <2> QED
    BY <2>1, <2>3 DEF z
<1>4. generation \in Generations /\ gate.attemptActive = TRUE
  BY <1>0, <1>1, AttemptNumber DEF Running, Setup, Session, Ending, Resources, Live
<1>5. /\ control' \in [Generations -> Control] /\ (\A g \in Generations : g # generation => control'[g] = control[g])
      /\ control'[generation] = NoControl /\ NoControl.closing = FALSE /\ NoControl.setupCancelled = FALSE
  <2>1. NoControl \in Control /\ NoControl.closing = FALSE /\ NoControl.setupCancelled = FALSE
    BY DEF NoControl, Control
  <2> QED
    BY <1>0, <1>4, <2>1
<1>6. /\ worker.executing = 0 /\ worker.resizeOperation = 0 /\ gate.commands = <<>> /\ ToSet(<<>>) = {}
      /\ gate.finishing = TRUE /\ gate.pendingAttempt = FALSE
  BY <1>0, <1>1, <1>4, GateFields, ProgramSets DEF Resources, QueueKnown, Phases, Live, Session, Ending
<1>7. /\ worker' \in Worker /\ worker'.executing = worker.executing /\ worker'.drained = worker.drained
      /\ worker'.progressed = worker.progressed /\ worker'.transport = worker.transport
      /\ worker'.ready = worker.ready /\ worker'.resizeOperation = worker.resizeOperation
      /\ worker'.resizePending = worker.resizePending /\ worker'.unanswered = worker.unanswered
  BY <1>0 DEF Worker
<1>10. Types'
  BY <1>0, <1>1, <1>2, <1>9, <1>3, <1>4, <1>5, <1>6, <1>7 DEF Types, TypeOK, Places, Running, Setup, Session, Ending
<1>11. HostsKnown'
  BY <1>0, <1>1, <1>2, <1>9, <1>3, <1>4, <1>5, <1>6, <1>7, HostsStay DEF Keeps, cancelled
<1>12. Phases'
  BY <1>0, <1>1, <1>2, <1>9, <1>3, <1>4, <1>5, <1>6, <1>7 DEF Phases, Running, Setup, Session, Ending, generation, cancelled
<1>13. Resources'
  BY <1>0, <1>1, <1>2, <1>9, <1>3, <1>4, <1>5, <1>6, <1>7 DEF Resources, Running, Setup, Session, Ending, Live, generation
<1>14. StateKnown'
  BY <1>0, <1>1, <1>2, <1>9, <1>3, <1>4, <1>5, <1>6, <1>7 DEF StateKnown, Running, Setup, Session, Ending, generation
<1>15. QueueKnown'
  BY <1>0, <1>1, <1>2, <1>9, <1>3, <1>4, <1>5, <1>6, <1>7, OwnedIds DEF QueueKnown, Session
<1>16. OperationsKnown'
  BY <1>0, <1>1, <1>2, <1>9, <1>3, <1>4, <1>5, <1>6, <1>7, OwnedIds DEF OperationsKnown, Owned, generation
<1>17. OutcomesKnown'
  BY <1>0, <1>1, <1>2, <1>9, <1>3, <1>4, <1>5, <1>6, <1>7, OwnedIds DEF OutcomesKnown, generation, cancelled
<1>18. ControlsKnown'
  BY <1>0, <1>1, <1>2, <1>9, <1>3, <1>4, <1>5, <1>6, <1>7 DEF ControlsKnown, Session, generation
<1>19. Wakes'
  BY <1>0, <1>1, <1>7 DEF Wakes, Waking
<1>20. Cancels'
  BY <1>1 DEF Cancels, Session
<1> QED
  BY <1>10, <1>11, <1>12, <1>13, <1>14, <1>15, <1>16, <1>17, <1>18, <1>19, <1>20 DEF WorkerInv

----------------------------------------------------------------------------
(* Calls of the hosts *)

\* The errands of connect() and of wake().
LEMMA AfterWakeFacts ==
  /\ AfterWake \in HostType /\ AfterWake.then # <<>> /\ ToSet(AfterWake.then) = {"wake", "deliver", "notify"}
  /\ AfterWake.scope = 0 /\ AfterWake.gen = 0 /\ AfterWake.how = "wake"
  /\ AfterConnect \in HostType /\ AfterConnect.then # <<>> /\ ToSet(AfterConnect.then) = {"notify"}
  /\ AfterConnect.scope = 0 /\ AfterConnect.gen = 0 /\ AfterConnect.how = "wake"
<1>1. 0 \in 0 .. MaxGeneration
  BY WorkerBounds
<1>2. /\ AfterWake \in HostType /\ AfterWake.then = <<"wake", "deliver", "notify">>
      /\ AfterWake.scope = 0 /\ AfterWake.gen = 0 /\ AfterWake.how = "wake"
      /\ AfterConnect \in HostType /\ AfterConnect.then = <<"notify">>
      /\ AfterConnect.scope = 0 /\ AfterConnect.gen = 0 /\ AfterConnect.how = "wake"
  BY <1>1, AfterFacts
<1>3. <<"wake", "deliver", "notify">> # <<>> /\ <<"notify">> # <<>>
  OBVIOUS
<1> QED
  BY <1>2, <1>3, ProgramSets

\* A change of settings.
LEMMA SetSecurityStep ==
  ASSUME WorkerInv, NEW h \in Hosts, NEW g, NEW revision, SetSecurity(h, g, revision)
  PROVE  WorkerInv'
<1>0. /\ Types /\ Phases /\ Resources /\ StateKnown /\ QueueKnown /\ OperationsKnown /\ OutcomesKnown
      /\ HostsKnown /\ ControlsKnown /\ Wakes /\ Cancels
      /\ gate \in Gate /\ events \in Events /\ auth \in Auth /\ worker \in Worker /\ watch \in Watch
      /\ control \in [Generations -> Control] /\ router \in 0 .. MaxGeneration
      /\ pc \in Places /\ host \in [Hosts -> HostType] /\ history \in HistoryType
  BY WorkerInvFacts
<1>1. /\ UNCHANGED <<events, auth, control, router, pc, worker, watch, host, history>>
  BY DEF SetSecurity
<1>2. /\ gate' \in Gate /\ gate'.stopping = gate.stopping /\ gate'.attemptActive = gate.attemptActive
      /\ gate'.pendingAttempt = gate.pendingAttempt /\ gate'.generation = gate.generation
      /\ gate'.connectOperation = gate.connectOperation /\ gate'.disconnectOperation = gate.disconnectOperation
      /\ gate'.commandsClosed = gate.commandsClosed /\ gate'.finishing = gate.finishing
      /\ gate'.cancelled = gate.cancelled /\ gate'.commands = gate.commands /\ gate'.queued = gate.queued
  <2> DEFINE n == gate.revision + 1
  <2>1. gate' = [gate EXCEPT !.revision = n]
    BY <1>0 DEF SetSecurity, Gate
  <2>2. n \in 1 .. MaxRevision
    BY <1>0, GateFields, WorkerBounds DEF SetSecurity
  <2> HIDE DEF n
  <2> QED
    BY <1>0, <2>1, <2>2 DEF Gate
<1>3. Types'
  BY <1>0, <1>1, <1>2 DEF Types, TypeOK, Places, Running, Setup, Session, Ending
<1>4. HostsKnown'
  BY <1>0, <1>1, <1>2, HostsStay DEF Keeps, cancelled
<1>5. Promised
  BY <1>0, <1>1, <1>2, SignalsStay DEF ControlStays, generation
<1>6. Phases'
  BY <1>0, <1>1, <1>2 DEF Phases, Running, Setup, Session, Ending, generation, cancelled
<1>7. Resources'
  BY <1>0, <1>1, <1>2 DEF Resources, Running, Setup, Session, Ending, Live, generation
<1>8. StateKnown'
  BY <1>0, <1>1, <1>2 DEF StateKnown, Running, Setup, Session, Ending, generation
<1>9. QueueKnown'
  BY <1>0, <1>1, <1>2 DEF QueueKnown, Session
<1>10. OperationsKnown'
  BY <1>0, <1>1, <1>2 DEF OperationsKnown, Owned, generation
<1>11. OutcomesKnown'
  BY <1>0, <1>1, <1>2 DEF OutcomesKnown, generation, cancelled
<1>12. ControlsKnown'
  BY <1>0, <1>1, <1>2 DEF ControlsKnown, Session, generation
<1>13. Wakes'
  BY <1>0, <1>1, <1>2, <1>5 DEF Wakes, Waking, Setup, Promised
<1>14. Cancels'
  BY <1>0, <1>1, <1>2, <1>5 DEF Cancels, Session, Promised, cancelled
<1> QED
  BY <1>3, <1>4, <1>6, <1>7, <1>8, <1>9, <1>10, <1>11, <1>12, <1>13, <1>14 DEF WorkerInv

\* A reservation overflows the stream.
LEMMA ReserveOverflowsStep ==
  ASSUME WorkerInv, NEW h \in Hosts, ReserveOverflows(h)
  PROVE  WorkerInv'
<1>0. /\ Types /\ Phases /\ Resources /\ StateKnown /\ QueueKnown /\ OperationsKnown /\ OutcomesKnown
      /\ HostsKnown /\ ControlsKnown /\ Wakes /\ Cancels
      /\ gate \in Gate /\ events \in Events /\ auth \in Auth /\ worker \in Worker /\ watch \in Watch
      /\ control \in [Generations -> Control] /\ router \in 0 .. MaxGeneration
      /\ pc \in Places /\ host \in [Hosts -> HostType] /\ history \in HistoryType
  BY WorkerInvFacts
<1>1. /\ Ready(h) /\ UNCHANGED <<gate, auth, control, router, pc, worker, watch, history>>
  BY DEF ReserveOverflows
<1>2. /\ events' \in Events /\ events'.issued = events.issued /\ events'.generation = events.generation
      /\ \A id \in Ids :
           /\ events'.op[id].kind = events.op[id].kind /\ events'.op[id].generation = events.op[id].generation
           /\ events.op[id].result = "pending" => events'.op[id].result = "Failed"
           /\ events.op[id].result # "pending" => events'.op[id].result = events.op[id].result
  <2>1. events' = Overflowed(events)
    BY DEF ReserveOverflows
  <2> QED
    BY ONLY <1>0, <2>1, OverflowedFacts
<1>3. events'.sealed = TRUE
  <2>1. events' = Overflowed(events)
    BY DEF ReserveOverflows
  <2> QED
    BY ONLY <1>0, <2>1, OverflowedSealed
<1>4. /\ host' \in [Hosts -> HostType] /\ (\A k \in Hosts : k # h => host'[k] = host[k])
      /\ host'[h] = AfterWake
  <2> DEFINE r == AfterWake
  <2>1. r \in HostType /\ r.then # <<>>
    BY AfterWakeFacts
  <2>2. Continue(h, r)
    BY DEF ReserveOverflows
  <2> HIDE DEF r
  <2>3. /\ host' \in [Hosts -> HostType] /\ (\A k \in Hosts : k # h => host'[k] = host[k]) /\ host'[h] = r
    BY ONLY <1>0, <2>1, <2>2, h \in Hosts, ContinueFacts
  <2> QED
    BY <2>3 DEF r
<1>5. /\ AfterWake.scope = 0 /\ AfterWake.gen = 0 /\ AfterWake.how = "wake" /\ AfterWake.then # <<>>
      /\ ToSet(AfterWake.then) = {"wake", "deliver", "notify"} /\ 0 \in 0 .. MaxGeneration
      /\ generation \in 0 .. MaxGeneration
  BY <1>0, AfterWakeFacts, WorkerBounds, GateFields DEF generation
<1>6. Types'
  BY <1>0, <1>1, <1>2, <1>3, <1>4, <1>5 DEF Types, TypeOK, Places, Running, Setup, Session, Ending
<1>7. HostsKnown'
  <2>1. HostKnown(h)'
    BY <1>1, <1>4, <1>5 DEF HostKnown, Enroute, generation
  <2>2. \A k \in Hosts : k # h => HostKnown(k)'
    BY <1>0, <1>1, <1>4, HostStays DEF HostsKnown, Keeps, cancelled
  <2> QED
    BY <2>1, <2>2 DEF HostsKnown
<1>8. Promised
  BY <1>1, <1>4, SignalsAdded DEF ControlStays, generation
<1>9. Phases'
  BY <1>0, <1>1, <1>2, <1>3, <1>4, <1>5 DEF Phases, Running, Setup, Session, Ending, generation, cancelled
<1>10. StateKnown'
  BY <1>0, <1>1, <1>2, <1>3, <1>4, <1>5 DEF StateKnown, Running, Setup, Session, Ending, generation
<1>11. QueueKnown'
  BY <1>0, <1>1, <1>2, <1>3, <1>4, <1>5, OwnedIds DEF QueueKnown, Session
<1>12. OperationsKnown'
  BY <1>0, <1>1, <1>2, <1>3, <1>4, <1>5, OwnedIds DEF OperationsKnown, Owned, generation
<1>13. OutcomesKnown'
  BY <1>0, <1>1, <1>2, <1>3, <1>4, <1>5, OwnedIds DEF OutcomesKnown, generation, cancelled
<1>14. Wakes'
  <2>1. Notified'
    BY <1>4, <1>5 DEF Notified, Enroute
  <2> QED
    BY <1>0, <1>1, <1>8, <2>1 DEF Wakes, Waking, Promised
<1>15. Cancels'
  BY <1>0, <1>1, <1>2, <1>3, <1>4, <1>5, <1>8 DEF Cancels, Session, Promised, cancelled
<1>16. Resources' /\ ControlsKnown'
  BY <1>0, <1>1 DEF Resources, Running, Setup, Session, Ending, Live, generation, ControlsKnown
<1> QED
  BY <1>6, <1>7, <1>9, <1>10, <1>11, <1>12, <1>13, <1>14, <1>15, <1>16 DEF WorkerInv

\* A command is queued under a new operation, and its wake-up is under way.
LEMMA SubmitStep ==
  ASSUME WorkerInv, NEW h \in Hosts, NEW kind \in CommandKinds, NEW g \in Generations, Submit(h, kind, g)
  PROVE  WorkerInv'
<1>0. /\ Types /\ Phases /\ Resources /\ StateKnown /\ QueueKnown /\ OperationsKnown /\ OutcomesKnown
      /\ HostsKnown /\ ControlsKnown /\ Wakes /\ Cancels
      /\ gate \in Gate /\ events \in Events /\ auth \in Auth /\ worker \in Worker /\ watch \in Watch
      /\ control \in [Generations -> Control] /\ router \in 0 .. MaxGeneration
      /\ pc \in Places /\ host \in [Hosts -> HostType] /\ history \in HistoryType
  BY WorkerInvFacts
<1>1. /\ Ready(h) /\ UNCHANGED <<auth, control, router, pc, worker, watch, history>>
  BY DEF Submit
<1>2. /\ gate.commandsClosed = FALSE /\ events.sealed = FALSE /\ events.state = "Connected" /\ g = CurrentGeneration
      /\ Len(gate.commands) < CommandCapacity
  BY <1>0, GateFields, EventsFields DEF Submit, SubmitAllowed
<1>3. pc \in Session \cup {"finish"} /\ gate.attemptActive = TRUE /\ g = generation
  <2>1. gate.finishing = FALSE /\ gate.attemptActive \in BOOLEAN
    BY <1>0, <1>2, GateFields DEF Phases
  <2>2. pc \in Session \cup {"finish", "disconnecting"}
    BY <1>0, <1>2 DEF StateKnown
  <2>3. gate.attemptActive = TRUE /\ pc # "disconnecting"
    BY <1>0, <2>1, <2>2 DEF Phases, Running, Session, Ending
  <2> QED
    BY <1>2, <2>2, <2>3 DEF CurrentGeneration
<1>4. /\ events' \in Events /\ events'.issued = events.issued + 1 /\ events'.sealed = events.sealed
      /\ events'.state = events.state /\ events'.generation = events.generation
      /\ NextId \in Ids /\ NextId = events.issued + 1 /\ events'.op[NextId].kind = kind
      /\ events'.op[NextId].generation = g /\ events'.op[NextId].result = "pending"
      /\ \A id \in Ids : id # NextId => events'.op[id] = events.op[id]
  <2>1. events \in Events /\ events.issued < MaxOperation /\ events' = Reserved(events, kind, g)
    BY <1>0 DEF Submit, CanReserve
  <2>2. kind \in {"connect", "disconnect"} \cup CommandKinds /\ g \in 0 .. MaxGeneration
    BY WorkerBounds DEF Generations
  <2>3. events' \in Events
    BY <2>1, <2>2, ReservedFacts
  <2>4. events'.issued = events.issued + 1 /\ events'.sealed = events.sealed
    BY <2>1, <2>2, ReservedFacts
  <2>5. events'.state = events.state /\ events'.generation = events.generation
    BY <2>1, <2>2, ReservedFacts
  <2>6. NextId \in Ids /\ NextId = events.issued + 1
    BY <2>1, <2>2, ReservedFacts
  <2>7. events'.op[NextId].kind = kind
    BY <2>1, <2>2, ReservedFacts
  <2>8. events'.op[NextId].generation = g
    BY <2>1, <2>2, ReservedFacts
  <2>9. events'.op[NextId].result = "pending"
    BY <2>1, <2>2, ReservedFacts
  <2>10. \A id \in Ids : id # NextId => events'.op[id] = events.op[id]
    BY <2>1, <2>2, ReservedFacts
  <2> QED
    BY <2>3, <2>4, <2>5, <2>6, <2>7, <2>8, <2>9, <2>10
<1>5. /\ \A id \in ToSet(gate.commands) : id \in Ids /\ id <= events.issued /\ id # NextId
      /\ worker.executing # NextId /\ worker.resizeOperation # NextId
      /\ gate.connectOperation # NextId /\ gate.disconnectOperation # NextId
      /\ \A id \in Ids : id <= events.issued => id # NextId
      /\ \A id \in Ids : id > events.issued + 1 => id > events.issued /\ id # NextId
      /\ \A id \in Ids : id <= events.issued => id <= events.issued + 1
      /\ events.issued \in Nat /\ NextId \in Nat /\ NextId # 0 /\ NextId <= events.issued + 1
  BY <1>0, <1>4, OwnedIds, EventsFields, Widths DEF QueueKnown, OperationsKnown
<1>6. /\ gate' \in Gate /\ gate'.stopping = gate.stopping /\ gate'.attemptActive = gate.attemptActive
      /\ gate'.pendingAttempt = gate.pendingAttempt /\ gate'.generation = gate.generation
      /\ gate'.connectOperation = gate.connectOperation /\ gate'.disconnectOperation = gate.disconnectOperation
      /\ gate'.commandsClosed = gate.commandsClosed /\ gate'.finishing = gate.finishing
      /\ gate'.cancelled = gate.cancelled
      /\ gate'.commands \in Seq(Ids) /\ Len(gate'.commands) = Len(gate.commands) + 1 /\ Distinct(gate'.commands)
      /\ gate'.commands # <<>> /\ (\A x : x \in ToSet(gate'.commands) <=> x \in ToSet(gate.commands) \/ x = NextId)
      /\ \A k \in Exclusive : gate'.queued[k] = IF k = kind THEN NextId ELSE gate.queued[k]
  <2> DEFINE q == Append(gate.commands, NextId)
             s == [k \in Exclusive |-> IF k = kind THEN NextId ELSE gate.queued[k]]
  <2>1. gate.commands \in Seq(Ids) /\ Distinct(gate.commands) /\ NextId \in Ids /\ NextId \notin ToSet(gate.commands)
    BY <1>0, <1>4, <1>5, GateFields DEF QueueKnown
  <2>2. /\ q \in Seq(Ids) /\ Len(q) = Len(gate.commands) + 1 /\ Distinct(q) /\ q # <<>>
        /\ (\A x : x \in ToSet(q) <=> x \in ToSet(gate.commands) \/ x = NextId)
    BY ONLY <2>1, AppendedElements
  <2>3. gate.queued \in [Exclusive -> 0 .. MaxOperation] /\ NextId \in 0 .. MaxOperation
    BY <1>0, <1>4, GateFields, Widths
  <2>4. s \in [Exclusive -> 0 .. MaxOperation] /\ \A k \in Exclusive : s[k] = IF k = kind THEN NextId ELSE gate.queued[k]
    BY <2>3
  <2>5. gate' = [gate EXCEPT !.commands = q, !.queued = s]
    BY <1>0 DEF Submit, Gate
  <2> HIDE DEF q, s
  <2>6. /\ gate' \in Gate /\ gate'.stopping = gate.stopping /\ gate'.attemptActive = gate.attemptActive
        /\ gate'.pendingAttempt = gate.pendingAttempt /\ gate'.generation = gate.generation
        /\ gate'.connectOperation = gate.connectOperation
        /\ gate'.disconnectOperation = gate.disconnectOperation /\ gate'.commandsClosed = gate.commandsClosed
        /\ gate'.finishing = gate.finishing /\ gate'.cancelled = gate.cancelled /\ gate'.commands = q
        /\ gate'.queued = s
    BY <1>0, <2>2, <2>4, <2>5 DEF Gate
  <2> QED
    BY <2>2, <2>4, <2>6
<1>7. /\ host' \in [Hosts -> HostType] /\ (\A k \in Hosts : k # h => host'[k] = host[k])
      /\ host'[h] = AfterWake
  <2> DEFINE r == AfterWake
  <2>1. r \in HostType /\ r.then # <<>>
    BY AfterWakeFacts
  <2>2. Continue(h, r)
    BY DEF Submit
  <2> HIDE DEF r
  <2>3. /\ host' \in [Hosts -> HostType] /\ (\A k \in Hosts : k # h => host'[k] = host[k]) /\ host'[h] = r
    BY ONLY <1>0, <2>1, <2>2, h \in Hosts, ContinueFacts
  <2> QED
    BY <2>3 DEF r
<1>8. /\ AfterWake.scope = 0 /\ AfterWake.gen = 0 /\ AfterWake.how = "wake" /\ AfterWake.then # <<>>
      /\ ToSet(AfterWake.then) = {"wake", "deliver", "notify"} /\ 0 \in 0 .. MaxGeneration
      /\ generation \in 0 .. MaxGeneration /\ generation >= 0 /\ generation \in Int
  BY <1>0, AfterWakeFacts, WorkerBounds, GateFields DEF generation
<1>9. Types'
  <2>1. Len(gate'.commands) <= CommandCapacity
    BY <1>2, <1>6, <1>0, GateFields, Elements, WorkerBounds
  <2> QED
    BY <1>0, <1>1, <1>4, <1>6, <1>7, <2>1, EventsFields DEF Types, TypeOK
<1>10. HostsKnown'
  <2>1. HostKnown(h)'
    BY <1>1, <1>6, <1>7, <1>8 DEF HostKnown, Enroute, generation
  <2>2. \A k \in Hosts : k # h => HostKnown(k)'
    BY <1>0, <1>1, <1>6, <1>7, HostStays DEF HostsKnown, Keeps, cancelled
  <2> QED
    BY <2>1, <2>2 DEF HostsKnown
<1>11. Promised
  BY <1>1, <1>6, <1>7, SignalsAdded DEF ControlStays, generation
<1>12. Phases'
  BY <1>0, <1>1, <1>2, <1>3, <1>4, <1>5, <1>6, <1>7, <1>8 DEF Phases, Running, Setup, Session, Ending, generation, cancelled
<1>13. Resources'
  BY <1>0, <1>1, <1>2, <1>3, <1>4, <1>5, <1>6, <1>7, <1>8 DEF Resources, Running, Setup, Session, Ending, Live, generation
<1>14. StateKnown'
  BY <1>0, <1>1, <1>4, <1>6 DEF StateKnown, Running, Setup, Session, Ending, generation
<1>15. QueueKnown'
  <2>1. \A id \in ToSet(gate'.commands) : /\ id <= events'.issued /\ events'.op[id].kind \in CommandKinds
                                          /\ events'.op[id].result \in {"pending", "Failed"}
    <3> TAKE id \in ToSet(gate'.commands)
    <3>1. CASE id = NextId
      BY <1>4, <1>5, <3>1
    <3>2. CASE id \in ToSet(gate.commands)
      BY <1>0, <1>4, <1>5, <3>2 DEF QueueKnown
    <3> QED
      BY <1>6, <3>1, <3>2
  <2>2. pc # "finish" => \A k \in Exclusive : gate'.queued[k] \in {0, worker.executing} \cup ToSet(gate'.commands)
    BY <1>0, <1>6 DEF QueueKnown
  <2> QED
    BY <1>0, <1>1, <1>2, <1>3, <1>5, <1>6, <2>1, <2>2 DEF QueueKnown
<1>16. OperationsKnown'
  <2>1. \A id \in Ids : id \in Owned => id \in Owned'
    BY <1>1, <1>6 DEF Owned
  <2>2. NextId \in Owned'
    BY <1>6 DEF Owned
  <2>3. ASSUME NEW id \in Ids
        PROVE  /\ id > events'.issued => events'.op[id].result = "none"
               /\ events'.op[id].generation <= gate'.generation
               /\ events'.op[id].result = "pending" => id \in Owned' /\ events'.sealed = FALSE
    <3>1. CASE id = NextId
      BY <1>2, <1>3, <1>4, <1>5, <1>6, <1>8, <2>2, <3>1 DEF generation
    <3>2. CASE id # NextId
      BY <1>0, <1>4, <1>5, <1>6, <2>1, <3>2 DEF OperationsKnown, generation
    <3> QED
      BY <3>1, <3>2
  <2>4. gate.connectOperation # 0 =>
          /\ gate.attemptActive = TRUE /\ gate.connectOperation <= events'.issued
          /\ events'.op[gate.connectOperation].kind = "connect"
    BY <1>0, <1>4, <1>5, OwnedIds DEF OperationsKnown
  <2>5. gate.disconnectOperation # 0 =>
          /\ gate.attemptActive = TRUE /\ gate.cancelled = TRUE /\ gate.disconnectOperation <= events'.issued
          /\ events'.op[gate.disconnectOperation].kind = "disconnect"
    BY <1>0, <1>4, <1>5, OwnedIds DEF OperationsKnown
  <2>6. worker.executing # 0 =>
          /\ worker.executing <= events'.issued /\ events'.op[worker.executing].kind \in CommandKinds
          /\ events'.op[worker.executing].result \in {"pending", "Failed"}
    BY <1>0, <1>4, <1>5, OwnedIds DEF OperationsKnown
  <2>7. worker.resizeOperation # 0 =>
          /\ worker.resizeOperation <= events'.issued
          /\ events'.op[worker.resizeOperation].kind = "DesktopLayout"
    BY <1>0, <1>4, <1>5, OwnedIds DEF OperationsKnown
  <2> QED
    BY <1>1, <1>6, <2>3, <2>4, <2>5, <2>6, <2>7 DEF OperationsKnown, generation
<1>17. OutcomesKnown'
  <2>1. \A id \in Ids : events'.op[id].kind = "disconnect" /\ events'.op[id].result = "Succeeded" =>
                          generation > events'.op[id].generation \/ gate.attemptActive = FALSE
    <3> TAKE id \in Ids
    <3>1. CASE id = NextId
      BY <1>4, <3>1
    <3>2. CASE id # NextId
      BY <1>0, <1>4, <3>2 DEF OutcomesKnown
    <3> QED
      BY <3>1, <3>2
  <2>2. \A id \in history.revoked \cup history.executed : id # NextId /\ id <= events'.issued /\ events'.op[id] = events.op[id]
    BY <1>0, <1>4, <1>5, OwnedIds DEF OutcomesKnown
  <2> QED
    BY <1>0, <1>1, <1>6, <2>1, <2>2 DEF OutcomesKnown, generation, cancelled
<1>18. ControlsKnown'
  BY <1>0, <1>1, <1>2, <1>3, <1>4, <1>5, <1>6, <1>7, <1>8 DEF ControlsKnown, Session, generation
<1>19. Wakes'
  <2>1. Covered' /\ Notified'
    BY <1>7, <1>8 DEF Covered, Notified, Enroute
  <2> QED
    BY <1>0, <1>1, <2>1 DEF Wakes, Waking
<1>20. Cancels'
  BY <1>0, <1>1, <1>2, <1>3, <1>4, <1>5, <1>6, <1>7, <1>8, <1>11 DEF Cancels, Session, Promised, cancelled
<1> QED
  BY <1>9, <1>10, <1>12, <1>13, <1>14, <1>15, <1>16, <1>17, <1>18, <1>19, <1>20 DEF WorkerInv

\* A queued command is taken back.
LEMMA CancelQueuedStep ==
  ASSUME WorkerInv, NEW h \in Hosts, NEW g \in Generations, NEW o \in Ids, CancelQueued(h, g, o)
  PROVE  WorkerInv'
<1>0. /\ Types /\ Phases /\ Resources /\ StateKnown /\ QueueKnown /\ OperationsKnown /\ OutcomesKnown
      /\ HostsKnown /\ ControlsKnown /\ Wakes /\ Cancels
      /\ gate \in Gate /\ events \in Events /\ auth \in Auth /\ worker \in Worker /\ watch \in Watch
      /\ control \in [Generations -> Control] /\ router \in 0 .. MaxGeneration
      /\ pc \in Places /\ host \in [Hosts -> HostType] /\ history \in HistoryType
  BY WorkerInvFacts
<1>1. /\ o \in ToSet(gate.commands) /\ UNCHANGED <<auth, control, router, pc, worker, watch, host, history>>
  BY DEF CancelQueued
<1>2. /\ gate.commands \in Seq(Ids) /\ Distinct(gate.commands) /\ o # worker.executing /\ Len(gate.commands) \in Nat
      /\ Len(gate.commands) <= CommandCapacity /\ worker.drained \in Nat /\ CommandCapacity \in Nat
      /\ o # 0 /\ gate.commands # <<>>
  BY <1>0, <1>1, GateFields, WorkerFields, WorkerBounds, Elements, OwnedIds DEF QueueKnown, Types, TypeOK
<1>3. /\ gate' \in Gate /\ gate'.stopping = gate.stopping /\ gate'.attemptActive = gate.attemptActive
      /\ gate'.pendingAttempt = gate.pendingAttempt /\ gate'.generation = gate.generation
      /\ gate'.connectOperation = gate.connectOperation /\ gate'.disconnectOperation = gate.disconnectOperation
      /\ gate'.commandsClosed = gate.commandsClosed /\ gate'.finishing = gate.finishing
      /\ gate'.cancelled = gate.cancelled
      /\ gate'.commands \in Seq(Ids) /\ Len(gate'.commands) = Len(gate.commands) - 1 /\ Distinct(gate'.commands)
      /\ (\A x : x \in ToSet(gate'.commands) <=> x \in ToSet(gate.commands) /\ x # o)
      /\ \A k \in Exclusive : gate'.queued[k] = IF gate.queued[k] = o THEN 0 ELSE gate.queued[k]
  <2> DEFINE q == RemoveFirst(gate.commands, o)
             u == Unqueued(o)
  <2>1. gate' = [gate EXCEPT !.commands = q, !.queued = u]
    BY DEF CancelQueued
  <2>2. q = RemoveFirst(gate.commands, o) /\ u = Unqueued(o)
    OBVIOUS
  <2> HIDE DEF q, u
  <2>3. /\ u \in [Exclusive -> 0 .. MaxOperation]
        /\ \A kind \in Exclusive : u[kind] = IF gate.queued[kind] = o THEN 0 ELSE gate.queued[kind]
    BY ONLY <1>0, <2>2, UnqueuedFacts
  <2>4. /\ q \in Seq(Ids) /\ Len(q) = Len(gate.commands) - 1 /\ Distinct(q)
        /\ (\A x : x \in ToSet(q) <=> x \in ToSet(gate.commands) /\ x # o)
    BY ONLY <1>1, <1>2, <2>2, RemoveFirstElements
  <2>5. /\ gate' \in Gate /\ gate'.stopping = gate.stopping /\ gate'.attemptActive = gate.attemptActive
        /\ gate'.pendingAttempt = gate.pendingAttempt /\ gate'.generation = gate.generation
        /\ gate'.connectOperation = gate.connectOperation
        /\ gate'.disconnectOperation = gate.disconnectOperation /\ gate'.commandsClosed = gate.commandsClosed
        /\ gate'.finishing = gate.finishing /\ gate'.cancelled = gate.cancelled /\ gate'.commands = q
        /\ gate'.queued = u
    BY <1>0, <2>1, <2>3, <2>4 DEF Gate
  <2> QED
    BY <2>3, <2>4, <2>5
<1>4. /\ events' \in Events /\ events'.issued = events.issued /\ events'.sealed = events.sealed
      /\ events'.state = events.state /\ events'.generation = events.generation
      /\ \A id \in Ids :
           /\ events'.op[id].kind = events.op[id].kind /\ events'.op[id].generation = events.op[id].generation
           /\ events'.op[id].result = IF id \in {o} /\ events.op[id].result = "pending" THEN "Cancelled" ELSE events.op[id].result
  <2>1. events' = Completed(events, {o}, "Cancelled") /\ "Cancelled" \in Results
    BY <1>0 DEF CancelQueued, Results
  <2> QED
    BY ONLY <1>0, <2>1, CompletedFacts
<1>5. Types'
  <2>1. Len(gate'.commands) <= CommandCapacity
    BY <1>2, <1>3
  <2> QED
    BY <1>0, <1>1, <1>3, <1>4, <2>1, EventsFields DEF Types, TypeOK
<1>6. HostsKnown'
  BY <1>0, <1>1, <1>2, <1>3, <1>4, HostsStay DEF Keeps, cancelled
<1>7. Promised
  BY <1>0, <1>1, <1>2, <1>3, <1>4, SignalsStay DEF ControlStays, generation
<1>8. Phases'
  BY <1>0, <1>1, <1>2, <1>3, <1>4 DEF Phases, Running, Setup, Session, Ending, generation, cancelled
<1>9. Resources'
  BY <1>0, <1>1, <1>2, <1>3, <1>4 DEF Resources, Running, Setup, Session, Ending, Live, generation
<1>10. StateKnown'
  BY <1>0, <1>1, <1>2, <1>3, <1>4 DEF StateKnown, Running, Setup, Session, Ending, generation
<1>11. QueueKnown'
  <2>1. gate'.commands # <<>> => gate.commands # <<>>
    BY <1>2
  <2>2. \A id \in ToSet(gate'.commands) : /\ id <= events'.issued /\ events'.op[id].kind \in CommandKinds
                                          /\ events'.op[id].result \in {"pending", "Failed"}
    BY <1>0, <1>3, <1>4, OwnedIds DEF QueueKnown
  <2>3. pc # "finish" => \A k \in Exclusive : gate'.queued[k] \in {0, worker.executing} \cup ToSet(gate'.commands)
    BY <1>0, <1>2, <1>3 DEF QueueKnown
  <2>4. ~(gate.commandsClosed = TRUE \/ pc \notin Session \cup {"finish"})
    BY <1>0, <1>2 DEF QueueKnown
  <2> QED
    BY <1>0, <1>1, <1>3, <2>1, <2>2, <2>3, <2>4 DEF QueueKnown
<1>12. OperationsKnown'
  <2>1. \A id \in Ids : id # o /\ id \in Owned => id \in Owned'
    BY <1>1, <1>3 DEF Owned
  <2>2. ASSUME NEW id \in Ids
        PROVE  /\ id > events'.issued => events'.op[id].result = "none"
               /\ events'.op[id].generation <= gate'.generation
               /\ events'.op[id].result = "pending" => id \in Owned' /\ events'.sealed = FALSE
    BY <1>0, <1>3, <1>4, <2>1 DEF OperationsKnown, generation
  <2>3. gate.connectOperation # 0 =>
          /\ gate.attemptActive = TRUE /\ gate.connectOperation <= events'.issued
          /\ events'.op[gate.connectOperation].kind = "connect"
    BY <1>0, <1>4, OwnedIds DEF OperationsKnown
  <2>4. gate.disconnectOperation # 0 =>
          /\ gate.attemptActive = TRUE /\ gate.cancelled = TRUE /\ gate.disconnectOperation <= events'.issued
          /\ events'.op[gate.disconnectOperation].kind = "disconnect"
    BY <1>0, <1>4, OwnedIds DEF OperationsKnown
  <2>5. worker.executing # 0 =>
          /\ worker.executing <= events'.issued /\ events'.op[worker.executing].kind \in CommandKinds
          /\ events'.op[worker.executing].result \in {"pending", "Failed"}
    BY <1>0, <1>2, <1>4, OwnedIds DEF OperationsKnown
  <2>6. worker.resizeOperation # 0 =>
          /\ worker.resizeOperation <= events'.issued
          /\ events'.op[worker.resizeOperation].kind = "DesktopLayout"
    BY <1>0, <1>4, OwnedIds DEF OperationsKnown
  <2> QED
    BY <1>1, <1>3, <2>2, <2>3, <2>4, <2>5, <2>6 DEF OperationsKnown, generation
<1>13. OutcomesKnown'
  <2>1. \A id \in Ids : events'.op[id].kind = "disconnect" /\ events'.op[id].result = "Succeeded" =>
                          generation > events'.op[id].generation \/ gate.attemptActive = FALSE
    BY <1>0, <1>4 DEF OutcomesKnown
  <2>2. \A id \in history.revoked : /\ id <= events'.issued /\ events'.op[id].kind = "connect"
                                    /\ events'.op[id].result # "Succeeded"
                                    /\ id = gate.connectOperation => cancelled = TRUE
    BY <1>0, <1>4, OwnedIds DEF OutcomesKnown
  <2>3. \A id \in history.executed :
          /\ id <= events'.issued /\ events'.op[id].kind \in CommandKinds
          /\ events'.op[id].result \in {"Succeeded", "Failed"} \/ events'.op[id].kind = "DesktopLayout"
    BY <1>0, <1>4, OwnedIds DEF OutcomesKnown
  <2> QED
    BY <1>1, <1>3, <2>1, <2>2, <2>3 DEF OutcomesKnown, generation, cancelled
<1>14. ControlsKnown'
  BY <1>0, <1>1, <1>2, <1>3, <1>4 DEF ControlsKnown, Session, generation
<1>15. Wakes'
  <2>1. Len(gate'.commands) + worker.drained <= Len(gate.commands) + worker.drained
    BY <1>2, <1>3
  <2>2. gate.commands = <<>> => gate'.commands = <<>>
    BY <1>2
  <2>3. Len(gate.commands) + worker.drained <= CommandCapacity => Len(gate'.commands) + worker.drained <= CommandCapacity
    BY <1>2, <1>3
  <2> QED
    BY <1>0, <1>1, <1>3, <1>4, <1>7, <2>2, <2>3 DEF Wakes, Waking, Promised
<1>16. Cancels'
  BY <1>0, <1>1, <1>2, <1>3, <1>4, <1>7 DEF Cancels, Session, Promised, cancelled
<1> QED
  BY <1>5, <1>6, <1>8, <1>9, <1>10, <1>11, <1>12, <1>13, <1>14, <1>15, <1>16 DEF WorkerInv

\* An attempt is admitted: nothing of the previous one is left, and no
\* errand of a host is in its scope.
LEMMA ConnectStep ==
  ASSUME WorkerInv, NEW h \in Hosts, Connect(h)
  PROVE  WorkerInv'
<1>0. /\ Types /\ Phases /\ Resources /\ StateKnown /\ QueueKnown /\ OperationsKnown /\ OutcomesKnown
      /\ HostsKnown /\ ControlsKnown /\ Wakes /\ Cancels
      /\ gate \in Gate /\ events \in Events /\ auth \in Auth /\ worker \in Worker /\ watch \in Watch
      /\ control \in [Generations -> Control] /\ router \in 0 .. MaxGeneration
      /\ pc \in Places /\ host \in [Hosts -> HostType] /\ history \in HistoryType
  BY WorkerInvFacts
<1>1. /\ Ready(h) /\ generation < MaxGeneration /\ UNCHANGED <<auth, router, pc, history>>
  BY DEF Connect
<1>2. /\ gate.stopping \in BOOLEAN /\ gate.attemptActive \in BOOLEAN /\ gate.pendingAttempt \in BOOLEAN
      /\ gate.commandsClosed \in BOOLEAN /\ gate.finishing \in BOOLEAN /\ gate.cancelled \in BOOLEAN
      /\ events.sealed \in BOOLEAN
  BY <1>0, GateFields, EventsFields
<1>3. /\ gate.stopping = FALSE /\ gate.attemptActive = FALSE /\ events.sealed = FALSE
      /\ \A id \in Ids : events.op[id].result # "pending"
  BY <1>2 DEF Connect, ConnectAllowed, Pending
<1>4. /\ pc \in {"idle", "asleep"} /\ gate.pendingAttempt = FALSE /\ gate.connectOperation = 0 /\ gate.disconnectOperation = 0
      /\ worker.executing = 0 /\ worker.resizeOperation = 0 /\ gate.commands = <<>> /\ watch.observer = "none"
      /\ (\A kind \in Exclusive : gate.queued[kind] = 0) /\ events.state \in {"Idle", "Closed", "Failed"} /\ router = 0
      /\ auth.accepting = FALSE
  <2>1. pc \notin Running /\ pc \notin {"exit", "exited"} /\ gate.pendingAttempt = FALSE
    BY <1>0, <1>2, <1>3 DEF Phases
  <2>2. pc \in {"idle", "asleep"} /\ pc \notin Session \cup {"finish"} /\ pc \notin Live
    BY <1>0, <2>1 DEF Places, Running, Live, Session, Ending
  <2>3. gate.connectOperation = 0 /\ gate.disconnectOperation = 0
    BY <1>0, <1>3 DEF OperationsKnown
  <2>4. gate.commands = <<>> /\ \A kind \in Exclusive : gate.queued[kind] = 0
    BY <1>0, <2>2 DEF QueueKnown
  <2>5. worker.executing = 0 /\ worker.resizeOperation = 0 /\ watch.observer = "none" /\ router = 0
    BY <1>0, <2>1, <2>2 DEF Resources
  <2>6. auth.accepting = FALSE
    BY <1>0, <2>1, <2>2, SideFields DEF Resources, Running, Setup
  <2> QED
    BY <1>0, <1>3, <2>1, <2>2, <2>3, <2>4, <2>5, <2>6 DEF StateKnown
<1>5. /\ generation \in 0 .. MaxGeneration /\ generation \in Nat /\ generation + 1 \in 0 .. MaxGeneration
      /\ generation + 1 \in Generations
  BY <1>0, <1>1, GateFields, WorkerBounds DEF generation, Generations
<1>6. /\ events' \in Events /\ events'.issued = events.issued + 1 /\ events'.sealed = events.sealed
      /\ events'.state = events.state /\ events'.generation = events.generation
      /\ NextId \in Ids /\ NextId = events.issued + 1 /\ events'.op[NextId].kind = "connect"
      /\ events'.op[NextId].generation = generation + 1 /\ events'.op[NextId].result = "pending"
      /\ \A id \in Ids : id # NextId => events'.op[id] = events.op[id]
  <2>1. events \in Events /\ events.issued < MaxOperation /\ events' = Reserved(events, "connect", generation + 1)
    BY <1>0 DEF Connect, CanReserve
  <2>2. "connect" \in {"connect", "disconnect"} \cup CommandKinds /\ generation + 1 \in 0 .. MaxGeneration
    BY <1>5
  <2>3. events' \in Events
    BY <2>1, <2>2, ReservedFacts
  <2>4. events'.issued = events.issued + 1 /\ events'.sealed = events.sealed
    BY <2>1, <2>2, ReservedFacts
  <2>5. events'.state = events.state /\ events'.generation = events.generation
    BY <2>1, <2>2, ReservedFacts
  <2>6. NextId \in Ids /\ NextId = events.issued + 1
    BY <2>1, <2>2, ReservedFacts
  <2>7. events'.op[NextId].kind = "connect"
    BY <2>1, <2>2, ReservedFacts
  <2>8. events'.op[NextId].generation = generation + 1
    BY <2>1, <2>2, ReservedFacts
  <2>9. events'.op[NextId].result = "pending"
    BY <2>1, <2>2, ReservedFacts
  <2>10. \A id \in Ids : id # NextId => events'.op[id] = events.op[id]
    BY <2>1, <2>2, ReservedFacts
  <2> QED
    BY <2>3, <2>4, <2>5, <2>6, <2>7, <2>8, <2>9, <2>10
<1>7. /\ gate' \in Gate /\ gate'.stopping = gate.stopping /\ gate'.attemptActive = TRUE
      /\ gate'.pendingAttempt = TRUE /\ gate'.generation = gate.generation + 1
      /\ gate'.connectOperation = NextId /\ gate'.disconnectOperation = gate.disconnectOperation
      /\ gate'.commandsClosed = FALSE /\ gate'.finishing = FALSE /\ gate'.cancelled = FALSE
      /\ gate'.commands = gate.commands /\ gate'.queued = gate.queued
  <2>1. gate' = Admitted(gate)
    BY DEF Connect
  <2> QED
    BY ONLY <1>0, <1>1, <1>6, <2>1, AdmittedFacts
<1>8. /\ control' \in [Generations -> Control] /\ control'[generation + 1].connecting = TRUE
      /\ \A k \in Generations : control'[k].closing = control[k].closing /\ control'[k].setupCancelled = control[k].setupCancelled
  <2> DEFINE n == generation + 1
             c == [control[n] EXCEPT !.connecting = TRUE]
  <2>1. control' = [control EXCEPT ![n] = c]
    BY <1>0, <1>5 DEF Connect
  <2>2. /\ c \in Control /\ c.connecting = TRUE /\ c.closing = control[n].closing
        /\ c.setupCancelled = control[n].setupCancelled
    BY <1>0, <1>5 DEF Control
  <2> HIDE DEF c, n
  <2>3. /\ control' \in [Generations -> Control] /\ control'[n].connecting = TRUE
        /\ \A k \in Generations : control'[k].closing = control[k].closing /\ control'[k].setupCancelled = control[k].setupCancelled
    BY <1>0, <1>5, <2>1, <2>2 DEF n
  <2> QED
    BY <2>3 DEF n
<1>9. /\ watch' \in Watch /\ watch'.observer = watch.observer
  BY <1>0 DEF Connect, Watch
<1>10. /\ worker' \in Worker /\ worker'.executing = worker.executing /\ worker'.drained = worker.drained
      /\ worker'.progressed = worker.progressed /\ worker'.transport = worker.transport
      /\ worker'.ready = worker.ready /\ worker'.resizeOperation = worker.resizeOperation
      /\ worker'.resizePending = worker.resizePending /\ worker'.unanswered = worker.unanswered
  BY <1>0 DEF Connect, Worker
<1>11. /\ host' \in [Hosts -> HostType] /\ (\A k \in Hosts : k # h => host'[k] = host[k])
      /\ host'[h] = AfterConnect
  <2> DEFINE r == AfterConnect
  <2>1. r \in HostType /\ r.then # <<>>
    BY AfterWakeFacts
  <2>2. Continue(h, r)
    BY DEF Connect
  <2> HIDE DEF r
  <2>3. /\ host' \in [Hosts -> HostType] /\ (\A k \in Hosts : k # h => host'[k] = host[k]) /\ host'[h] = r
    BY ONLY <1>0, <2>1, <2>2, h \in Hosts, ContinueFacts
  <2> QED
    BY <2>3 DEF r
<1>12. /\ AfterConnect.scope = 0 /\ AfterConnect.gen = 0 /\ AfterConnect.how = "wake" /\ AfterConnect.then # <<>>
       /\ ToSet(AfterConnect.then) = {"notify"}
  BY AfterWakeFacts
<1>13. /\ \A id \in Ids : id <= events.issued => id # NextId /\ id <= events.issued + 1
       /\ \A id \in Ids : id > events.issued + 1 => id > events.issued /\ id # NextId
       /\ events.issued \in Nat /\ NextId \in Nat /\ NextId # 0 /\ NextId <= events.issued + 1
  BY <1>0, <1>6, EventsFields, Widths
<1>14. \A id \in Ids : events.op[id].generation <= generation /\ events.op[id].generation < generation + 1
  <2>1. \A id \in Ids : events.op[id].generation <= generation /\ events.op[id].generation \in 0 .. MaxGeneration
    BY <1>0, EventsFields DEF OperationsKnown
  <2> QED
    BY <1>5, <2>1
<1>15. Types'
  <2>1. Len(gate'.commands) <= CommandCapacity /\ events'.issued \in 0 .. MaxOperation
    BY <1>0, <1>6, <1>7, EventsFields, SideFields
  <2> QED
    BY <1>0, <1>1, <1>6, <1>7, <1>8, <1>9, <1>10, <1>11, <2>1 DEF Types, TypeOK
<1>16. HostsKnown'
  <2>1. HostKnown(h)'
    BY <1>1, <1>5, <1>7, <1>11, <1>12 DEF HostKnown, Enroute, generation
  <2>2. ASSUME NEW k \in Hosts, k # h
        PROVE  HostKnown(k)'
    <3>1. /\ HostKnown(k) /\ host'[k] = host[k] /\ host[k].gen \in 0 .. MaxGeneration /\ host[k].scope \in 0 .. MaxGeneration
      BY <1>0, <1>11, <2>2, HostFields DEF HostsKnown
    <3>2. host[k].gen <= generation + 1 /\ host[k].scope <= generation + 1 /\ host[k].scope # generation + 1
      BY <1>5, <3>1 DEF HostKnown
    <3> QED
      BY <1>1, <1>3, <1>7, <3>1, <3>2 DEF HostKnown, Enroute, generation
  <2> QED
    BY <2>1, <2>2 DEF HostsKnown
<1>17. Phases'
  BY <1>0, <1>1, <1>3, <1>4, <1>5, <1>7 DEF Phases, Ending, generation, cancelled
<1>18. Resources'
  BY <1>0, <1>1, <1>4, <1>9, <1>10 DEF Resources, Running, Setup, Session, Ending, Live
<1>19. StateKnown'
  <2>1. events.generation <= generation + 1 /\ events.generation < generation + 1
    BY <1>0, <1>5, EventsFields DEF StateKnown
  <2> QED
    BY <1>1, <1>3, <1>4, <1>6, <1>7, <2>1 DEF StateKnown, Running, Setup, Session, Ending, generation
<1>20. QueueKnown'
  <2>1. ToSet(gate.commands) = {}
    BY <1>4, ProgramSets
  <2> QED
    BY <1>0, <1>1, <1>4, <1>7, <1>10, <2>1 DEF QueueKnown
<1>21. OperationsKnown'
  <2>1. ASSUME NEW id \in Ids
        PROVE  /\ id > events'.issued => events'.op[id].result = "none"
               /\ events'.op[id].generation <= gate'.generation
               /\ events'.op[id].result = "pending" => id \in Owned' /\ events'.sealed = FALSE
    <3>1. CASE id = NextId
      BY <1>3, <1>5, <1>6, <1>7, <1>13, <3>1 DEF Owned, generation
    <3>2. CASE id # NextId
      <4>1. events'.op[id] = events.op[id]
        BY <1>6, <3>2
      <4>2. events.op[id].generation <= generation + 1 /\ events.op[id].result # "pending"
        BY <1>0, <1>3, <1>5, <1>14, EventsFields
      <4> QED
        BY <1>0, <1>6, <1>7, <1>13, <4>1, <4>2 DEF OperationsKnown, generation
    <3> QED
      BY <3>1, <3>2
  <2> QED
    BY <1>1, <1>4, <1>6, <1>7, <1>10, <1>13, <2>1 DEF OperationsKnown, generation
<1>22. OutcomesKnown'
  <2>1. \A id \in Ids : events'.op[id].kind = "disconnect" => generation + 1 > events'.op[id].generation
    <3> TAKE id \in Ids
    <3>1. CASE id = NextId
      BY <1>6, <3>1
    <3>2. CASE id # NextId
      BY <1>5, <1>6, <1>14, <3>2, EventsFields, <1>0
    <3> QED
      BY <3>1, <3>2
  <2>2. \A id \in history.revoked \cup history.executed : id # NextId /\ id <= events'.issued /\ events'.op[id] = events.op[id]
    BY <1>0, <1>6, <1>13, OwnedIds DEF OutcomesKnown
  <2> QED
    BY <1>0, <1>1, <1>7, <2>1, <2>2 DEF OutcomesKnown, generation, cancelled
<1>23. ControlsKnown'
  <2>1. generation + 1 > generation /\ \A k \in Generations : k > generation + 1 => k > generation
    BY <1>5 DEF Generations
  <2> QED
    BY <1>0, <1>1, <1>4, <1>5, <1>7, <1>8, <2>1, ControlFields DEF ControlsKnown, Session, generation
<1>24. Wakes'
  <2>1. Notified'
    BY <1>11, <1>12 DEF Notified, Enroute
  <2> QED
    BY <1>0, <1>1, <1>4, <1>10, <2>1 DEF Wakes, Waking
<1>25. Cancels'
  BY <1>1, <1>4, <1>7 DEF Cancels, cancelled
<1> QED
  BY <1>15, <1>16, <1>17, <1>18, <1>19, <1>20, <1>21, <1>22, <1>23, <1>24, <1>25 DEF WorkerInv

\* A call that closes the attempt: the queue is settled, perhaps a disconnect is reserved.
ClosingGate ==
  /\ gate.finishing = FALSE
  /\ gate' \in Gate /\ SameAttempt(gate, gate') /\ gate'.finishing = FALSE /\ gate'.commandsClosed = TRUE
  /\ gate'.cancelled = TRUE /\ gate'.commands = <<>> /\ gate'.queued = NoSlots
  /\ gate.stopping = TRUE => gate'.stopping = TRUE
SettledAs(id) ==
  /\ events'.op[id].kind = events.op[id].kind /\ events'.op[id].generation = events.op[id].generation
  /\ events'.op[id].result = IF id \in ToSet(gate.commands) /\ events.op[id].result = "pending" THEN "Cancelled"
                             ELSE events.op[id].result
ClosingEvents ==
  /\ events' \in Events /\ events'.sealed = events.sealed /\ events'.state = events.state
  /\ events'.generation = events.generation
  /\ \/ /\ gate'.disconnectOperation = gate.disconnectOperation /\ events'.issued = events.issued
        /\ \A id \in Ids : SettledAs(id)
     \/ /\ gate.attemptActive = TRUE /\ events.sealed = FALSE /\ gate.disconnectOperation = 0
        /\ gate'.disconnectOperation = NextId /\ events'.issued = NextId /\ NextId \in Ids
        /\ events'.op[NextId].kind = "disconnect" /\ events'.op[NextId].generation = generation
        /\ events'.op[NextId].result = "pending"
        /\ \A id \in Ids : id # NextId => SettledAs(id)
ClosingHost(h) ==
  /\ Ready(h) /\ host' \in [Hosts -> HostType] /\ (\A k \in Hosts : k # h => host'[k] = host[k])
  /\ host'[h].then # <<>> /\ host'[h].how = "wake" /\ host'[h].scope \in {0, generation}
  /\ host'[h].scope = 0 => gate'.stopping = TRUE
  /\ Enroute(h, "auth")' /\ (Enroute(h, "deliver")' <=> Enroute(h, "request")') /\ (Enroute(h, "request")' <=> gate.attemptActive = TRUE)
  /\ host'[h].gen = IF gate.attemptActive = TRUE THEN generation ELSE 0
  /\ gate.stopping = FALSE /\ gate'.stopping = TRUE => Enroute(h, "notify")'
ClosingHistory ==
  /\ history' \in HistoryType /\ history'.executed = history.executed /\ history'.closed = history.closed \cup {generation}
  /\ \A id \in history'.revoked :
       id \in history.revoked \/ (id = gate.connectOperation /\ events.op[id].result = "pending")

\* A closing call keeps the invariant: wherever the worker is, its own
\* errand reaches it.
LEMMA CloseStep ==
  ASSUME WorkerInv, NEW h \in Hosts, ClosingGate, ClosingEvents, ClosingHost(h), ClosingHistory,
         UNCHANGED <<auth, control, router, pc, worker, watch>>
  PROVE  WorkerInv'
<1>0. /\ Types /\ Phases /\ Resources /\ StateKnown /\ QueueKnown /\ OperationsKnown /\ OutcomesKnown
      /\ HostsKnown /\ ControlsKnown /\ Wakes /\ Cancels
      /\ gate \in Gate /\ events \in Events /\ auth \in Auth /\ worker \in Worker /\ watch \in Watch
      /\ control \in [Generations -> Control] /\ router \in 0 .. MaxGeneration
      /\ pc \in Places /\ host \in [Hosts -> HostType] /\ history \in HistoryType
  BY WorkerInvFacts
<1>1. UNCHANGED <<auth, control, router, pc, worker, watch>>
  OBVIOUS
<1>2. /\ gate.finishing = FALSE /\ gate' \in Gate /\ SameAttempt(gate, gate') /\ gate'.finishing = FALSE
      /\ gate'.commandsClosed = TRUE /\ gate'.cancelled = TRUE /\ gate'.commands = <<>> /\ gate'.queued = NoSlots
      /\ gate.stopping = TRUE => gate'.stopping = TRUE
  BY DEF ClosingGate
<1>3. ClosingEvents
  OBVIOUS
<1>4. /\ Ready(h) /\ host' \in [Hosts -> HostType] /\ (\A k \in Hosts : k # h => host'[k] = host[k])
      /\ host'[h].then # <<>> /\ host'[h].how = "wake" /\ host'[h].scope \in {0, generation}
      /\ host'[h].scope = 0 => gate'.stopping = TRUE
      /\ Enroute(h, "auth")' /\ (Enroute(h, "deliver")' <=> Enroute(h, "request")') /\ (Enroute(h, "request")' <=> gate.attemptActive = TRUE)
      /\ host'[h].gen = IF gate.attemptActive = TRUE THEN generation ELSE 0
      /\ gate.stopping = FALSE /\ gate'.stopping = TRUE => Enroute(h, "notify")'
  BY DEF ClosingHost
<1>5. /\ history' \in HistoryType /\ history'.executed = history.executed /\ history'.closed = history.closed \cup {generation}
      /\ \A id \in history'.revoked :
           id \in history.revoked \/ (id = gate.connectOperation /\ events.op[id].result = "pending")
  BY DEF ClosingHistory
<1>6. /\ NextId = events.issued + 1 /\ events.issued \in Nat /\ events'.issued \in Nat /\ events.issued <= events'.issued
      /\ \A id \in Ids : id <= events.issued => SettledAs(id) /\ id <= events'.issued
      /\ \A id \in Ids : id > events'.issued => id > events.issued
      /\ NextId <= NextId /\ ~(NextId > NextId)
  <2>1. NextId = events.issued + 1 /\ events.issued \in Nat /\ events'.issued \in Nat
    BY <1>0, <1>3, EventsFields, WorkerBounds DEF NextId, ClosingEvents
  <2>2. events'.issued = events.issued \/ events'.issued = events.issued + 1
    BY <2>1, <1>3 DEF ClosingEvents
  <2>3. events.issued <= events'.issued
    BY <2>1, <2>2
  <2>4. \A id \in Ids : id <= events.issued => SettledAs(id)
    BY <1>3, <2>1, Widths DEF ClosingEvents
  <2> QED
    BY <2>1, <2>2, <2>3, <2>4, Widths
<1>7. /\ generation \in 0 .. MaxGeneration /\ generation \in Nat /\ 0 \in 0 .. MaxGeneration
      /\ gate.attemptActive \in BOOLEAN /\ gate.stopping \in BOOLEAN /\ generation <= generation /\ 0 <= generation
      /\ gate.attemptActive = TRUE => generation >= 1
  BY <1>0, GateFields, WorkerBounds DEF generation, Phases
<1>8. Types'
  <2>1. Len(gate'.commands) <= CommandCapacity
    <3>1. Len(<<>>) = 0
      OBVIOUS
    <3> QED
      BY <1>2, <3>1, WorkerBounds
  <2> QED
    BY <1>0, <1>1, <1>2, <1>3, <1>4, <1>5, <2>1, EventsFields DEF Types, TypeOK, ClosingEvents
<1>9. HostsKnown'
  <2>1. HostKnown(h)'
    BY <1>2, <1>4, <1>5, <1>7 DEF HostKnown, SameAttempt, generation, cancelled
  <2>2. \A k \in Hosts : k # h => HostKnown(k)'
    BY <1>0, <1>2, <1>4, <1>5, HostStays DEF HostsKnown, Keeps, cancelled, SameAttempt
  <2> QED
    BY <2>1, <2>2 DEF HostsKnown
<1>10. Promised
  BY <1>1, <1>2, <1>4, SignalsAdded DEF ControlStays, generation, SameAttempt
<1>11. Phases'
  BY <1>0, <1>1, <1>2, <1>3 DEF Phases, generation, cancelled, SameAttempt, ClosingEvents
<1>12. Resources'
  BY <1>0, <1>1, <1>2 DEF Resources, generation, SameAttempt
<1>13. StateKnown'
  BY <1>0, <1>1, <1>2, <1>3 DEF StateKnown, generation, SameAttempt, ClosingEvents
<1>14. QueueKnown'
  <2>1. ToSet(gate'.commands) = {} /\ Distinct(gate'.commands)
    <3>1. Len(<<>>) = 0
      OBVIOUS
    <3> QED
      BY <1>2, <3>1, ProgramSets DEF Distinct
  <2> QED
    BY <1>1, <1>2, <2>1, NoSlotsFacts DEF QueueKnown
<1>15. OperationsKnown'
  <2>1. \A id \in Ids : id \in Owned /\ id \notin ToSet(gate.commands) /\ id # gate.disconnectOperation => id \in Owned'
    BY <1>1, <1>2 DEF Owned, SameAttempt
  <2>2. \A id \in Ids : SettledAs(id) /\ events'.op[id].result = "pending" =>
          events.op[id].result = "pending" /\ id \notin ToSet(gate.commands)
    BY DEF SettledAs
  <2>3. gate.disconnectOperation # 0 => gate'.disconnectOperation = gate.disconnectOperation
    BY <1>3 DEF ClosingEvents
  <2>4. gate'.disconnectOperation # 0 => gate'.disconnectOperation \in Owned'
    BY DEF Owned
  <2>5. ASSUME NEW id \in Ids, SettledAs(id)
        PROVE  /\ id > events'.issued => events'.op[id].result = "none"
               /\ events'.op[id].generation <= gate'.generation
               /\ events'.op[id].result = "pending" => id \in Owned' /\ events'.sealed = FALSE
    <3>1. id > events'.issued => id > events.issued
      BY <1>6
    <3>2. id > events'.issued => events'.op[id].result = "none"
      BY <1>0, <3>1, <2>5 DEF OperationsKnown, SettledAs
    <3>3. events'.op[id].generation <= gate'.generation
      BY <1>0, <1>2, <2>5 DEF OperationsKnown, SettledAs, SameAttempt, generation
    <3>4. ASSUME events'.op[id].result = "pending"
          PROVE  id \in Owned' /\ events'.sealed = FALSE
      <4>1. events.op[id].result = "pending" /\ id \notin ToSet(gate.commands)
        BY <2>2, <2>5, <3>4
      <4>2. id \in Owned /\ events.sealed = FALSE
        BY <1>0, <4>1 DEF OperationsKnown
      <4>3. id = gate.disconnectOperation => id \in Owned'
        BY <2>3, <2>4, OwnedIds, <1>0
      <4> QED
        BY <1>3, <2>1, <4>1, <4>2, <4>3 DEF ClosingEvents
    <3> QED
      BY <3>2, <3>3, <3>4
  <2>6. ASSUME NEW id \in Ids, id = NextId, gate'.disconnectOperation = NextId, events'.op[NextId].result = "pending",
               events'.issued = NextId, events.sealed = FALSE, events'.op[NextId].generation = generation
        PROVE  /\ id > events'.issued => events'.op[id].result = "none"
               /\ events'.op[id].generation <= gate'.generation
               /\ events'.op[id].result = "pending" => id \in Owned' /\ events'.sealed = FALSE
    BY <1>2, <1>3, <1>6, <1>7, <2>4, <2>6 DEF ClosingEvents, SameAttempt, generation
  <2>7. \A id \in Ids : /\ id > events'.issued => events'.op[id].result = "none"
                        /\ events'.op[id].generation <= gate'.generation
                        /\ events'.op[id].result = "pending" => id \in Owned' /\ events'.sealed = FALSE
    BY <1>3, <2>5, <2>6 DEF ClosingEvents
  <2>8. gate.connectOperation # 0 =>
          /\ gate.attemptActive = TRUE /\ gate.connectOperation <= events'.issued
          /\ events'.op[gate.connectOperation].kind = "connect"
    BY <1>0, <1>6, OwnedIds DEF OperationsKnown, SettledAs
  <2>9. gate'.disconnectOperation # 0 =>
          /\ gate.attemptActive = TRUE /\ gate'.disconnectOperation <= events'.issued
          /\ events'.op[gate'.disconnectOperation].kind = "disconnect"
    <3>1. CASE gate'.disconnectOperation = gate.disconnectOperation
      BY <1>0, <1>6, <3>1, OwnedIds DEF OperationsKnown, SettledAs
    <3>2. CASE gate'.disconnectOperation # gate.disconnectOperation
      BY <1>3, <1>6, <3>2 DEF ClosingEvents
    <3> QED
      BY <3>1, <3>2
  <2>10. worker.executing # 0 =>
          /\ worker.executing <= events'.issued /\ events'.op[worker.executing].kind \in CommandKinds
          /\ events'.op[worker.executing].result \in {"pending", "Failed"}
    BY <1>0, <1>6, OwnedIds DEF OperationsKnown, SettledAs, QueueKnown
  <2>11. worker.resizeOperation # 0 =>
          /\ worker.resizeOperation <= events'.issued
          /\ events'.op[worker.resizeOperation].kind = "DesktopLayout"
    BY <1>0, <1>6, OwnedIds DEF OperationsKnown, SettledAs
  <2> QED
    BY <1>1, <1>2, <2>7, <2>8, <2>9, <2>10, <2>11 DEF OperationsKnown, SameAttempt, generation
<1>16. OutcomesKnown'
  <2>1. \A id \in Ids : events'.op[id].kind = "disconnect" /\ events'.op[id].result = "Succeeded" =>
                          generation > events'.op[id].generation \/ gate.attemptActive = FALSE
    <3>1. \A id \in Ids : SettledAs(id) => (events'.op[id].kind = "disconnect" /\ events'.op[id].result = "Succeeded" =>
                          generation > events'.op[id].generation \/ gate.attemptActive = FALSE)
      BY <1>0 DEF OutcomesKnown, SettledAs
    <3> QED
      BY <1>3, <3>1 DEF ClosingEvents
  <2>2. \A id \in history'.revoked : /\ id <= events'.issued /\ events'.op[id].kind = "connect"
                                     /\ events'.op[id].result # "Succeeded"
    <3>1. \A id \in history'.revoked : id \in Ids /\ id # 0
      BY <1>5, OwnedIds, <1>0 DEF HistoryType
    <3>2. \A id \in history'.revoked : id <= events.issued /\ events.op[id].kind = "connect" /\ events.op[id].result # "Succeeded"
      BY <1>0, <1>5, <3>1 DEF OutcomesKnown, OperationsKnown
    <3> QED
      BY <1>6, <3>1, <3>2 DEF SettledAs
  <2>3. \A id \in history.executed :
          /\ id <= events'.issued /\ events'.op[id].kind \in CommandKinds
          /\ events'.op[id].result \in {"Succeeded", "Failed"} \/ events'.op[id].kind = "DesktopLayout"
    BY <1>0, <1>6, OwnedIds DEF OutcomesKnown, SettledAs
  <2> QED
    BY <1>1, <1>2, <1>5, <2>1, <2>2, <2>3 DEF OutcomesKnown, generation, cancelled, SameAttempt
<1>17. ControlsKnown'
  BY <1>0, <1>1, <1>2, <1>5 DEF ControlsKnown, generation, SameAttempt
<1>18. Wakes'
  <2>1. Len(gate'.commands) + worker.drained <= CommandCapacity
    <3>1. Len(<<>>) = 0
      OBVIOUS
    <3> QED
      BY <1>0, <1>2, <3>1, WorkerFields, WorkerBounds
  <2>2. gate.stopping = FALSE /\ gate'.stopping = TRUE => Notified'
    BY <1>4 DEF Notified
  <2>3. pc = "asleep" /\ (gate'.pendingAttempt = TRUE \/ gate'.stopping = TRUE \/ events'.sealed = TRUE) => Notified'
    BY <1>0, <1>2, <1>3, <1>7, <2>2, <1>10 DEF Wakes, Promised, SameAttempt, ClosingEvents
  <2> QED
    BY <1>0, <1>1, <1>2, <2>1, <2>3 DEF Wakes, Waking
<1>19. Cancels'
  <2>1. pc \in Session => PromptTold'
    BY <1>0, <1>1, <1>4 DEF PromptTold, InScope, Resources
  <2>2. pc \in {"connecting", "wait"} => gate.attemptActive = TRUE
    BY <1>0 DEF Phases, Running, Setup, Session
  <2>3. pc \in {"connecting", "wait"} => SetupTold' /\ WaitTold'
    BY <1>2, <1>4, <2>2 DEF SetupTold, WaitTold, Signalling, SameAttempt, generation
  <2> QED
    BY <1>0, <1>1, <1>2, <2>1, <2>3 DEF Cancels, Session, cancelled
<1> QED
  BY <1>8, <1>9, <1>11, <1>12, <1>13, <1>14, <1>15, <1>16, <1>17, <1>18, <1>19 DEF WorkerInv

\* The errands of disconnect(), cancelCommand() and cancel().
LEMMA CloseFacts ==
  ASSUME NEW g \in 0 .. MaxGeneration
  PROVE  /\ AfterClose(g) \in HostType /\ AfterClose(g).then # <<>>
         /\ ToSet(AfterClose(g).then) = {"auth", "request", "deliver"}
         /\ AfterClose(g).scope = g /\ AfterClose(g).gen = g /\ AfterClose(g).how = "wake"
         /\ AfterCancel(g) \in HostType /\ AfterCancel(g).then # <<>>
         /\ ToSet(AfterCancel(g).then) = IF g = 0 THEN {"auth", "notify"} ELSE {"auth", "request", "deliver", "notify"}
         /\ AfterCancel(g).scope = 0 /\ AfterCancel(g).gen = g /\ AfterCancel(g).how = "wake"
<1>1. /\ <<"auth", "request", "deliver">> # <<>> /\ <<"auth", "notify">> # <<>>
      /\ <<"auth", "request", "deliver", "notify">> # <<>>
  OBVIOUS
<1>2. /\ AfterClose(g) \in HostType /\ AfterClose(g).then = <<"auth", "request", "deliver">>
      /\ AfterClose(g).scope = g /\ AfterClose(g).gen = g /\ AfterClose(g).how = "wake"
  BY AfterFacts
<1>3. /\ AfterCancel(g) \in HostType /\ AfterCancel(g).scope = 0 /\ AfterCancel(g).gen = g /\ AfterCancel(g).how = "wake"
      /\ g = 0 => AfterCancel(g).then = <<"auth", "notify">>
      /\ g # 0 => AfterCancel(g).then = <<"auth", "request", "deliver", "notify">>
  BY AfterFacts
<1> QED
  BY <1>1, <1>2, <1>3, ProgramSets

\* finishQueued() without a new operation.
LEMMA QueueSettledFacts ==
  ASSUME events \in Events, events' = QueueFinished(events, "Cancelled")
  PROVE  /\ events' \in Events /\ events'.sealed = events.sealed /\ events'.state = events.state
         /\ events'.generation = events.generation /\ events'.issued = events.issued /\ \A id \in Ids : SettledAs(id)
<1>1. events' = Completed(events, ToSet(gate.commands), "Cancelled") /\ "Cancelled" \in Results
  BY DEF QueueFinished, Results
<1>2. /\ events' \in Events /\ events'.issued = events.issued /\ events'.sealed = events.sealed
      /\ events'.state = events.state /\ events'.generation = events.generation
      /\ \A id \in Ids :
           /\ events'.op[id].kind = events.op[id].kind /\ events'.op[id].generation = events.op[id].generation
           /\ events'.op[id].result = IF id \in ToSet(gate.commands) /\ events.op[id].result = "pending" THEN "Cancelled"
                                      ELSE events.op[id].result
  BY ONLY events \in Events, <1>1, CompletedFacts
<1> QED
  BY <1>2 DEF SettledAs

\* The connect in progress is cancelled.
LEMMA CancelConnectStep ==
  ASSUME WorkerInv, NEW h \in Hosts, NEW g \in Generations, NEW o \in Ids, CancelConnect(h, g, o)
  PROVE  WorkerInv'
<1>0. /\ Types /\ gate \in Gate /\ events \in Events /\ host \in [Hosts -> HostType] /\ history \in HistoryType /\ Phases
  BY WorkerInvFacts
<1>1. /\ Ready(h) /\ gate.attemptActive = TRUE /\ g = generation /\ o = gate.connectOperation /\ gate.finishing = FALSE
      /\ events.op[o].result = "pending" /\ UNCHANGED <<auth, control, router, pc, worker, watch>>
      /\ g \in 0 .. MaxGeneration /\ generation # 0
  BY <1>0, GateFields, WorkerBounds DEF CancelConnect, Pending, Generations
<1>2. ClosingGate /\ gate'.disconnectOperation = gate.disconnectOperation /\ gate'.stopping = gate.stopping
  <2>1. gate' = Closed(gate)
    BY DEF CancelConnect
  <2>2. /\ gate' \in Gate /\ SameAttempt(gate, gate') /\ gate'.disconnectOperation = gate.disconnectOperation
        /\ gate'.stopping = gate.stopping /\ gate'.commandsClosed = TRUE /\ gate'.finishing = gate.finishing
        /\ gate'.cancelled = TRUE /\ gate'.commands = <<>> /\ gate'.queued = NoSlots
    BY ONLY <1>0, <2>1, ClosedFacts
  <2> QED
    BY <1>1, <2>2 DEF ClosingGate
<1>3. ClosingEvents
  <2>1. events' = QueueFinished(events, "Cancelled")
    BY DEF CancelConnect
  <2> QED
    BY <1>0, <1>2, <2>1, QueueSettledFacts DEF ClosingEvents
<1>4. ClosingHost(h)
  <2> DEFINE r == AfterClose(g)
  <2>1. /\ r \in HostType /\ r.then # <<>> /\ ToSet(r.then) = {"auth", "request", "deliver"}
        /\ r.scope = g /\ r.gen = g /\ r.how = "wake"
    BY <1>1, CloseFacts
  <2>2. Continue(h, r)
    BY DEF CancelConnect
  <2> HIDE DEF r
  <2>3. /\ host' \in [Hosts -> HostType] /\ (\A k \in Hosts : k # h => host'[k] = host[k]) /\ host'[h] = r
    BY ONLY <1>0, <2>1, <2>2, h \in Hosts, ContinueFacts
  <2>4. gate.stopping = FALSE => gate'.stopping # TRUE
    BY <1>2
  <2> QED
    BY <1>1, <1>2, <2>1, <2>3, <2>4 DEF ClosingHost, Enroute
<1>5. ClosingHistory
  <2> DEFINE c == history.closed \cup {generation}
             v == history.revoked \cup {o}
  <2>1. c \in SUBSET (0 .. MaxGeneration) /\ v \in SUBSET Ids
    BY <1>0, <1>1, SideFields
  <2>2. history' = [history EXCEPT !.closed = c, !.revoked = v]
    BY DEF CancelConnect
  <2> HIDE DEF c, v
  <2>3. history' \in HistoryType /\ history'.executed = history.executed /\ history'.closed = c /\ history'.revoked = v
    BY <1>0, <2>1, <2>2 DEF HistoryType
  <2> QED
    BY <1>1, <2>3 DEF ClosingHistory, c, v
<1> QED
  BY <1>1, <1>2, <1>3, <1>4, <1>5, CloseStep

\* A disconnect is reserved.
LEMMA DisconnectStep ==
  ASSUME WorkerInv, NEW h \in Hosts, NEW g \in Generations, Disconnect(h, g)
  PROVE  WorkerInv'
<1>0. /\ Types /\ gate \in Gate /\ events \in Events /\ host \in [Hosts -> HostType] /\ history \in HistoryType
      /\ Phases /\ OperationsKnown /\ QueueKnown
  BY WorkerInvFacts
<1>1. /\ Ready(h) /\ gate.attemptActive = TRUE /\ g = generation /\ gate.finishing = FALSE /\ gate.cancelled = FALSE
      /\ events.sealed = FALSE /\ UNCHANGED <<auth, control, router, pc, worker, watch>>
      /\ g \in 0 .. MaxGeneration /\ generation # 0
  BY <1>0, GateFields, EventsFields, WorkerBounds DEF Disconnect, DisconnectAllowed, Generations, cancelled
<1>2. gate.disconnectOperation = 0
  BY <1>0, <1>1 DEF OperationsKnown
<1> DEFINE e == Reserved(events, "disconnect", g)
<1>3. events' = QueueFinished(e, "Cancelled") /\ e = Reserved(events, "disconnect", g) /\ events.issued < MaxOperation
  BY DEF Disconnect, CanReserve
<1> HIDE DEF e
<1>4. e \in Events
  BY <1>0, <1>1, <1>3, ReservedFacts
<1>5. e.issued = events.issued + 1 /\ e.sealed = events.sealed
  BY <1>0, <1>1, <1>3, ReservedFacts
<1>6. e.state = events.state /\ e.generation = events.generation
  BY <1>0, <1>1, <1>3, ReservedFacts
<1>7. NextId \in Ids /\ NextId = events.issued + 1
  BY <1>0, <1>1, <1>3, ReservedFacts
<1>8. e.op[NextId].kind = "disconnect"
  BY <1>0, <1>1, <1>3, ReservedFacts
<1>9. e.op[NextId].generation = g
  BY <1>0, <1>1, <1>3, ReservedFacts
<1>10. e.op[NextId].result = "pending"
  BY <1>0, <1>1, <1>3, ReservedFacts
<1>11. \A id \in Ids : id # NextId => e.op[id] = events.op[id]
  BY <1>0, <1>1, <1>3, ReservedFacts
<1>12. /\ events' \in Events /\ events'.issued = e.issued /\ events'.sealed = e.sealed
       /\ events'.state = e.state /\ events'.generation = e.generation
       /\ \A id \in Ids :
            /\ events'.op[id].kind = e.op[id].kind /\ events'.op[id].generation = e.op[id].generation
            /\ events'.op[id].result = IF id \in ToSet(gate.commands) /\ e.op[id].result = "pending" THEN "Cancelled"
                                       ELSE e.op[id].result
  <2>1. events' = Completed(e, ToSet(gate.commands), "Cancelled") /\ "Cancelled" \in Results
    BY <1>3 DEF QueueFinished, Results
  <2> QED
    BY ONLY <1>4, <2>1, CompletedFacts
<1>13. NextId \notin ToSet(gate.commands)
  <2>1. events.issued \in Nat
    BY <1>0, EventsFields, WorkerBounds
  <2>2. ~(NextId <= events.issued)
    BY <1>7, <2>1
  <2> QED
    BY <1>0, <2>2 DEF QueueKnown
<1>14. ClosingGate /\ gate'.disconnectOperation = NextId /\ gate'.stopping = gate.stopping
  <2> DEFINE d == Closed(gate)
             n == NextId
  <2>1. gate' = [d EXCEPT !.disconnectOperation = n] /\ d = Closed(gate) /\ n \in 0 .. MaxOperation
    BY <1>7, Widths DEF Disconnect
  <2> HIDE DEF d, n
  <2>2. /\ d \in Gate /\ SameAttempt(gate, d)
        /\ d.stopping = gate.stopping /\ d.commandsClosed = TRUE /\ d.finishing = gate.finishing
        /\ d.cancelled = TRUE /\ d.commands = <<>> /\ d.queued = NoSlots
    BY ONLY <1>0, <2>1, ClosedFacts
  <2>3. /\ gate' \in Gate /\ SameAttempt(d, gate') /\ gate'.disconnectOperation = n
        /\ gate'.stopping = d.stopping /\ gate'.commandsClosed = d.commandsClosed /\ gate'.finishing = d.finishing
        /\ gate'.cancelled = d.cancelled /\ gate'.commands = d.commands /\ gate'.queued = d.queued
    BY <2>1, <2>2 DEF Gate, SameAttempt
  <2> QED
    BY <1>1, <2>2, <2>3 DEF ClosingGate, SameAttempt, n
<1>15. ClosingEvents
  <2>1. \A id \in Ids : id # NextId => SettledAs(id)
    BY <1>11, <1>12 DEF SettledAs
  <2>2. events'.op[NextId].kind = "disconnect" /\ events'.op[NextId].generation = generation
        /\ events'.op[NextId].result = "pending"
    BY <1>1, <1>7, <1>8, <1>9, <1>10, <1>12, <1>13
  <2> QED
    BY <1>1, <1>2, <1>5, <1>6, <1>7, <1>12, <1>14, <2>1, <2>2 DEF ClosingEvents
<1>16. ClosingHost(h)
  <2> DEFINE r == AfterClose(g)
  <2>1. /\ r \in HostType /\ r.then # <<>> /\ ToSet(r.then) = {"auth", "request", "deliver"}
        /\ r.scope = g /\ r.gen = g /\ r.how = "wake"
    BY <1>1, CloseFacts
  <2>2. Continue(h, r)
    BY DEF Disconnect
  <2> HIDE DEF r
  <2>3. /\ host' \in [Hosts -> HostType] /\ (\A k \in Hosts : k # h => host'[k] = host[k]) /\ host'[h] = r
    BY ONLY <1>0, <2>1, <2>2, h \in Hosts, ContinueFacts
  <2>4. gate.stopping = FALSE => gate'.stopping # TRUE
    BY <1>14
  <2> QED
    BY <1>1, <1>14, <2>1, <2>3, <2>4 DEF ClosingHost, Enroute
<1>17. ClosingHistory
  <2> DEFINE c == history.closed \cup {generation}
  <2>1. c \in SUBSET (0 .. MaxGeneration)
    BY <1>0, <1>1, SideFields
  <2>2. history' = [history EXCEPT !.closed = c]
    BY DEF Disconnect, RecordClosed
  <2> HIDE DEF c
  <2>3. history' \in HistoryType /\ history'.executed = history.executed /\ history'.closed = c
        /\ history'.revoked = history.revoked
    BY <1>0, <2>1, <2>2 DEF HistoryType
  <2> QED
    BY <1>1, <2>3 DEF ClosingHistory, c
<1> QED
  BY <1>1, <1>14, <1>15, <1>16, <1>17, CloseStep

\* The session is closed before the terminal boundary.
LEMMA CancelStep ==
  ASSUME WorkerInv, NEW h \in Hosts, Cancel(h), gate.finishing = FALSE
  PROVE  WorkerInv'
<1>0. /\ Types /\ gate \in Gate /\ events \in Events /\ host \in [Hosts -> HostType] /\ history \in HistoryType /\ Phases
  BY WorkerInvFacts
<1> DEFINE g == IF gate.attemptActive THEN generation ELSE 0
<1>1. /\ Ready(h) /\ UNCHANGED <<auth, control, router, pc, worker, watch>>
      /\ gate' = [Closed(gate) EXCEPT !.stopping = TRUE] /\ events' = QueueFinished(events, "Cancelled")
      /\ RecordClosed /\ Continue(h, AfterCancel(g))
  BY DEF Cancel
<1>2. /\ gate.attemptActive \in BOOLEAN /\ g \in 0 .. MaxGeneration /\ generation \in 0 .. MaxGeneration
      /\ gate.attemptActive = TRUE => g = generation /\ g # 0
      /\ gate.attemptActive = FALSE => g = 0
  BY <1>0, GateFields, WorkerBounds DEF Phases, generation
<1> HIDE DEF g
<1>3. ClosingGate /\ gate'.disconnectOperation = gate.disconnectOperation /\ gate'.stopping = TRUE
  <2> DEFINE d == Closed(gate)
  <2>1. gate' = [d EXCEPT !.stopping = TRUE] /\ d = Closed(gate)
    BY <1>1
  <2> HIDE DEF d
  <2>2. /\ d \in Gate /\ SameAttempt(gate, d) /\ d.disconnectOperation = gate.disconnectOperation
        /\ d.commandsClosed = TRUE /\ d.finishing = gate.finishing
        /\ d.cancelled = TRUE /\ d.commands = <<>> /\ d.queued = NoSlots
    BY ONLY <1>0, <2>1, ClosedFacts
  <2>3. /\ gate' \in Gate /\ SameAttempt(d, gate') /\ gate'.disconnectOperation = d.disconnectOperation
        /\ gate'.stopping = TRUE /\ gate'.commandsClosed = d.commandsClosed /\ gate'.finishing = d.finishing
        /\ gate'.cancelled = d.cancelled /\ gate'.commands = d.commands /\ gate'.queued = d.queued
    BY <2>1, <2>2 DEF Gate, SameAttempt
  <2> QED
    BY <2>2, <2>3 DEF ClosingGate, SameAttempt
<1>4. ClosingEvents
  BY <1>0, <1>1, <1>3, QueueSettledFacts DEF ClosingEvents
<1>5. ClosingHost(h)
  <2> DEFINE r == AfterCancel(g)
  <2>1. /\ r \in HostType /\ r.then # <<>> /\ r.scope = 0 /\ r.gen = g /\ r.how = "wake"
        /\ g = 0 => ToSet(r.then) = {"auth", "notify"}
        /\ g # 0 => ToSet(r.then) = {"auth", "request", "deliver", "notify"}
    BY <1>2, CloseFacts
  <2>2. Continue(h, r)
    BY <1>1
  <2> HIDE DEF r
  <2>3. /\ host' \in [Hosts -> HostType] /\ (\A k \in Hosts : k # h => host'[k] = host[k]) /\ host'[h] = r
    BY ONLY <1>0, <2>1, <2>2, h \in Hosts, ContinueFacts
  <2> QED
    BY <1>1, <1>2, <1>3, <2>1, <2>3 DEF ClosingHost, Enroute
<1>6. ClosingHistory
  <2> DEFINE c == history.closed \cup {generation}
  <2>1. c \in SUBSET (0 .. MaxGeneration)
    BY <1>0, <1>2, SideFields
  <2>2. history' = [history EXCEPT !.closed = c]
    BY <1>1 DEF RecordClosed
  <2> HIDE DEF c
  <2>3. history' \in HistoryType /\ history'.executed = history.executed /\ history'.closed = c
        /\ history'.revoked = history.revoked
    BY <1>0, <2>1, <2>2 DEF HistoryType
  <2> QED
    BY <2>3 DEF ClosingHistory, c
<1> QED
  BY <1>1, <1>3, <1>4, <1>5, <1>6, CloseStep

\* After the terminal boundary a close only stops the session.
LEMMA CancelLate ==
  ASSUME WorkerInv, NEW h \in Hosts, Cancel(h), gate.finishing = TRUE
  PROVE  WorkerInv'
<1>0. /\ Types /\ Phases /\ Resources /\ StateKnown /\ QueueKnown /\ OperationsKnown /\ OutcomesKnown
      /\ HostsKnown /\ ControlsKnown /\ Wakes /\ Cancels
      /\ gate \in Gate /\ events \in Events /\ auth \in Auth /\ worker \in Worker /\ watch \in Watch
      /\ control \in [Generations -> Control] /\ router \in 0 .. MaxGeneration
      /\ pc \in Places /\ host \in [Hosts -> HostType] /\ history \in HistoryType
  BY WorkerInvFacts
<1>1. /\ Ready(h) /\ UNCHANGED <<events, auth, control, router, pc, worker, watch, history>>
  BY DEF Cancel
<1>2. /\ gate' \in Gate /\ gate'.stopping = TRUE /\ gate'.attemptActive = gate.attemptActive
      /\ gate'.pendingAttempt = gate.pendingAttempt /\ gate'.generation = gate.generation
      /\ gate'.connectOperation = gate.connectOperation /\ gate'.disconnectOperation = gate.disconnectOperation
      /\ gate'.commandsClosed = gate.commandsClosed /\ gate'.finishing = gate.finishing
      /\ gate'.cancelled = gate.cancelled /\ gate'.commands = gate.commands /\ gate'.queued = gate.queued
  BY <1>0 DEF Cancel, Gate
<1>3. 0 \in 0 .. MaxGeneration /\ generation \in 0 .. MaxGeneration /\ 0 <= generation
  BY <1>0, WorkerBounds, GateFields DEF generation
<1>4. /\ host' \in [Hosts -> HostType] /\ (\A k \in Hosts : k # h => host'[k] = host[k])
      /\ host'[h] = AfterCancel(0)
  <2> DEFINE r == AfterCancel(0)
  <2>1. r \in HostType /\ r.then # <<>>
    BY <1>3, CloseFacts
  <2>2. Continue(h, r)
    BY DEF Cancel
  <2> HIDE DEF r
  <2>3. /\ host' \in [Hosts -> HostType] /\ (\A k \in Hosts : k # h => host'[k] = host[k]) /\ host'[h] = r
    BY ONLY <1>0, <2>1, <2>2, h \in Hosts, ContinueFacts
  <2> QED
    BY <2>3 DEF r
<1>5. /\ AfterCancel(0).scope = 0 /\ AfterCancel(0).gen = 0 /\ AfterCancel(0).how = "wake" /\ AfterCancel(0).then # <<>>
      /\ ToSet(AfterCancel(0).then) = {"auth", "notify"}
  BY <1>3, CloseFacts
<1>6. Types'
  BY <1>0, <1>1, <1>2, <1>3, <1>4, <1>5 DEF Types, TypeOK, Places, Running, Setup, Session, Ending
<1>7. HostsKnown'
  <2>1. HostKnown(h)'
    <3>1. /\ host'[h].scope = 0 /\ host'[h].gen = 0 /\ host'[h].how = "wake" /\ host'[h].then # <<>>
          /\ ToSet(host'[h].then) = {"auth", "notify"} /\ gate'.stopping = TRUE /\ 0 <= gate'.generation
      BY <1>2, <1>3, <1>4, <1>5 DEF generation
    <3> QED
      BY <3>1 DEF HostKnown, Enroute, generation
  <2>2. \A k \in Hosts : k # h => HostKnown(k)'
    BY <1>0, <1>1, <1>2, <1>4, HostStays DEF HostsKnown, Keeps, cancelled
  <2> QED
    BY <2>1, <2>2 DEF HostsKnown
<1>8. Promised
  BY <1>1, <1>2, <1>4, SignalsAdded DEF ControlStays, generation
<1>9. Phases'
  BY <1>0, <1>1, <1>2, <1>3, <1>4, <1>5 DEF Phases, Running, Setup, Session, Ending, generation, cancelled
<1>10. Resources'
  BY <1>0, <1>1, <1>2, <1>3, <1>4, <1>5 DEF Resources, Running, Setup, Session, Ending, Live, generation
<1>11. StateKnown'
  BY <1>0, <1>1, <1>2, <1>3, <1>4, <1>5 DEF StateKnown, Running, Setup, Session, Ending, generation
<1>12. QueueKnown'
  BY <1>0, <1>1, <1>2, <1>3, <1>4, <1>5 DEF QueueKnown, Session
<1>13. OperationsKnown'
  BY <1>0, <1>1, <1>2, <1>3, <1>4, <1>5 DEF OperationsKnown, Owned, generation
<1>14. OutcomesKnown'
  BY <1>0, <1>1, <1>2, <1>3, <1>4, <1>5 DEF OutcomesKnown, generation, cancelled
<1>15. ControlsKnown'
  BY <1>0, <1>1, <1>2, <1>3, <1>4, <1>5 DEF ControlsKnown, Session, generation
<1>16. Wakes'
  <2>1. Notified'
    BY <1>4, <1>5 DEF Notified, Enroute
  <2> QED
    BY <1>0, <1>1, <1>2, <1>8, <2>1 DEF Wakes, Waking, Promised
<1>17. Cancels'
  BY <1>0, <1>1, <1>2, <1>3, <1>4, <1>5, <1>8 DEF Cancels, Session, Promised, cancelled
<1> QED
  BY <1>6, <1>7, <1>9, <1>10, <1>11, <1>12, <1>13, <1>14, <1>15, <1>16, <1>17 DEF WorkerInv

----------------------------------------------------------------------------
(* What the hosts do unlocked *)

\* Everybody but h keeps what is under way, and h too if it still has to do it.
LEMMA OthersStay ==
  ASSUME NEW h \in Hosts, (\A k \in Hosts : k # h => host'[k] = host[k]), gate'.generation = gate.generation
  PROVE  /\ \A k \in Hosts : k # h => \A s : Enroute(k, s) => Enroute(k, s)'
         /\ \A k \in Hosts : k # h => \A t : Signalling(k, t) => Signalling(k, t)'
         /\ \A k \in Hosts : k # h /\ Enroute(k, "auth") /\ InScope(host[k].scope) /\ auth'.generation = auth.generation => PromptTold'
BY DEF Enroute, Signalling, generation, InScope, PromptTold

\* A host interrupts the prompt of its attempt.
LEMMA HostAuthStep ==
  ASSUME WorkerInv, NEW h \in Hosts, HostAuth(h)
  PROVE  WorkerInv'
<1>0. /\ Types /\ Phases /\ Resources /\ StateKnown /\ QueueKnown /\ OperationsKnown /\ OutcomesKnown
      /\ HostsKnown /\ ControlsKnown /\ Wakes /\ Cancels
      /\ gate \in Gate /\ events \in Events /\ auth \in Auth /\ worker \in Worker /\ watch \in Watch
      /\ control \in [Generations -> Control] /\ router \in 0 .. MaxGeneration
      /\ pc \in Places /\ host \in [Hosts -> HostType] /\ history \in HistoryType
  BY WorkerInvFacts
<1>1. /\ UNCHANGED <<gate, events, control, router, pc, worker, watch, history>> /\ Head(host[h].then) = "auth"
      /\ host[h].then # <<>>
  BY DEF HostAuth, Doing
<1>2. /\ HostKnown(h) /\ host[h] \in HostType /\ auth.accepting \in BOOLEAN
      /\ \A s : Enroute(h, s) <=> s \in ToSet(host[h].then)
  BY <1>0, SideFields DEF HostsKnown, Enroute
<1>3. /\ host' \in [Hosts -> HostType] /\ (\A k \in Hosts : k # h => host'[k] = host[k])
      /\ (host'[h].then = <<>> => host'[h] = Idle)
      /\ (\A s : Enroute(h, s)' <=> Enroute(h, s) /\ s # "auth") /\ ~Enroute(h, "wake") /\ Enroute(h, "auth")
      /\ \A s : Enroute(h, s)' => /\ host'[h].scope = host[h].scope /\ host'[h].gen = host[h].gen
                                  /\ host'[h].target = host[h].target /\ host'[h].how = host[h].how
      /\ host'[h].then # <<>> => /\ host'[h].scope = host[h].scope /\ host'[h].gen = host[h].gen
                                 /\ host'[h].target = host[h].target /\ host'[h].how = host[h].how
  <2> DEFINE r == Rest(h)
             p == host[h].then
  <2>1. /\ r \in HostType /\ r.then = Tail(p) /\ r.scope = host[h].scope
        /\ r.gen = host[h].gen /\ r.target = host[h].target /\ r.how = host[h].how
    BY <1>0, <1>1, RestFacts
  <2>2. Continue(h, r) /\ p = host[h].then /\ p # <<>> /\ Head(p) = "auth"
    BY <1>1 DEF HostAuth
  <2> HIDE DEF r, p
  <2>3. /\ host' \in [Hosts -> HostType] /\ (\A k \in Hosts : k # h => host'[k] = host[k])
        /\ host'[h].then = r.then /\ (r.then # <<>> => host'[h] = r) /\ (r.then = <<>> => host'[h] = Idle)
    BY ONLY <1>0, <2>1, <2>2, h \in Hosts, ContinueFacts
  <2>4. p \in Programs /\ ToSet(<<>>) = {}
    BY <1>0, <2>2, HostFields, ProgramSets
  <2>5. ToSet(p) = {"auth"} \cup ToSet(Tail(p)) /\ "auth" \notin ToSet(Tail(p)) /\ "wake" \notin ToSet(Tail(p))
    BY <2>2, <2>4, ProgramFacts
  <2>6. (\A s : Enroute(h, s) <=> s \in ToSet(p)) /\ (\A s : Enroute(h, s)' <=> s \in ToSet(Tail(p)))
    BY <2>1, <2>2, <2>3 DEF Enroute
  <2>7. \A s : Enroute(h, s)' => host'[h] = r
    BY <2>1, <2>3, <2>4, <2>6
  <2>8. (host'[h].then = <<>> => host'[h] = Idle) /\ (host'[h].then # <<>> => host'[h] = r)
    BY <2>3
  <2> QED
    BY <2>1, <2>3, <2>5, <2>6, <2>7, <2>8
<1>4. /\ auth' \in Auth /\ auth'.generation = auth.generation
      /\ InScope(host[h].scope) => auth'.accepting = FALSE /\ auth'.status = "Cancelled"
      /\ ~InScope(host[h].scope) => auth' = auth
  BY <1>0 DEF HostAuth, Interrupted, Auth
<1>5. /\ \A k \in Hosts : k # h => \A s : Enroute(k, s) => Enroute(k, s)'
      /\ \A k \in Hosts : k # h => \A t : Signalling(k, t) => Signalling(k, t)'
      /\ \A k \in Hosts : k # h /\ Enroute(k, "auth") /\ InScope(host[k].scope) => PromptTold'
  BY <1>1, <1>3, <1>4, OthersStay
<1>6. \A t : Signalling(h, t) => Signalling(h, t)'
  BY <1>1, <1>3 DEF Signalling, generation
<1>7. pc \in Session /\ InScope(host[h].scope) => cancelled = TRUE
  <2>1. pc \in Session => gate.finishing # TRUE
    BY <1>0 DEF Phases, Running, Session, Ending
  <2>2. pc \in Session => auth.generation = generation
    BY <1>0 DEF Resources
  <2> QED
    BY <1>0, <1>2, <1>3, <2>1, <2>2 DEF HostKnown, InScope, Phases
<1>8. Types'
  BY <1>0, <1>1, <1>3, <1>4 DEF Types, TypeOK
<1>9. HostsKnown'
  <2>1. HostKnown(h)'
    <3>1. CASE host'[h].then = <<>>
      <4>1. /\ host'[h].then = <<>> /\ ToSet(host'[h].then) = {} /\ host'[h] = Idle /\ host'[h].scope = 0 /\ host'[h].gen = 0
            /\ host'[h].how = "wake" /\ 0 <= gate'.generation
        BY <1>0, <1>1, <1>3, <3>1, IdleFacts, GateFields, ProgramSets
      <4> QED
        BY <4>1 DEF HostKnown, Enroute, generation
    <3>2. CASE host'[h].then # <<>>
      BY <1>1, <1>2, <1>3, <3>2 DEF HostKnown, generation, cancelled
    <3> QED
      BY <3>1, <3>2
  <2>2. \A k \in Hosts : k # h => HostKnown(k)'
    BY <1>0, <1>1, <1>3, HostStays DEF HostsKnown, Keeps, cancelled
  <2> QED
    BY <2>1, <2>2 DEF HostsKnown
<1>10. /\ (WaitTold => WaitTold') /\ (SetupTold => SetupTold') /\ (Notified => Notified') /\ (Covered => Covered')
       /\ (~InScope(host[h].scope) /\ PromptTold => PromptTold')
  <2>1. (WaitTold => WaitTold') /\ (SetupTold => SetupTold') /\ (Notified => Notified')
    BY <1>1, <1>3, <1>5, <1>6 DEF WaitTold, SetupTold, Notified, generation
  <2>2. Covered => Covered'
    BY <1>3, <1>5, <2>1 DEF Covered
  <2>3. ~InScope(host[h].scope) /\ PromptTold => PromptTold'
    BY <1>5 DEF PromptTold
  <2> QED
    BY <2>1, <2>2, <2>3
<1>11. Resources'
  BY <1>0, <1>1, <1>2, <1>4 DEF Resources, generation
<1>12. Wakes'
  BY <1>0, <1>1, <1>10 DEF Wakes
<1>13. Cancels'
  <2>1. CASE InScope(host[h].scope)
    <3>1. pc \in Session => cancelled = TRUE
      BY <1>7, <2>1
    <3> QED
      BY <1>0, <1>1, <1>4, <2>1, <3>1, <1>10 DEF Cancels, Session, cancelled
  <2>2. CASE ~InScope(host[h].scope)
    BY <1>0, <1>1, <1>4, <2>2, <1>10 DEF Cancels, Session, cancelled
  <2> QED
    BY <2>1, <2>2
<1>14. Phases' /\ StateKnown' /\ QueueKnown' /\ OperationsKnown' /\ OutcomesKnown' /\ ControlsKnown'
  BY <1>0, <1>1 DEF Phases, Running, Setup, Session, Ending, generation, cancelled, StateKnown, QueueKnown, OperationsKnown, Owned, OutcomesKnown, ControlsKnown
<1> QED
  BY <1>8, <1>9, <1>11, <1>12, <1>13, <1>14 DEF WorkerInv

\* A host requests the close and learns whom to signal.
LEMMA HostRequestStep ==
  ASSUME WorkerInv, NEW h \in Hosts, HostRequest(h)
  PROVE  WorkerInv'
<1>0. /\ Types /\ Phases /\ Resources /\ StateKnown /\ QueueKnown /\ OperationsKnown /\ OutcomesKnown
      /\ HostsKnown /\ ControlsKnown /\ Wakes /\ Cancels
      /\ gate \in Gate /\ events \in Events /\ auth \in Auth /\ worker \in Worker /\ watch \in Watch
      /\ control \in [Generations -> Control] /\ router \in 0 .. MaxGeneration
      /\ pc \in Places /\ host \in [Hosts -> HostType] /\ history \in HistoryType
  BY WorkerInvFacts
<1>1. /\ UNCHANGED <<gate, events, auth, router, pc, worker, watch, history>> /\ Head(host[h].then) = "request"
      /\ host[h].then # <<>>
  BY DEF HostRequest, Doing
<1>2. /\ HostKnown(h) /\ host[h] \in HostType /\ host[h].then \in Programs
      /\ host[h].gen \in 0 .. MaxGeneration /\ host[h].scope \in 0 .. MaxGeneration
      /\ \A s : Enroute(h, s) <=> s \in ToSet(host[h].then)
  BY <1>0, HostFields DEF HostsKnown, Enroute
<1>3. /\ host' \in [Hosts -> HostType] /\ (\A k \in Hosts : k # h => host'[k] = host[k]) /\ host'[h].then # <<>>
      /\ Enroute(h, "request") /\ ~Enroute(h, "auth") /\ ~Enroute(h, "wake") /\ (Enroute(h, "notify") => Enroute(h, "notify")')
      /\ Enroute(h, "deliver")' /\ ~Enroute(h, "request")' /\ ~Enroute(h, "auth")' /\ ~Enroute(h, "wake")'
      /\ host'[h].scope = host[h].scope /\ host'[h].gen = host[h].gen /\ host'[h].target = Target(host[h].gen)
      /\ host'[h].how = IF control[host[h].gen].connecting = TRUE THEN "cancel" ELSE "wake"
  <2> DEFINE q == Rest(h)
             t == Target(host[h].gen)
             w == IF control[host[h].gen].connecting THEN "cancel" ELSE "wake"
             r == [q EXCEPT !.target = t, !.how = w]
             p == host[h].then
  <2>1. /\ q \in HostType /\ q.then = Tail(p) /\ q.scope = host[h].scope /\ q.gen = host[h].gen
    BY <1>0, <1>1, RestFacts
  <2>2. t \in {"setup", "transport"} /\ w \in {"cancel", "wake"}
    BY DEF Target
  <2>3. Continue(h, r) /\ p = host[h].then /\ p # <<>> /\ Head(p) = "request" /\ r = [q EXCEPT !.target = t, !.how = w]
    BY <1>1 DEF HostRequest
  <2>4. w = IF control[host[h].gen].connecting = TRUE THEN "cancel" ELSE "wake"
    <3>1. Enroute(h, "request")
      <4>1. ToSet(p) = {"request"} \cup ToSet(Tail(p))
        BY <1>1, <1>2, ProgramFacts
      <4> QED
        BY <1>2, <4>1
    <3>2. host[h].gen \in Generations
      BY <1>2, <3>1 DEF HostKnown, Generations
    <3>3. control[host[h].gen].connecting \in BOOLEAN
      BY <1>0, <3>2, ControlFields
    <3> QED
      BY <3>3
  <2> HIDE DEF q, r, p, t, w
  <2>5. /\ r \in HostType /\ r.then = Tail(p) /\ r.scope = host[h].scope /\ r.gen = host[h].gen /\ r.target = t /\ r.how = w
    BY <2>1, <2>2, <2>3 DEF HostType
  <2>6. /\ host' \in [Hosts -> HostType] /\ (\A k \in Hosts : k # h => host'[k] = host[k])
        /\ host'[h].then = r.then /\ (r.then # <<>> => host'[h] = r)
    BY ONLY <1>0, <2>5, <2>3, h \in Hosts, ContinueFacts
  <2>7. /\ ToSet(p) = {"request"} \cup ToSet(Tail(p)) /\ "deliver" \in ToSet(Tail(p))
        /\ ToSet(Tail(p)) \subseteq {"deliver", "notify"}
    BY <1>2, <2>3, ProgramFacts
  <2>8. Tail(p) # <<>>
    BY <2>7, ProgramSets
  <2>9. (\A s : Enroute(h, s) <=> s \in ToSet(p)) /\ (\A s : Enroute(h, s)' <=> s \in ToSet(Tail(p)))
    BY <2>3, <2>5, <2>6 DEF Enroute
  <2> QED
    BY <2>4, <2>5, <2>6, <2>7, <2>8, <2>9 DEF t
<1>4. /\ host[h].gen \in Generations /\ host[h].gen \in history.closed
      /\ control[host[h].gen].connecting \in BOOLEAN
  <2>1. host[h].gen \in Generations
    BY <1>2, <1>3 DEF HostKnown, Generations
  <2> QED
    BY <1>0, <1>2, <1>3, <2>1, ControlFields DEF HostKnown
<1>5. /\ \A k \in Hosts : k # h => \A s : Enroute(k, s) => Enroute(k, s)'
      /\ \A k \in Hosts : k # h => \A t : Signalling(k, t) => Signalling(k, t)'
      /\ \A k \in Hosts : k # h /\ Enroute(k, "auth") /\ InScope(host[k].scope) => PromptTold'
  BY <1>1, <1>3, OthersStay
<1>6. /\ control' \in [Generations -> Control] /\ (\A k \in Generations : k # host[h].gen => control'[k] = control[k])
      /\ \A k \in Generations : /\ control'[k].connecting = control[k].connecting
                                /\ control'[k].setupCancelled = control[k].setupCancelled
                                /\ control'[k].woken = control[k].woken
  <2> DEFINE g == host[h].gen
             c == [control[g] EXCEPT !.closing = TRUE]
  <2>1. control' = [control EXCEPT ![g] = c]
    BY <1>0, <1>4 DEF HostRequest
  <2>2. /\ c \in Control /\ c.connecting = control[g].connecting /\ c.setupCancelled = control[g].setupCancelled
        /\ c.woken = control[g].woken
    BY <1>0, <1>4 DEF Control
  <2> HIDE DEF c, g
  <2>3. /\ control' \in [Generations -> Control] /\ (\A k \in Generations : k # g => control'[k] = control[k])
        /\ \A k \in Generations : /\ control'[k].connecting = control[k].connecting
                                  /\ control'[k].setupCancelled = control[k].setupCancelled
                                  /\ control'[k].woken = control[k].woken
    BY <1>0, <2>1, <2>2
  <2> QED
    BY <2>3 DEF g
<1>7. /\ control[generation].connecting = FALSE /\ Signalling(h, "transport") => Signalling(h, "transport")'
      /\ control[generation].connecting = TRUE /\ Signalling(h, "setup") => Signalling(h, "setup")'
  BY <1>1, <1>3 DEF Signalling, Target, generation
<1>8. Types'
  BY <1>0, <1>1, <1>2, <1>3, <1>4, <1>5, <1>6, <1>7 DEF Types, TypeOK, Places, Running, Setup, Session, Ending
<1>9. HostsKnown'
  <2>1. HostKnown(h)'
    BY <1>1, <1>2, <1>3, <1>4 DEF HostKnown, generation, cancelled, Generations
  <2>2. \A k \in Hosts : k # h => HostKnown(k)'
    BY <1>0, <1>1, <1>3, HostStays DEF HostsKnown, Keeps, cancelled
  <2> QED
    BY <2>1, <2>2 DEF HostsKnown
<1>10. /\ (pc \in Session => (WaitTold => WaitTold')) /\ (pc = "connecting" => (SetupTold => SetupTold'))
       /\ (Notified => Notified') /\ (pc \in Session => (Covered => Covered')) /\ (PromptTold => PromptTold')
  <2>1. generation \in Generations => control'[generation].woken = control[generation].woken
                                      /\ control'[generation].setupCancelled = control[generation].setupCancelled
    BY <1>6
  <2>2. pc \in Session => control[generation].connecting = FALSE
    BY <1>0 DEF ControlsKnown
  <2>3. pc = "connecting" => control[generation].connecting = TRUE
    BY <1>0 DEF ControlsKnown
  <2>4. pc \in Session \cup {"connecting"} => generation \in Generations
    BY <1>0, AttemptNumber DEF Running, Setup
  <2>5. pc \in Session => (WaitTold => WaitTold')
    BY <1>1, <1>5, <1>7, <2>1, <2>2, <2>4 DEF WaitTold, generation
  <2>6. pc = "connecting" => (SetupTold => SetupTold')
    BY <1>1, <1>5, <1>7, <2>1, <2>3, <2>4 DEF SetupTold, generation
  <2>7. pc \in Session => (Covered => Covered')
    BY <1>3, <1>5, <2>5 DEF Covered
  <2> QED
    BY <1>1, <1>3, <1>5, <2>5, <2>6, <2>7 DEF Notified, PromptTold
<1>11. ControlsKnown'
  <2>1. \A g \in Generations : control'[g].closing = TRUE => g \in history.closed
    BY <1>0, <1>4, <1>6 DEF ControlsKnown
  <2>2. gate.finishing = FALSE /\ generation >= 1 /\ control'[generation].setupCancelled = TRUE => generation \in history.closed
    <3>1. generation >= 1 => generation \in Generations
      BY <1>0, GateFields, Widths DEF generation
    <3> QED
      BY <1>0, <1>6, <3>1 DEF ControlsKnown
  <2>3. gate.pendingAttempt = TRUE \/ pc \in {"prepare", "connecting", "starting", "start", "started"} \cup Session => generation \in Generations
    BY <1>0, AttemptNumber DEF Phases, Running, Setup, Session
  <2> QED
    BY <1>0, <1>1, <1>6, <2>1, <2>2, <2>3 DEF ControlsKnown, generation
<1>12. Wakes'
  BY <1>0, <1>1, <1>10 DEF Wakes, Waking, Session
<1>13. Cancels'
  BY <1>0, <1>1, <1>10 DEF Cancels, Session, cancelled
<1>14. Phases' /\ Resources' /\ StateKnown' /\ QueueKnown' /\ OperationsKnown' /\ OutcomesKnown'
  BY <1>0, <1>1 DEF Phases, Running, Setup, Session, Ending, generation, cancelled, Resources, Live, StateKnown, QueueKnown, OperationsKnown, Owned, OutcomesKnown
<1> QED
  BY <1>8, <1>9, <1>11, <1>12, <1>13, <1>14 DEF WorkerInv

\* A host looks up whom to wake.
LEMMA HostWakeStep ==
  ASSUME WorkerInv, NEW h \in Hosts, HostWake(h)
  PROVE  WorkerInv'
<1>0. /\ Types /\ Phases /\ Resources /\ StateKnown /\ QueueKnown /\ OperationsKnown /\ OutcomesKnown
      /\ HostsKnown /\ ControlsKnown /\ Wakes /\ Cancels
      /\ gate \in Gate /\ events \in Events /\ auth \in Auth /\ worker \in Worker /\ watch \in Watch
      /\ control \in [Generations -> Control] /\ router \in 0 .. MaxGeneration
      /\ pc \in Places /\ host \in [Hosts -> HostType] /\ history \in HistoryType
  BY WorkerInvFacts
<1>1. /\ UNCHANGED <<gate, events, auth, control, router, pc, worker, watch, history>>
      /\ Head(host[h].then) = "wake" /\ host[h].then # <<>>
  BY DEF HostWake, Doing
<1>2. /\ HostKnown(h) /\ host[h] \in HostType /\ host[h].then \in Programs
      /\ host[h].gen \in 0 .. MaxGeneration /\ host[h].scope \in 0 .. MaxGeneration
      /\ \A s : Enroute(h, s) <=> s \in ToSet(host[h].then)
  BY <1>0, HostFields DEF HostsKnown, Enroute
<1>3. /\ host' \in [Hosts -> HostType] /\ (\A k \in Hosts : k # h => host'[k] = host[k]) /\ host'[h].then # <<>>
      /\ Enroute(h, "wake") /\ ~Enroute(h, "auth") /\ ~Enroute(h, "request") /\ Enroute(h, "notify")'
      /\ ~Enroute(h, "request")' /\ ~Enroute(h, "auth")' /\ ~Enroute(h, "wake")'
      /\ host'[h].scope = host[h].scope /\ host'[h].how = host[h].how
      /\ router = 0 => ~Enroute(h, "deliver")' /\ host'[h].gen = host[h].gen
      /\ router # 0 => Enroute(h, "deliver")' /\ host'[h].gen = router /\ host'[h].target = Target(router)
  <2> DEFINE q == Rest(h)
             p == host[h].then
  <2>1. /\ q \in HostType /\ q.then = Tail(p) /\ q.scope = host[h].scope /\ q.gen = host[h].gen /\ q.how = host[h].how
    BY <1>0, <1>1, RestFacts
  <2>2. /\ ToSet(p) = {"wake", "deliver", "notify"} /\ Tail(p) = <<"deliver", "notify">>
        /\ ToSet(Tail(p)) = {"deliver", "notify"} /\ Tail(Tail(p)) = <<"notify">>
        /\ ToSet(Tail(Tail(p))) = {"notify"}
    BY <1>1, <1>2, ProgramFacts
  <2>3. Enroute(h, "wake") /\ ~Enroute(h, "auth") /\ ~Enroute(h, "request")
    BY <1>2, <2>2
  <2>4. CASE router = 0
    <3> DEFINE s == <<"notify">>
               r == [q EXCEPT !.then = s]
    <3>1. Continue(h, r) /\ r = [q EXCEPT !.then = s]
      BY <1>0, <2>1, <2>2, <2>4 DEF HostWake, HostType
    <3>2. s \in Programs /\ s # <<>> /\ ToSet(s) = {"notify"}
      BY ProgramSets DEF Programs
    <3> HIDE DEF q, r, s
    <3>3. r \in HostType /\ r.then = s /\ r.scope = q.scope /\ r.gen = q.gen /\ r.how = q.how
      BY <2>1, <3>1, <3>2 DEF HostType
    <3>4. /\ host' \in [Hosts -> HostType] /\ (\A k \in Hosts : k # h => host'[k] = host[k])
          /\ host'[h].then = r.then /\ (r.then # <<>> => host'[h] = r)
      BY ONLY <1>0, <3>1, <3>3, h \in Hosts, ContinueFacts
    <3>5. \A x : Enroute(h, x)' <=> x \in {"notify"}
      BY <3>2, <3>3, <3>4 DEF Enroute
    <3> QED
      BY <2>1, <2>3, <2>4, <3>2, <3>3, <3>4, <3>5
  <2>5. CASE router # 0
    <3> DEFINE t == Target(router)
               r == [q EXCEPT !.gen = router, !.target = t]
    <3>1. Continue(h, r) /\ r = [q EXCEPT !.gen = router, !.target = t] /\ t = Target(router)
      BY <2>5 DEF HostWake
    <3>2. t \in {"setup", "transport"}
      BY DEF Target
    <3>3. Tail(p) # <<>>
      BY <2>2
    <3> HIDE DEF q, r, t
    <3>4. r \in HostType /\ r.then = q.then /\ r.scope = q.scope /\ r.gen = router /\ r.how = q.how /\ r.target = t
      BY <1>0, <2>1, <3>1, <3>2 DEF HostType
    <3>5. /\ host' \in [Hosts -> HostType] /\ (\A k \in Hosts : k # h => host'[k] = host[k])
          /\ host'[h].then = r.then /\ (r.then # <<>> => host'[h] = r)
      BY ONLY <1>0, <3>1, <3>4, h \in Hosts, ContinueFacts
    <3>6. \A x : Enroute(h, x)' <=> x \in {"deliver", "notify"}
      BY <2>1, <2>2, <3>4, <3>5 DEF Enroute
    <3>7. host'[h] = r /\ host'[h].then # <<>>
      BY <2>1, <3>3, <3>4, <3>5
    <3>8. /\ host'[h].scope = host[h].scope /\ host'[h].how = host[h].how /\ host'[h].gen = router
          /\ host'[h].target = Target(router)
      BY <2>1, <3>1, <3>4, <3>7
    <3> QED
      BY <2>3, <2>5, <3>5, <3>6, <3>7, <3>8
  <2> QED
    BY <2>4, <2>5
<1>4. /\ router # 0 => router = generation /\ generation >= 1
      /\ pc \in Session \cup {"connecting"} => router = generation /\ generation >= 1 /\ router # 0
      /\ generation <= generation /\ generation \in 0 .. MaxGeneration
  <2>1. generation \in 0 .. MaxGeneration
    BY <1>0, GateFields DEF generation
  <2>2. router # 0 => router = generation
    BY <1>0 DEF Resources
  <2>3. pc \in Session \cup {"connecting"} => router = generation /\ generation >= 1
    <3>1. pc \in Session \cup {"connecting"} => pc \in Running \ {"prepare", "retire"}
      BY DEF Running, Setup, Session
    <3>2. pc \in Session \cup {"connecting"} => generation \in Generations
      BY <3>1, AttemptNumber
    <3> QED
      BY <1>0, <3>1, <3>2 DEF Resources, Generations
  <2> QED
    BY <2>1, <2>2, <2>3
<1>5. /\ \A k \in Hosts : k # h => \A s : Enroute(k, s) => Enroute(k, s)'
      /\ \A k \in Hosts : k # h => \A t : Signalling(k, t) => Signalling(k, t)'
      /\ \A k \in Hosts : k # h /\ Enroute(k, "auth") /\ InScope(host[k].scope) => PromptTold'
  BY <1>1, <1>3, OthersStay
<1>6. pc \in Session => Signalling(h, "transport")'
  <2>1. pc \in Session => control[generation].connecting = FALSE
    BY <1>0 DEF ControlsKnown
  <2> QED
    BY <1>1, <1>3, <1>4, <2>1 DEF Signalling, Target, generation
<1>7. ~Signalling(h, "setup")
  BY <1>2, <1>3 DEF Signalling, HostKnown
<1>8. Types'
  BY <1>0, <1>1, <1>2, <1>3, <1>4, <1>5, <1>6, <1>7 DEF Types, TypeOK, Places, Running, Setup, Session, Ending
<1>9. HostsKnown'
  <2>1. HostKnown(h)'
    BY <1>1, <1>2, <1>3, <1>4 DEF HostKnown, generation, cancelled
  <2>2. \A k \in Hosts : k # h => HostKnown(k)'
    BY <1>0, <1>1, <1>3, HostStays DEF HostsKnown, Keeps, cancelled
  <2> QED
    BY <2>1, <2>2 DEF HostsKnown
<1>10. /\ (pc \in Session => WaitTold' /\ Covered') /\ (SetupTold => SetupTold')
       /\ (Notified => Notified') /\ (PromptTold => PromptTold')
  <2>1. pc \in Session => WaitTold' /\ Covered'
    BY <1>6 DEF WaitTold, Covered
  <2>2. SetupTold => SetupTold'
    BY <1>1, <1>5, <1>7 DEF SetupTold, generation
  <2> QED
    BY <1>1, <1>3, <1>5, <2>1, <2>2 DEF Notified, PromptTold
<1>11. Wakes'
  BY <1>0, <1>1, <1>10 DEF Wakes, Waking, Session
<1>12. Cancels'
  BY <1>0, <1>1, <1>10 DEF Cancels, Session, cancelled
<1>13. Phases' /\ Resources' /\ StateKnown' /\ QueueKnown' /\ OperationsKnown' /\ OutcomesKnown' /\ ControlsKnown'
  BY <1>0, <1>1 DEF Phases, Running, Setup, Session, Ending, generation, cancelled, Resources, Live, StateKnown, QueueKnown, OperationsKnown, Owned, OutcomesKnown, ControlsKnown
<1> QED
  BY <1>8, <1>9, <1>11, <1>12, <1>13 DEF WorkerInv

\* A host sends its signal.
LEMMA HostDeliverStep ==
  ASSUME WorkerInv, NEW h \in Hosts, HostDeliver(h)
  PROVE  WorkerInv'
<1>0. /\ Types /\ Phases /\ Resources /\ StateKnown /\ QueueKnown /\ OperationsKnown /\ OutcomesKnown
      /\ HostsKnown /\ ControlsKnown /\ Wakes /\ Cancels
      /\ gate \in Gate /\ events \in Events /\ auth \in Auth /\ worker \in Worker /\ watch \in Watch
      /\ control \in [Generations -> Control] /\ router \in 0 .. MaxGeneration
      /\ pc \in Places /\ host \in [Hosts -> HostType] /\ history \in HistoryType
  BY WorkerInvFacts
<1>1. /\ UNCHANGED <<gate, events, auth, router, pc, worker, watch, history>> /\ Head(host[h].then) = "deliver"
      /\ host[h].then # <<>>
  BY DEF HostDeliver, Doing
<1>2. /\ HostKnown(h) /\ host[h] \in HostType /\ host[h].then \in Programs
      /\ host[h].gen \in 0 .. MaxGeneration /\ host[h].scope \in 0 .. MaxGeneration
      /\ \A s : Enroute(h, s) <=> s \in ToSet(host[h].then)
  BY <1>0, HostFields DEF HostsKnown, Enroute
<1>3. /\ host' \in [Hosts -> HostType] /\ (\A k \in Hosts : k # h => host'[k] = host[k])
      /\ (host'[h].then = <<>> => host'[h] = Idle)
      /\ Enroute(h, "deliver") /\ ~Enroute(h, "auth") /\ ~Enroute(h, "request") /\ ~Enroute(h, "wake")
      /\ (Enroute(h, "notify") => Enroute(h, "notify")') /\ \A s : Enroute(h, s)' => s = "notify"
      /\ host'[h].then # <<>> => host'[h].scope = host[h].scope /\ host'[h].gen = host[h].gen /\ host'[h].how = host[h].how
  <2> DEFINE r == Rest(h)
             p == host[h].then
  <2>1. /\ r \in HostType /\ r.then = Tail(p) /\ r.scope = host[h].scope
        /\ r.gen = host[h].gen /\ r.target = host[h].target /\ r.how = host[h].how
    BY <1>0, <1>1, RestFacts
  <2>2. Continue(h, r) /\ p = host[h].then /\ p # <<>> /\ Head(p) = "deliver"
    BY <1>1 DEF HostDeliver
  <2>3. ToSet(p) = {"deliver"} \cup ToSet(Tail(p)) /\ ToSet(Tail(p)) \subseteq {"notify"}
    BY <1>2, <2>2, ProgramFacts
  <2> HIDE DEF r, p
  <2>4. /\ host' \in [Hosts -> HostType] /\ (\A k \in Hosts : k # h => host'[k] = host[k])
        /\ host'[h].then = r.then /\ (r.then # <<>> => host'[h] = r) /\ (r.then = <<>> => host'[h] = Idle)
    BY ONLY <1>0, <2>1, <2>2, h \in Hosts, ContinueFacts
  <2>5. (\A s : Enroute(h, s) <=> s \in ToSet(p)) /\ (\A s : Enroute(h, s)' <=> s \in ToSet(Tail(p)))
    BY <2>1, <2>2, <2>4 DEF Enroute
  <2>6. (host'[h].then = <<>> => host'[h] = Idle) /\ (host'[h].then # <<>> => host'[h] = r)
    BY <2>4
  <2> QED
    BY <2>1, <2>3, <2>4, <2>5, <2>6
<1>4. host[h].gen \in Generations /\ host[h].gen <= generation
  BY <1>2, <1>3 DEF HostKnown, Generations
<1>5. /\ \A k \in Hosts : k # h => \A s : Enroute(k, s) => Enroute(k, s)'
      /\ \A k \in Hosts : k # h => \A t : Signalling(k, t) => Signalling(k, t)'
      /\ \A k \in Hosts : k # h /\ Enroute(k, "auth") /\ InScope(host[k].scope) => PromptTold'
  BY <1>1, <1>3, OthersStay
<1>6. /\ control' \in [Generations -> Control] /\ (\A k \in Generations : k # host[h].gen => control'[k] = control[k])
      /\ \A k \in Generations :
           /\ control'[k].connecting = control[k].connecting /\ control'[k].closing = control[k].closing
           /\ control[k].setupCancelled = TRUE => control'[k].setupCancelled = TRUE
           /\ control[k].woken = TRUE => control'[k].woken = TRUE
      /\ control'[host[h].gen].setupCancelled = TRUE =>
           control[host[h].gen].setupCancelled = TRUE \/ (host[h].target = "setup" /\ host[h].how = "cancel")
      /\ host[h].target = "setup" /\ host[h].how = "cancel" => control'[host[h].gen].setupCancelled = TRUE
      /\ host[h].target = "transport" => control'[host[h].gen].woken = TRUE
  <2> DEFINE g == host[h].gen
             t == host[h].target
             w == host[h].how
  <2>1. control' = [control EXCEPT ![g] = Signalled(@, t, w)] /\ g \in Generations
    BY <1>4 DEF HostDeliver
  <2> HIDE DEF g, t, w
  <2>2. /\ control' \in [Generations -> Control] /\ (\A k \in Generations : k # g => control'[k] = control[k])
        /\ \A k \in Generations :
             /\ control'[k].connecting = control[k].connecting /\ control'[k].closing = control[k].closing
             /\ control[k].setupCancelled = TRUE => control'[k].setupCancelled = TRUE
             /\ control[k].woken = TRUE => control'[k].woken = TRUE
        /\ control'[g].setupCancelled = TRUE => control[g].setupCancelled = TRUE \/ (t = "setup" /\ w = "cancel")
        /\ t = "setup" /\ w = "cancel" => control'[g].setupCancelled = TRUE
        /\ t = "transport" => control'[g].woken = TRUE
    BY ONLY <1>0, <2>1, ControlSignalled
  <2> QED
    BY <2>2 DEF g, t, w
<1>7. Types'
  BY <1>0, <1>1, <1>2, <1>3, <1>4, <1>5, <1>6 DEF Types, TypeOK, Places, Running, Setup, Session, Ending
<1>8. HostsKnown'
  <2>1. HostKnown(h)'
    <3>1. CASE host'[h].then = <<>>
      <4>1. /\ host'[h].then = <<>> /\ ToSet(host'[h].then) = {} /\ host'[h] = Idle /\ host'[h].scope = 0 /\ host'[h].gen = 0
            /\ host'[h].how = "wake" /\ 0 <= gate'.generation
        BY <1>0, <1>1, <1>3, <3>1, IdleFacts, GateFields, ProgramSets
      <4> QED
        BY <4>1 DEF HostKnown, Enroute, generation
    <3>2. CASE host'[h].then # <<>>
      BY <1>1, <1>2, <1>3, <3>2 DEF HostKnown, generation, cancelled
    <3> QED
      BY <3>1, <3>2
  <2>2. \A k \in Hosts : k # h => HostKnown(k)'
    BY <1>0, <1>1, <1>3, HostStays DEF HostsKnown, Keeps, cancelled
  <2> QED
    BY <2>1, <2>2 DEF HostsKnown
<1>9. /\ (pc \in Session \cup {"connecting"} => (WaitTold => WaitTold') /\ (SetupTold => SetupTold') /\ (Covered => Covered'))
      /\ (Notified => Notified') /\ (PromptTold => PromptTold')
  <2>1. Signalling(h, "transport") => control'[generation].woken = TRUE
    BY <1>3, <1>6 DEF Signalling
  <2>2. Signalling(h, "setup") => control'[generation].setupCancelled = TRUE
    BY <1>3, <1>6 DEF Signalling
  <2>3. generation \in Generations => (WaitTold => WaitTold') /\ (SetupTold => SetupTold')
    BY <1>1, <1>5, <1>6, <2>1, <2>2 DEF WaitTold, SetupTold, generation
  <2>4. pc \in Session \cup {"connecting"} => generation \in Generations
    BY <1>0, AttemptNumber DEF Running, Setup
  <2>5. generation \in Generations => (Covered => Covered')
    BY <1>3, <1>5, <2>3 DEF Covered
  <2> QED
    BY <1>1, <1>3, <1>5, <2>3, <2>4, <2>5 DEF Notified, PromptTold
<1>10. ControlsKnown'
  <2>1. \A g \in Generations : g > generation => g # host[h].gen
    BY <1>0, <1>4, GateFields DEF Generations, generation
  <2>2. gate.finishing = FALSE /\ generation >= 1 /\ control'[generation].setupCancelled = TRUE => generation \in history.closed
    <3>1. generation >= 1 => generation \in Generations
      BY <1>0, GateFields, Widths DEF generation
    <3>2. host[h].how = "cancel" => host[h].gen \in history.closed
      BY <1>2 DEF HostKnown
    <3> QED
      BY <1>0, <1>6, <3>1, <3>2 DEF ControlsKnown
  <2>3. gate.pendingAttempt = TRUE \/ pc \in {"prepare", "connecting", "starting", "start", "started"} \cup Session => generation \in Generations
    BY <1>0, AttemptNumber DEF Phases, Running, Setup, Session
  <2>4. \A g \in Generations : g > generation => control'[g].setupCancelled = FALSE
    BY <1>0, <1>6, <2>1 DEF ControlsKnown
  <2> QED
    BY <1>0, <1>1, <1>6, <2>2, <2>3, <2>4 DEF ControlsKnown, generation
<1>11. Wakes'
  BY <1>0, <1>1, <1>9 DEF Wakes, Waking, Session
<1>12. Cancels'
  BY <1>0, <1>1, <1>9 DEF Cancels, Session, cancelled
<1>13. Phases' /\ Resources' /\ StateKnown' /\ QueueKnown' /\ OperationsKnown' /\ OutcomesKnown'
  BY <1>0, <1>1 DEF Phases, Running, Setup, Session, Ending, generation, cancelled, Resources, Live, StateKnown, QueueKnown, OperationsKnown, Owned, OutcomesKnown
<1> QED
  BY <1>7, <1>8, <1>10, <1>11, <1>12, <1>13 DEF WorkerInv

\* A host notifies the condition variable.
LEMMA HostNotifyStep ==
  ASSUME WorkerInv, NEW h \in Hosts, HostNotify(h)
  PROVE  WorkerInv'
<1>0. /\ Types /\ Phases /\ Resources /\ StateKnown /\ QueueKnown /\ OperationsKnown /\ OutcomesKnown
      /\ HostsKnown /\ ControlsKnown /\ Wakes /\ Cancels
      /\ gate \in Gate /\ events \in Events /\ auth \in Auth /\ worker \in Worker /\ watch \in Watch
      /\ control \in [Generations -> Control] /\ router \in 0 .. MaxGeneration
      /\ pc \in Places /\ host \in [Hosts -> HostType] /\ history \in HistoryType
  BY WorkerInvFacts
<1>1. /\ UNCHANGED <<gate, events, auth, control, router, worker, watch, history>>
      /\ Head(host[h].then) = "notify" /\ host[h].then # <<>> /\ pc' = IF pc = "asleep" THEN "idle" ELSE pc
  BY DEF HostNotify, Doing
<1>2. /\ HostKnown(h) /\ host[h] \in HostType /\ host[h].then \in Programs
      /\ host[h].gen \in 0 .. MaxGeneration /\ host[h].scope \in 0 .. MaxGeneration
      /\ \A s : Enroute(h, s) <=> s \in ToSet(host[h].then)
  BY <1>0, HostFields DEF HostsKnown, Enroute
<1>3. /\ host' \in [Hosts -> HostType] /\ (\A k \in Hosts : k # h => host'[k] = host[k])
      /\ host'[h].then = <<>> /\ host'[h] = Idle /\ \A s : Enroute(h, s) => s = "notify"
  <2> DEFINE r == Rest(h)
             p == host[h].then
  <2>1. r \in HostType /\ r.then = Tail(p)
    BY <1>0, <1>1, RestFacts
  <2>2. Continue(h, r) /\ p = host[h].then /\ p # <<>> /\ Head(p) = "notify"
    BY <1>1 DEF HostNotify
  <2>3. Tail(p) = <<>> /\ ToSet(p) = {"notify"}
    BY <1>2, <2>2, ProgramFacts
  <2> HIDE DEF r, p
  <2>4. /\ host' \in [Hosts -> HostType] /\ (\A k \in Hosts : k # h => host'[k] = host[k])
        /\ host'[h].then = r.then /\ (r.then = <<>> => host'[h] = Idle)
    BY ONLY <1>0, <2>1, <2>2, h \in Hosts, ContinueFacts
  <2>5. \A s : Enroute(h, s) <=> s \in ToSet(p)
    BY <2>2 DEF Enroute
  <2> QED
    BY <2>1, <2>3, <2>4, <2>5
<1>4. /\ pc' = pc \/ (pc = "asleep" /\ pc' = "idle")
      /\ pc' # "asleep"
  BY <1>1
<1>5. /\ \A k \in Hosts : k # h => \A s : Enroute(k, s) => Enroute(k, s)'
      /\ \A k \in Hosts : k # h => \A t : Signalling(k, t) => Signalling(k, t)'
      /\ \A k \in Hosts : k # h /\ Enroute(k, "auth") /\ InScope(host[k].scope) => PromptTold'
  BY <1>1, <1>3, OthersStay
<1>6. Types'
  BY <1>0, <1>1, <1>3, <1>4 DEF Types, TypeOK, Places
<1>7. HostsKnown'
  <2>1. HostKnown(h)'
    <3>1. /\ host'[h].then = <<>> /\ ToSet(host'[h].then) = {} /\ host'[h] = Idle /\ host'[h].scope = 0 /\ host'[h].gen = 0
          /\ host'[h].how = "wake" /\ 0 <= gate'.generation
      BY <1>0, <1>1, <1>3, IdleFacts, GateFields, ProgramSets
    <3> QED
      BY <3>1 DEF HostKnown, Enroute, generation
  <2>2. \A k \in Hosts : k # h => HostKnown(k)'
    BY <1>0, <1>1, <1>3, HostStays DEF HostsKnown, Keeps, cancelled
  <2> QED
    BY <2>1, <2>2 DEF HostsKnown
<1>8. (WaitTold => WaitTold') /\ (SetupTold => SetupTold') /\ (Covered => Covered') /\ (PromptTold => PromptTold')
  <2>1. \A t : ~Signalling(h, t)
    BY <1>3 DEF Signalling
  <2>2. (WaitTold => WaitTold') /\ (SetupTold => SetupTold')
    BY <1>1, <1>5, <2>1 DEF WaitTold, SetupTold, generation
  <2>3. Covered => Covered'
    BY <1>3, <1>5, <2>2 DEF Covered
  <2> QED
    BY <1>1, <1>3, <1>5, <2>2, <2>3 DEF PromptTold
<1>9. Phases'
  BY <1>0, <1>1, <1>2, <1>3, <1>4, <1>5 DEF Phases, Running, Setup, Session, Ending, generation, cancelled
<1>10. Resources'
  BY <1>0, <1>1, <1>2, <1>3, <1>4, <1>5 DEF Resources, Running, Setup, Session, Ending, Live, generation
<1>11. StateKnown'
  BY <1>0, <1>1, <1>2, <1>3, <1>4, <1>5 DEF StateKnown, Running, Setup, Session, Ending, generation
<1>12. QueueKnown'
  BY <1>0, <1>1, <1>2, <1>3, <1>4, <1>5 DEF QueueKnown, Session
<1>13. ControlsKnown'
  BY <1>0, <1>1, <1>2, <1>3, <1>4, <1>5 DEF ControlsKnown, Session, generation
<1>14. Wakes'
  BY <1>0, <1>1, <1>4, <1>8 DEF Wakes, Waking
<1>15. Cancels'
  BY <1>0, <1>1, <1>4, <1>8 DEF Cancels, Session, cancelled
<1>16. OperationsKnown' /\ OutcomesKnown'
  BY <1>0, <1>1 DEF OperationsKnown, Owned, generation, OutcomesKnown, cancelled
<1> QED
  BY <1>6, <1>7, <1>9, <1>10, <1>11, <1>12, <1>13, <1>14, <1>15, <1>16 DEF WorkerInv

----------------------------------------------------------------------------
(* The invariant *)

\* The boundary of a connect that did not succeed, or had succeeded before.
LEMMA BoundaryPassed ==
  ASSUME WorkerInv, ConnectBoundary, ~ConnectSucceeds
  PROVE  WorkerInv'
<1>0. gate \in Gate /\ worker \in Worker /\ watch \in Watch
  BY WorkerInvFacts
<1>1. Moved
  BY <1>0 DEF ConnectBoundary, Moved
<1> QED
  BY <1>1, MoveStep DEF ConnectBoundary, Moves, Waking, Processing

\* Every step keeps the invariant: the calls of the hosts, ...
LEMMA HostCallsStep ==
  ASSUME WorkerInv, NEW h \in Hosts, HostCalls(h)
  PROVE  WorkerInv'
<1>1. CASE Connect(h)
  BY <1>1, ConnectStep
<1>2. CASE Cancel(h)
  <2>1. gate.finishing \in BOOLEAN
    BY WorkerInvFacts, GateFields
  <2> QED
    BY <1>2, <2>1, CancelStep, CancelLate
<1>3. CASE ReserveOverflows(h)
  BY <1>3, ReserveOverflowsStep
<1>4. ASSUME NEW g \in Generations, Disconnect(h, g) PROVE WorkerInv'
  BY <1>4, DisconnectStep
<1>5. ASSUME NEW g \in Generations, NEW id \in Ids, CancelConnect(h, g, id) PROVE WorkerInv'
  BY <1>5, CancelConnectStep
<1>6. ASSUME NEW g \in Generations, NEW id \in Ids, CancelQueued(h, g, id) PROVE WorkerInv'
  BY <1>6, CancelQueuedStep
<1>7. ASSUME NEW g \in Generations, NEW kind \in CommandKinds, Submit(h, kind, g) PROVE WorkerInv'
  BY <1>7, SubmitStep
<1>8. ASSUME NEW g \in 0 .. MaxGeneration, NEW revision \in 1 .. MaxRevision, SetSecurity(h, g, revision) PROVE WorkerInv'
  BY <1>8, SetSecurityStep
<1> QED
  BY <1>1, <1>2, <1>3, <1>4, <1>5, <1>6, <1>7, <1>8 DEF HostCalls

\* ... their errands, ...
LEMMA HostRunsStep ==
  ASSUME WorkerInv, NEW h \in Hosts, HostRuns(h)
  PROVE  WorkerInv'
BY HostAuthStep, HostRequestStep, HostWakeStep, HostDeliverStep, HostNotifyStep DEF HostRuns

\* ... the worker's own steps, ...
LEMMA WorkerRunsStep ==
  ASSUME WorkerInv, WorkerRuns
  PROVE  WorkerInv'
<1>1. CASE WaitForAttempt \/ PrepareAttempt \/ Start \/ Started
  BY <1>1, WaitForAttemptStep, PrepareAttemptStep, StartStep, StartedStep
<1>2. CASE ConnectFails("Cancelled") \/ StartCheck \/ LoopHead \/ Dispatch(FALSE) \/ Message(FALSE) \/ Flush
  BY <1>2, MoveSteps
<1>3. CASE Dequeue
  BY <1>3, DrainEnds, CommandTaken
<1>4. CASE ExecuteOk
  BY <1>4, CommandSucceeds, LayoutRequested
<1>5. CASE ExecuteRefused
  BY <1>5, ExecuteRefusedStep
<1>6. CASE PromptInterrupted
  BY <1>6, ThrowSteps
<1>7. CASE ConnectBoundary
  BY <1>7, ConnectConfirmed, BoundaryPassed
<1>8. CASE WaitWoken \/ TerminalBoundary \/ CloseProtocol \/ CancelControl \/ JoinObserver \/ Exit
  BY <1>8, WaitWokenStep, TerminalBoundaryStep, CloseProtocolStep, CancelControlStep, JoinObserverStep, ExitStep
<1>9. CASE PublishDisconnecting
  BY <1>9, DisconnectingPublished, DisconnectingOverflows DEF PublishDisconnecting
<1>10. CASE Retire
  BY <1>10, RetirePublished, RetireOverflows DEF Retire
<1> QED
  BY <1>1, <1>2, <1>3, <1>4, <1>5, <1>6, <1>7, <1>8, <1>9, <1>10 DEF WorkerRuns

\* ... those the network, the user and the clock cause, ...
LEMMA EnvironmentStep ==
  ASSUME WorkerInv, Environment
  PROVE  WorkerInv'
<1>1. CASE ConnectPhase \/ ConnectReturns \/ MessageConnects \/ SetupOverflows \/ Dispatch(TRUE)
  BY <1>1, ConnectPhaseStep, ConnectReturnsStep, MessageConnectsStep, SetupOverflowsStep, ResizeTimesOut
<1>2. CASE ConnectFails("Failure") \/ Message(TRUE) \/ PromptAnswered \/ TransportThrows
  BY <1>2, MoveSteps
<1>3. CASE \E fin \in BOOLEAN : WaitReturns(fin)
  BY <1>3, MoveSteps
<1>4. CASE ExecuteThrows \/ PromptTimesOut \/ PublishOverflows
  BY <1>4, ThrowSteps
<1>5. CASE \E code \in {"PeerClosed", "Failure"} : MessageThrows(code)
  BY <1>5, ThrowSteps
<1>6. CASE MessagePrompts
  BY <1>6, ThrowSteps, MessageAsks
<1>7. CASE \E r \in {"Succeeded", "Failed"} : MessageResizes(r)
  BY <1>7, MessageResizesStep
<1>8. CASE \E failed \in BOOLEAN : ObserverSees(failed)
  BY <1>8, ObserverSeesStep
<1> QED
  BY <1>1, <1>2, <1>3, <1>4, <1>5, <1>6, <1>7, <1>8 DEF Environment

\* ... and steps of others.
LEMMA StutterStep ==
  ASSUME WorkerInv, UNCHANGED vars
  PROVE  WorkerInv'
<1>0. /\ Types /\ Phases /\ Resources /\ StateKnown /\ QueueKnown /\ OperationsKnown /\ OutcomesKnown
      /\ HostsKnown /\ ControlsKnown /\ Wakes /\ Cancels
  BY WorkerInvFacts
<1>1. UNCHANGED <<gate, events, auth, control, router, pc, worker, watch, host, history>>
  BY DEF vars
<1>2. Types' /\ Phases' /\ Resources' /\ StateKnown' /\ QueueKnown'
  BY <1>0, <1>1 DEF Types, TypeOK, Phases, Resources, StateKnown, QueueKnown, generation, cancelled
<1>3. OperationsKnown' /\ OutcomesKnown' /\ ControlsKnown'
  BY <1>0, <1>1 DEF OperationsKnown, Owned, OutcomesKnown, ControlsKnown, generation, cancelled
<1>4. HostsKnown' /\ Promised
  BY <1>0, <1>1, HostsStay, SignalsStay DEF Keeps, cancelled, ControlStays, generation
<1>5. Wakes' /\ Cancels'
  BY <1>0, <1>1, <1>4 DEF Wakes, Cancels, Promised, cancelled
<1> QED
  BY <1>2, <1>3, <1>4, <1>5 DEF WorkerInv

\* Any step.
LEMMA WorkerStep ==
  ASSUME WorkerInv, [Next]_vars
  PROVE  WorkerInv'
<1>1. ASSUME NEW h \in Hosts, HostCalls(h) \/ HostRuns(h) PROVE WorkerInv'
  BY <1>1, HostCallsStep, HostRunsStep
<1>2. CASE ObserverRuns
  BY <1>2, ObserverAuthStep, ObserverWakesStep, ObserverCancelledStep DEF ObserverRuns
<1> QED
  BY <1>1, <1>2, WorkerRunsStep, EnvironmentStep, StutterStep DEF Next

\* The session starts in the invariant.
LEMMA WorkerStart ==
  ASSUME Init
  PROVE  WorkerInv
<1>1. 0 \in 0 .. MaxGeneration /\ 0 \in 0 .. MaxOperation /\ 0 \in 0 .. CommandCapacity /\ 1 \in 1 .. MaxRevision /\ 0 \in Nat
  BY WorkerBounds
<1>2. gate \in Gate
  <2> DEFINE q == <<>>
             z == 0
  <2>1. q \in Seq(Ids) /\ z \in 0 .. MaxGeneration /\ z \in 0 .. MaxOperation /\ NoSlots \in [Exclusive -> 0 .. MaxOperation]
    BY <1>1, NoSlotsFacts
  <2>2. gate = [stopping |-> FALSE, attemptActive |-> FALSE, pendingAttempt |-> FALSE,
                generation |-> z, connectOperation |-> z, disconnectOperation |-> z,
                commandsClosed |-> FALSE, finishing |-> FALSE, cancelled |-> FALSE,
                revision |-> 1, commands |-> q, queued |-> NoSlots]
    BY DEF Init, NoSlots
  <2> HIDE DEF q, z
  <2> QED
    BY <1>1, <2>1, <2>2 DEF Gate
<1>3. /\ gate.stopping = FALSE /\ gate.attemptActive = FALSE /\ gate.pendingAttempt = FALSE /\ gate.generation = 0
      /\ gate.connectOperation = 0 /\ gate.disconnectOperation = 0 /\ gate.commandsClosed = FALSE
      /\ gate.finishing = FALSE /\ gate.cancelled = FALSE /\ gate.commands = <<>> /\ gate.queued = NoSlots
  BY DEF Init, NoSlots
<1>4. events \in Events
  <2> DEFINE o == [kind |-> "none", generation |-> 0, result |-> "none"]
             f == [id \in Ids |-> o]
             z == 0
  <2>1. o \in Operation
    BY <1>1 DEF Operation
  <2> HIDE DEF o
  <2>2. f \in [Ids -> Operation]
    BY <2>1
  <2>3. events = [op |-> f, issued |-> z, sealed |-> FALSE, state |-> "Idle", generation |-> z]
    BY DEF Init, o
  <2> HIDE DEF f, z
  <2>4. z \in 0 .. MaxOperation /\ z \in 0 .. MaxGeneration
    BY <1>1 DEF z
  <2> QED
    BY <2>2, <2>3, <2>4 DEF Events
<1>5. /\ events.issued = 0 /\ events.sealed = FALSE /\ events.state = "Idle" /\ events.generation = 0
      /\ \A id \in Ids : /\ events.op[id].kind = "none" /\ events.op[id].generation = 0
                         /\ events.op[id].result = "none"
  BY DEF Init
<1>6. auth \in Auth /\ auth.accepting = FALSE /\ auth.status = "Cancelled"
  BY <1>1 DEF Init, Auth
<1>7. /\ control \in [Generations -> Control]
      /\ \A g \in Generations : control[g].closing = FALSE /\ control[g].setupCancelled = FALSE
  BY DEF Init, NoControl, Control
<1>8. worker \in Worker
  <2> DEFINE z == 0
  <2>1. worker = [executing |-> z, drained |-> z, progressed |-> FALSE, transport |-> FALSE,
                  ready |-> FALSE, resizeOperation |-> z, resizePending |-> FALSE,
                  unanswered |-> z, result |-> "None"]
    BY DEF Init
  <2>2. z \in 0 .. MaxOperation /\ z \in 0 .. CommandCapacity /\ z \in Nat
    BY <1>1
  <2> HIDE DEF z
  <2> QED
    BY <2>1, <2>2 DEF Worker
<1>9. /\ worker.executing = 0 /\ worker.drained = 0 /\ worker.transport = FALSE /\ worker.ready = FALSE
      /\ worker.resizeOperation = 0 /\ worker.resizePending = FALSE /\ worker.unanswered = 0
  BY DEF Init
<1>10. watch \in Watch /\ watch.observer = "none"
  BY DEF Init, Watch
<1>11. host \in [Hosts -> HostType] /\ \A h \in Hosts : host[h] = Idle
  BY IdleFacts DEF Init
<1>12. history \in HistoryType /\ history.revoked = {} /\ history.executed = {}
  <2> DEFINE z == {}
  <2>1. history = [revoked |-> z, executed |-> z, closed |-> z]
    BY DEF Init
  <2>2. z \in SUBSET Ids /\ z \in SUBSET (0 .. MaxGeneration)
    OBVIOUS
  <2> HIDE DEF z
  <2>3. history \in HistoryType /\ history.revoked = z /\ history.executed = z
    BY <2>1, <2>2 DEF HistoryType
  <2> QED
    BY <2>3 DEF z
<1>13. router = 0 /\ pc = "idle" /\ ToSet(<<>>) = {} /\ Len(<<>>) = 0 /\ 0 <= CommandCapacity
  <2>1. Len(<<>>) = 0
    OBVIOUS
  <2> QED
    BY <2>1, WorkerBounds, ProgramSets DEF Init
<1>14. Types
  BY <1>1, <1>2, <1>3, <1>4, <1>5, <1>6, <1>7, <1>8, <1>10, <1>11, <1>12, <1>13 DEF Types, TypeOK, Places
<1>15. Phases
  BY <1>3, <1>5, <1>13 DEF Phases, Running, Setup, Session, Ending, generation, cancelled
<1>16. Resources
  BY <1>6, <1>9, <1>10, <1>13 DEF Resources, Running, Setup, Session, Ending, Live
<1>17. StateKnown
  BY <1>3, <1>5, <1>13 DEF StateKnown, Running, Setup, Session, Ending, generation
<1>18. QueueKnown
  BY <1>3, <1>9, <1>13, NoSlotsFacts DEF QueueKnown, Distinct
<1>19. OperationsKnown
  BY <1>3, <1>5, <1>9 DEF OperationsKnown, generation
<1>20. OutcomesKnown
  BY <1>5, <1>12 DEF OutcomesKnown
<1>21. HostsKnown
  <2> SUFFICES ASSUME NEW h \in Hosts PROVE HostKnown(h)
    BY DEF HostsKnown
  <2>1. /\ host[h] = Idle /\ host[h].then = <<>> /\ ToSet(host[h].then) = {} /\ host[h].scope = 0 /\ host[h].gen = 0
        /\ host[h].how = "wake"
    BY <1>11, IdleFacts, ProgramSets
  <2> QED
    BY <1>3, <2>1 DEF HostKnown, Enroute, generation
<1>22. ControlsKnown
  BY <1>3, <1>7, <1>13 DEF ControlsKnown, Session, generation
<1>23. Wakes
  BY <1>9, <1>13 DEF Wakes, Waking
<1>24. Cancels
  BY <1>3, <1>13 DEF Cancels, cancelled
<1> QED
  BY <1>14, <1>15, <1>16, <1>17, <1>18, <1>19, <1>20, <1>21, <1>22, <1>23, <1>24 DEF WorkerInv

\* The inductive invariant holds in every state of the session: it ties the gate under
\* commandMutex to the worker's place, its resources, the ledger and the hosts' errands.
THEOREM WorkerInvariant == Spec => []WorkerInv
BY WorkerStart, WorkerStep, PTL DEF Spec

\* The state stays in its types (createSession() and everything it owns).
THEOREM WorkerTyped == Spec => []TypeOK
<1>1. WorkerInv => TypeOK
  BY DEF WorkerInv, Types
<1> QED
  BY <1>1, WorkerInvariant, PTL

----------------------------------------------------------------------------
(* The properties *)

\* Between attempts no operation is pending, no command queued, no thread, transport or
\* prompt alive: what connect() may rely on once attemptActive is false (run()).
THEOREM IdleSettles == Spec => []IdleIsSettled
<1>1. ASSUME WorkerInv PROVE IdleIsSettled
  <2> SUFFICES ASSUME ~gate.attemptActive PROVE IdleIsSettled
    BY DEF IdleIsSettled
  <2>0. /\ Types /\ Phases /\ Resources /\ QueueKnown /\ OperationsKnown /\ gate \in Gate /\ worker \in Worker
    BY <1>1, WorkerInvFacts
  <2>1. gate.attemptActive = FALSE
    BY <2>0, GateFields
  <2>2. pc \notin Running
    BY <2>0, <2>1 DEF Phases
  <2>3. /\ pc # "execute" /\ pc \notin Live /\ pc \notin Session \cup {"finish"}
        /\ pc \notin {"starting", "start", "started", "cancelling", "joining"}
    BY <2>2 DEF Running, Setup, Session, Ending, Live
  <2>4. /\ worker.executing = 0 /\ worker.resizeOperation = 0 /\ watch.observer = "none" /\ router = 0
    BY <2>0, <2>2, <2>3 DEF Resources
  <2>5. ~worker.transport /\ ~auth.accepting
    BY <2>0, <2>3, WorkerFields, SideFields DEF Resources
  <2>6. gate.commands = <<>> /\ ToSet(gate.commands) = {}
    BY <2>0, <2>3, ProgramSets DEF QueueKnown
  <2>7. gate.connectOperation = 0 /\ gate.disconnectOperation = 0
    BY <2>0, <2>1 DEF OperationsKnown
  <2>8. Owned = {0}
    BY <2>4, <2>6, <2>7 DEF Owned
  <2>9. Pending(events) = {}
    BY <2>0, <2>8, OwnedIds DEF Pending, OperationsKnown
  <2> QED
    BY <2>4, <2>5, <2>6, <2>9 DEF IdleIsSettled
<1> QED
  BY <1>1, WorkerInvariant, PTL

\* A disconnect that succeeded finds the transport, the observer and the protocol of its
\* attempt gone (runAttempt(), the completions in run()).
THEOREM DisconnectDrains == Spec => []DisconnectMeansDrained
<1>1. ASSUME WorkerInv PROVE DisconnectMeansDrained
  <2>0. /\ Types /\ Phases /\ Resources /\ OutcomesKnown /\ worker \in Worker
    BY <1>1, WorkerInvFacts
  <2>1. gate.attemptActive = FALSE => pc \notin Live \cup {"starting", "start", "started", "cancelling", "joining"}
    BY <2>0 DEF Phases, Running, Setup, Session, Ending, Live
  <2>2. gate.attemptActive = FALSE => ~worker.transport /\ watch.observer = "none" /\ ~worker.ready
    BY <2>0, <2>1, WorkerFields DEF Resources
  <2> QED
    BY <2>0, <2>2 DEF DisconnectMeansDrained, OutcomesKnown
<1> QED
  BY <1>1, WorkerInvariant, PTL

\* A host that sees a terminal state of the current attempt can connect again: no
\* transient Busy (the last critical section of run()).
THEOREM TerminalRetries == Spec => []TerminalMeansRetry
<1>1. ASSUME WorkerInv PROVE TerminalMeansRetry
  <2> SUFFICES ASSUME events.state \in {"Closed", "Failed"}, ~events.sealed, events.generation = generation
               PROVE  ~gate.attemptActive
    BY DEF TerminalMeansRetry
  <2>0. /\ Phases /\ StateKnown /\ gate \in Gate /\ events \in Events
    BY <1>1, WorkerInvFacts
  <2>1. events.sealed = FALSE /\ generation \in 0 .. MaxGeneration /\ gate.attemptActive \in BOOLEAN
    BY <2>0, EventsFields, GateFields DEF generation
  <2>2. ~(events.generation < generation)
    BY <2>1
  <2>3. gate.pendingAttempt # TRUE /\ pc # "prepare" /\ pc \notin Running \ {"prepare"}
    BY <2>0, <2>1, <2>2 DEF StateKnown
  <2>4. gate.attemptActive # TRUE
    BY <2>0, <2>3 DEF Phases
  <2> QED
    BY <2>1, <2>4
<1> QED
  BY <1>1, WorkerInvariant, PTL

\* An accepted cancellation always reaches the place where its own attempt waits, and
\* never another attempt (cancel(), disconnect(), requestClose(), cancelAttempt(), observe()).
THEOREM CancellationArrives == Spec => []CancelHitsItsAttempt
<1>1. ASSUME WorkerInv PROVE CancelHitsItsAttempt
  <2>0. /\ Types /\ Phases /\ ControlsKnown /\ Cancels /\ gate \in Gate /\ control \in [Generations -> Control]
    BY <1>1, WorkerInvFacts
  <2>1. gate.cancelled \in BOOLEAN /\ gate.finishing \in BOOLEAN /\ generation \in 0 .. MaxGeneration
    BY <2>0, GateFields DEF generation
  <2>2. CancelNeverLost
    <3> SUFFICES ASSUME cancelled = TRUE PROVE CancelNeverLost
      BY <2>1 DEF CancelNeverLost, cancelled
    <3>1. pc = "prompt" => auth.status # "Waiting" \/ \E h \in Hosts : Enroute(h, "auth") /\ InScope(host[h].scope)
      BY <2>0 DEF Cancels, PromptTold
    <3>2. pc = "connecting" => control[generation].setupCancelled \/ \E h \in Hosts : Signalling(h, "setup")
      BY <2>0 DEF Cancels, SetupTold
    <3>3. pc = "wait" => control[generation].woken \/ \E h \in Hosts : Signalling(h, "transport")
      BY <2>0 DEF Cancels, WaitTold
    <3> QED
      BY <3>1, <3>2, <3>3 DEF CancelNeverLost
  <2>3. \A g \in Generations : control[g].closing => g \in history.closed
    BY <2>0, ControlFields DEF ControlsKnown
  <2>4. ~gate.finishing /\ generation > 0 => (control[generation].setupCancelled => generation \in history.closed)
    <3> SUFFICES ASSUME ~gate.finishing, generation > 0, control[generation].setupCancelled PROVE generation \in history.closed
      OBVIOUS
    <3>1. gate.finishing = FALSE /\ generation >= 1 /\ generation \in Generations
      BY <2>1 DEF Generations
    <3>2. control[generation].setupCancelled = TRUE
      BY <2>0, <3>1, ControlFields
    <3> QED
      BY <2>0, <3>1, <3>2 DEF ControlsKnown
  <2>5. pc = "prompt" => /\ auth.status = "Cancelled" => cancelled
                         /\ auth.status = "PeerClosed" => watch.peerClosed \/ watch.failed
    BY <2>0 DEF Cancels
  <2> QED
    BY <2>2, <2>3, <2>4, <2>5 DEF CancelHitsItsAttempt, NoStrayCancellation
<1> QED
  BY <1>1, WorkerInvariant, PTL

\* A connect whose cancellation was confirmed never succeeds (cancelCommand() and the
\* boundary in runAttempt()).
THEOREM ConfirmedCancels == Spec => []ConfirmedCancelHolds
<1>1. WorkerInv => ConfirmedCancelHolds
  BY WorkerInvFacts DEF ConfirmedCancelHolds, OutcomesKnown
<1> QED
  BY <1>1, WorkerInvariant, PTL

\* A command reported Cancelled was never handed to the protocol, a layout request
\* excepted (drainCommands(), finishQueued(), cancelCommand()).
THEOREM CancelledUnexecuted == Spec => []CancelledNeverRan
<1>1. WorkerInv => CancelledNeverRan
  BY WorkerInvFacts DEF CancelledNeverRan, OutcomesKnown
<1> QED
  BY <1>1, WorkerInvariant, PTL

\* An exclusive slot is held by a queued or executing command, and at most one layout
\* request is on the wire (submit(), SlotReleased, requestDesktopLayout()).
THEOREM SlotsKept == Spec => []SlotsAccounted
<1>1. ASSUME WorkerInv PROVE SlotsAccounted
  <2>0. Resources /\ QueueKnown
    BY <1>1, WorkerInvFacts
  <2>1. OneRequestOnWire
    BY <2>0 DEF Resources, OneRequestOnWire
  <2>2. SlotsNotLeaked
    BY <2>0 DEF QueueKnown, SlotsNotLeaked
  <2> QED
    BY <2>1, <2>2 DEF SlotsAccounted
<1> QED
  BY <1>1, WorkerInvariant, PTL

\* No queued command, admitted connect, close or overflow is slept through: a wake-up or
\* a notification is under way (submit(), wake(), the condition variable of run()).
THEOREM WorkReached == Spec => []WorkNotStranded
<1>1. ASSUME WorkerInv PROVE WorkNotStranded
  <2>0. Wakes /\ gate \in Gate /\ events \in Events
    BY <1>1, WorkerInvFacts
  <2>1. CommandsNotStranded
    <3>1. pc = "wait" /\ gate.commands # <<>> => Covered
      BY <2>0 DEF Wakes, Waking
    <3> QED
      BY <3>1 DEF CommandsNotStranded, Covered, WaitTold
  <2>2. NotifyNotLost
    BY <2>0, GateFields, EventsFields DEF Wakes, NotifyNotLost, Wakeable, Notified
  <2> QED
    BY <2>1, <2>2 DEF WorkNotStranded
<1> QED
  BY <1>1, WorkerInvariant, PTL
=============================================================================

--------------------------- MODULE SessionEvents ---------------------------
(***************************************************************************)
(* The bounded event stream of a viewer session (SessionEvents.cxx).       *)
(*                                                                         *)
(* Every method runs under the queue's mutex, so each one is an atomic     *)
(* action.  What is not atomic is the readiness signal: a producer arms a  *)
(* MailboxNotification under the mutex and fires it only after unlocking.  *)
(*                                                                         *)
(* The vector of queued events is the set of its records: push_back always *)
(* stamps ++sequence, so vector order is stamp order, and the front of the *)
(* vector is the record with the least stamp.  The vector of reservations  *)
(* is likewise ordered by the operation id.  Payloads other than the       *)
(* generation (counters, layout, origin, results) are left out.            *)
(*                                                                         *)
(* Abstraction of the returned value: a call that is refused and changes   *)
(* nothing is a stuttering step.                                           *)
(***************************************************************************)
EXTENDS Integers, FiniteSets

CONSTANTS
  Capacity,       \* slots shared by queued events and reserved completions
  MaxSequence,    \* largest event stamp (2^64 - 1 in the code)
  MaxOperationId, \* largest operation id (2^64 - 1 in the code)
  MaxGeneration,  \* bound on the connection attempts the owner starts
  MaxNotifiers    \* bound on the producers between unlock and wake()

ASSUME CapacityAssumption == Capacity \in Nat /\ Capacity >= 2
ASSUME SequenceAssumption == MaxSequence \in Nat /\ MaxSequence > Capacity + 2
ASSUME BoundAssumption ==
  /\ MaxOperationId \in Nat /\ MaxGeneration \in Nat \ {0}
  /\ MaxNotifiers \in Nat \ {0}

VARIABLES
  generation,      \* current.generation
  events,          \* queued events
  operations,      \* reserved completions that are not yet queued
  sequence,        \* stamp of the last event created
  operationId,     \* id of the last reservation
  stopped,         \* sealed or overflowed
  overflowPending, \* the out-of-band Overflow event waits for the consumer
  overflowStamp,   \* overflowEvent.sequence, 0 before an overflow
  attached,        \* a live wakeup target is installed
  notifying,       \* producers that armed a notification and have unlocked
  signalled,       \* the dispatcher's coalesced readiness bit
  draining,        \* the consumer is inside its take() loop
  answered,        \* history: operations whose completion was delivered
  lastTaken,       \* history: stamp of the last delivered event
  ended            \* history: the Overflow event was delivered

queue == <<generation, events, operations, sequence, operationId, stopped,
           overflowPending, overflowStamp>>
wakeup == <<attached, notifying, signalled, draining>>
history == <<answered, lastTaken, ended>>
vars == <<queue, wakeup, history>>

Generations == 1 .. MaxGeneration
OperationIds == 1 .. MaxOperationId
\* State, Desktop and Bell events are all reliable and are treated alike.
Published == {"State", "Statistics"}
Event == [kind : Published \cup {"Snapshot", "Completion"}, stamp : Nat,
          generation : Nat, operation : Nat]
Operation == [id : Nat, generation : Nat]

----------------------------------------------------------------------------
(* Helpers of SessionEvents::Impl *)

\* The n-th stamp after the current one, in the width of the counter.
Stamp(n) == (sequence + n) % (MaxSequence + 1)

\* room(): pending completions count as if they were already queued.
HasRoom(evs, ops) == Cardinality(evs) + Cardinality(ops) < Capacity

\* Mutant: no stamps are kept back for reserved completions and the fault.
SequenceExhausted_NoReserve == sequence >= MaxSequence

\* sequenceExhausted(): keep stamps for all reserved completions and the fault.
SequenceExhausted == sequence >= MaxSequence - Capacity - 1

\* Mutant: making room drops reliable events too.
WithoutStatistics_DropsAll(evs) == {e \in evs : e.kind = "Completion"}

\* removeStatistics(): statistics are the only replaceable events.
WithoutStatistics(evs) == {e \in evs : e.kind # "Statistics"}

\* Reclaim statistics only when there is no other room.
Reclaimed(evs) ==
  IF HasRoom(evs, operations) THEN evs ELSE WithoutStatistics(evs)

\* Position of a reservation in the vector (reservations are in id order).
Rank(o) == Cardinality({p \in operations : p.id <= o.id})

Completion(o, n) == [kind |-> "Completion", stamp |-> Stamp(n),
                     generation |-> o.generation, operation |-> o.id]

\* Mutant: the reservations are cleared without their completions.
Finished_Forgotten(evs) == evs

\* finishOperations(): one completion for each reservation, in order.
Finished(evs) == evs \cup {Completion(o, Rank(o)) : o \in operations}

\* MailboxNotification: armed under the lock when a target is attached.
Notify == notifying' = IF attached THEN notifying + 1 ELSE notifying
CanNotify == notifying < MaxNotifiers

\* overflow(): fail every reservation, then raise the out-of-band fault.
Overflow(evs) ==
  /\ stopped' = TRUE
  /\ events' = Finished(evs)
  /\ operations' = {}
  /\ sequence' = Stamp(Cardinality(operations) + 1)
  /\ overflowStamp' = Stamp(Cardinality(operations) + 1)
  /\ overflowPending' = TRUE
  /\ UNCHANGED operationId
  /\ Notify

----------------------------------------------------------------------------
(* Reservations: reserve() and reserveAttempt() *)

\* The shared tail of both: room permitting, hand out the next id.
Admit(g) ==
  \/ /\ SequenceExhausted
     /\ Overflow(events)
  \/ /\ ~SequenceExhausted
     /\ events' = Reclaimed(events)
     /\ IF HasRoom(Reclaimed(events), operations)
        THEN /\ operationId' = operationId + 1
             /\ operations' = operations \cup
                              {[id |-> operationId + 1, generation |-> g]}
        ELSE UNCHANGED <<operationId, operations>>
     /\ UNCHANGED <<sequence, stopped, overflowPending, overflowStamp, notifying>>

\* A reservation for the current generation, or for the one prepared by
\* ReserveAttempt; never while an operation of another generation is pending.
ReserveAllowed(g) ==
  /\ ~stopped
  /\ g = generation \/ (g > generation /\ operations # {})
  /\ \A o \in operations : o.generation = g
  /\ operationId < MaxOperationId

Reserve(g) ==
  /\ CanNotify
  /\ ReserveAllowed(g)
  /\ Admit(g)
  /\ UNCHANGED <<generation, attached, signalled, draining, history>>

ReserveAttemptAllowed(g) ==
  /\ ~stopped
  /\ g > generation
  /\ operations = {}
  /\ operationId < MaxOperationId

ReserveAttempt(g) ==
  /\ CanNotify
  /\ ReserveAttemptAllowed(g)
  /\ Admit(g)
  /\ UNCHANGED <<generation, attached, signalled, draining, history>>

----------------------------------------------------------------------------
(* Completions *)

\* complete(): spends the reservation's slot on the completion event.
Complete(o) ==
  /\ CanNotify
  /\ o \in operations
  /\ events' = events \cup {Completion(o, 1)}
  /\ sequence' = Stamp(1)
  /\ operations' = operations \ {o}
  /\ Notify
  /\ UNCHANGED <<generation, operationId, stopped, overflowPending,
                 overflowStamp, attached, signalled, draining, history>>

\* Mutant: the emptied vector is tested after finishOperations().
CancelPending_Silent ==
  /\ CanNotify
  /\ operations # {}
  /\ events' = Finished(events)
  /\ sequence' = Stamp(Cardinality(operations))
  /\ operations' = {}
  /\ UNCHANGED <<generation, operationId, stopped, overflowPending,
                 overflowStamp, wakeup, history>>

\* cancelPending(): no early return for a stopped stream.
CancelPending ==
  /\ CanNotify
  /\ operations # {}
  /\ events' = Finished(events)
  /\ sequence' = Stamp(Cardinality(operations))
  /\ operations' = {}
  /\ Notify
  /\ UNCHANGED <<generation, operationId, stopped, overflowPending,
                 overflowStamp, attached, signalled, draining, history>>

\* seal(): answer what is pending and accept nothing more.
Seal ==
  /\ CanNotify
  /\ ~stopped
  /\ events' = Finished(events)
  /\ sequence' = Stamp(Cardinality(operations))
  /\ operations' = {}
  /\ stopped' = TRUE
  /\ Notify
  /\ UNCHANGED <<generation, operationId, overflowPending, overflowStamp,
                 attached, signalled, draining, history>>

----------------------------------------------------------------------------
(* publish(): a stale generation is refused; advancing the generation over *)
(* an operation of another one throws and changes nothing.                 *)

PublishAllowed(g) ==
  /\ ~stopped
  /\ g >= generation

\* The queue as publish() leaves it before it looks for room.
Compacted(kind) ==
  IF kind = "Statistics" THEN WithoutStatistics(events) ELSE Reclaimed(events)

PublishExhausted(g) ==
  /\ SequenceExhausted
  /\ Overflow(events)
  /\ UNCHANGED generation

PublishQueued(kind, g) ==
  /\ HasRoom(Compacted(kind), operations)
  /\ events' = Compacted(kind) \cup
       {[kind |-> kind, stamp |-> Stamp(1), generation |-> g, operation |-> 0]}
  /\ sequence' = Stamp(1)
  /\ Notify
  /\ UNCHANGED <<operations, operationId, stopped, overflowPending, overflowStamp>>

\* A full queue keeps the latest counters in the snapshot only.
PublishDroppedStatistics(kind) ==
  /\ ~HasRoom(Compacted(kind), operations)
  /\ kind = "Statistics"
  /\ events' = Compacted(kind)
  /\ Notify
  /\ UNCHANGED <<operations, sequence, operationId, stopped, overflowPending,
                 overflowStamp>>

PublishOverflow(kind) ==
  /\ ~HasRoom(Compacted(kind), operations)
  /\ kind # "Statistics"
  /\ Overflow(Compacted(kind))

Publish(kind, g) ==
  /\ CanNotify
  /\ PublishAllowed(g)
  /\ \/ PublishExhausted(g)
     \/ /\ ~SequenceExhausted
        /\ g > generation => \A o \in operations : o.generation = g
        /\ generation' = g
        /\ \/ PublishQueued(kind, g)
           \/ PublishDroppedStatistics(kind)
           \/ PublishOverflow(kind)
  /\ UNCHANGED <<attached, signalled, draining, history>>

----------------------------------------------------------------------------
(* The consumer and its readiness signal *)

\* setWakeup(): installing a target signals an initial check.
SetWakeup ==
  /\ CanNotify
  /\ ~attached
  /\ attached' = TRUE
  /\ notifying' = notifying + 1
  /\ UNCHANGED <<queue, signalled, draining, history>>

\* ~MailboxNotification, after the mutex was released; readiness coalesces.
Signal ==
  /\ notifying > 0
  /\ notifying' = notifying - 1
  /\ signalled' = TRUE
  /\ UNCHANGED <<queue, attached, draining, history>>

\* The dispatcher clears the bit before it calls the consumer.
StartDrain ==
  /\ signalled
  /\ ~draining
  /\ signalled' = FALSE
  /\ draining' = TRUE
  /\ UNCHANGED <<queue, attached, notifying, history>>

Front == CHOOSE e \in events : \A f \in events : e.stamp <= f.stamp

\* take(), from the queue.
Take ==
  /\ draining
  /\ events # {}
  /\ events' = events \ {Front}
  /\ lastTaken' = Front.stamp
  /\ answered' = IF Front.kind = "Completion"
                 THEN answered \cup {Front.operation} ELSE answered
  /\ UNCHANGED <<generation, operations, sequence, operationId, stopped,
                 overflowPending, overflowStamp, wakeup, ended>>

\* Mutant: the fault overtakes queued events.
TakeOverflow_First ==
  /\ draining
  /\ overflowPending
  /\ overflowPending' = FALSE
  /\ lastTaken' = overflowStamp
  /\ ended' = TRUE
  /\ UNCHANGED <<generation, events, operations, sequence, operationId, stopped,
                 overflowStamp, wakeup, answered>>

\* take(), the out-of-band fault, only behind every queued event.
TakeOverflow ==
  /\ draining
  /\ events = {}
  /\ overflowPending
  /\ overflowPending' = FALSE
  /\ lastTaken' = overflowStamp
  /\ ended' = TRUE
  /\ UNCHANGED <<generation, events, operations, sequence, operationId, stopped,
                 overflowStamp, wakeup, answered>>

\* take() returned false: the consumer's loop ends until the next wake.
EndDrain ==
  /\ draining
  /\ events = {}
  /\ ~overflowPending
  /\ draining' = FALSE
  /\ UNCHANGED <<queue, attached, notifying, signalled, history>>

----------------------------------------------------------------------------
\* The constructor queues the initial Snapshot.
Init ==
  /\ generation = 1
  /\ events = {[kind |-> "Snapshot", stamp |-> 1, generation |-> 1, operation |-> 0]}
  /\ operations = {}
  /\ sequence = 1
  /\ operationId = 0
  /\ stopped = FALSE
  /\ overflowPending = FALSE
  /\ overflowStamp = 0
  /\ attached = FALSE
  /\ notifying = 0
  /\ signalled = FALSE
  /\ draining = FALSE
  /\ answered = {}
  /\ lastTaken = 0
  /\ ended = FALSE

Producer ==
  \/ \E g \in Generations : Reserve(g) \/ ReserveAttempt(g)
  \/ \E o \in operations : Complete(o)
  \/ CancelPending
  \/ Seal
  \/ \E kind \in Published, g \in Generations : Publish(kind, g)

Consumer == StartDrain \/ Take \/ TakeOverflow \/ EndDrain

Next == Producer \/ SetWakeup \/ Signal \/ Consumer

Spec == Init /\ [][Next]_vars

\* A notifying thread is on its way out of a method; the consumer's loop runs.
Fairness == WF_vars(Signal) /\ WF_vars(Consumer)
FairSpec == Spec /\ Fairness

----------------------------------------------------------------------------
(* Properties *)

\* Types of the queue, the readiness state and the histories.
TypeOK ==
  /\ generation \in Nat
  /\ events \in SUBSET Event /\ IsFiniteSet(events)
  /\ operations \in SUBSET Operation /\ IsFiniteSet(operations)
  /\ sequence \in 0 .. MaxSequence
  /\ operationId \in 0 .. MaxOperationId
  /\ stopped \in BOOLEAN /\ overflowPending \in BOOLEAN
  /\ overflowStamp \in 0 .. MaxSequence
  /\ attached \in BOOLEAN /\ signalled \in BOOLEAN /\ draining \in BOOLEAN
  /\ notifying \in 0 .. MaxNotifiers
  /\ answered \in SUBSET Nat
  /\ lastTaken \in 0 .. MaxSequence
  /\ ended \in BOOLEAN

\* The preallocated storage is never outgrown, also when an overflow or a seal
\* turns every reservation into an event (room() and reserve()).
CapacityHeld == Cardinality(events) + Cardinality(operations) <= Capacity

\* No stamp is ever reused or wraps: what is queued is newer than what was
\* delivered, and the terminal fault is newer than everything (append(),
\* sequenceExhausted() and overflow()).
StampsAdvance ==
  /\ \A e \in events : lastTaken < e.stamp /\ e.stamp <= sequence
  /\ \A e, f \in events : e.stamp = f.stamp => e = f
  /\ overflowPending => \A e \in events : e.stamp < overflowStamp
  /\ lastTaken <= sequence

Pending == {o.id : o \in operations}
Queued == {e.operation : e \in {f \in events : f.kind = "Completion"}}

\* A nonzero id owes exactly one completion: every id handed out is pending,
\* queued or delivered, and never two of these, nor any of them twice; overflow,
\* seal and cancelPending included (reserve(), complete(), finishOperations()).
ExactlyOneCompletion ==
  /\ \A o, p \in operations : o.id = p.id => o = p
  /\ 1 .. operationId = Pending \cup Queued \cup answered
  /\ Pending \cap Queued = {} /\ Pending \cap answered = {}
  /\ Queued \cap answered = {}
  /\ \A e, f \in events :
       e.kind = "Completion" /\ f.kind = "Completion" /\ e.operation = f.operation
         => e = f

\* Operations of different generations are never pending together, and none is
\* left behind in a generation the stream has already passed (reserve(),
\* reserveAttempt() and the throw in publish()).
OneGenerationPending ==
  /\ \A o, p \in operations : o.generation = p.generation
  /\ \A o \in operations : o.generation >= generation

\* A stopped stream owes nothing, and the Overflow event is the last one the
\* consumer sees (overflow(), take()).
TerminalIsLast ==
  /\ stopped => operations = {}
  /\ overflowPending => stopped /\ ~ended
  /\ ended => stopped /\ events = {} /\ ~overflowPending

\* A wake-up is never lost: whenever something waits for an attached consumer,
\* it is reading, its readiness bit is set, or a producer is about to set it.
NoLostWakeup ==
  attached /\ (events # {} \/ overflowPending)
    => draining \/ signalled \/ notifying > 0

\* Only statistics are replaceable: another event leaves the queue only when
\* the consumer takes it, oldest first (removeStatistics(), publish()).
ReliableKept ==
  [][\A e \in events :
       e \notin events' => \/ e.kind = "Statistics"
                           \/ e = Front /\ lastTaken' = e.stamp]_vars

Phase == IF ended THEN "faulted" ELSE IF stopped THEN "closed" ELSE "open"

Ledger == INSTANCE OperationLedger WITH
  issued <- operationId, owed <- Pending, due <- Queued, listening <- attached, phase <- Phase

\* The stream implements the ledger: whatever compaction, overflow, seal and the signal that
\* is sent after the unlock do, the host is told of each admitted operation once, before the
\* fault if there is one, and with a consumer attached of each completion sooner or later.
ImplementsLedger == Ledger!FairSpec
============================================================================

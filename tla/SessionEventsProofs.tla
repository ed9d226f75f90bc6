------------------------ MODULE SessionEventsProofs ------------------------
(***************************************************************************)
(* Proofs about SessionEvents for every capacity, counter width, number of *)
(* generations and number of notifying producers.                          *)
(***************************************************************************)
EXTENDS SessionEvents, FiniteSetTheorems, WellFoundedInduction, TLAPS

USE CapacityAssumption, SequenceAssumption, BoundAssumption

----------------------------------------------------------------------------
(* The operators the model is built from *)

\* A stamp is a number of the counter's width, and it is the next number of
\* the stream whenever the counter has not run out (Impl::append).
LEMMA StampValue ==
  ASSUME NEW n \in Nat, sequence \in 0 .. MaxSequence
  PROVE  /\ Stamp(n) \in 0 .. MaxSequence
         /\ sequence + n <= MaxSequence => Stamp(n) = sequence + n
<1> DEFINE M == MaxSequence + 1
            x == sequence + n
<1>1. M \in Nat \ {0} /\ x \in Nat
  OBVIOUS
<1>2. x % M \in 0 .. M - 1
  BY <1>1
<1>3. x < M => x % M = x
  BY <1>1
<1> QED
  BY <1>1, <1>2, <1>3 DEF Stamp

\* Two finite sets together have at most as many elements as both.
LEMMA UnionBound ==
  ASSUME NEW S, NEW T, IsFiniteSet(S), IsFiniteSet(T)
  PROVE  /\ IsFiniteSet(S \cup T)
         /\ Cardinality(S \cup T) \in Nat
         /\ Cardinality(S) \in Nat /\ Cardinality(T) \in Nat
         /\ Cardinality(S \cup T) <= Cardinality(S) + Cardinality(T)
<1>1. IsFiniteSet(S \cap T)
  BY FS_Subset
<1>2. IsFiniteSet(S \cup T)
      /\ Cardinality(S \cup T) = Cardinality(S) + Cardinality(T) - Cardinality(S \cap T)
  BY FS_Union
<1>3. Cardinality(S) \in Nat /\ Cardinality(T) \in Nat /\ Cardinality(S \cap T) \in Nat
      /\ Cardinality(S \cup T) \in Nat
  BY <1>1, <1>2, FS_CardinalityType
<1> QED
  BY <1>2, <1>3

\* One more element is at most one more.
LEMMA AddBound ==
  ASSUME NEW S, NEW x, IsFiniteSet(S)
  PROVE  /\ Cardinality(S) \in Nat
         /\ Cardinality(S \cup {x}) \in Nat
         /\ Cardinality(S \cup {x}) <= Cardinality(S) + 1
<1>1. Cardinality(S) \in Nat
  BY FS_CardinalityType
<1>2. Cardinality(S \cup {x}) = IF x \in S THEN Cardinality(S) ELSE Cardinality(S) + 1
  BY FS_AddElement
<1> QED
  BY <1>1, <1>2

\* A reservation has a position in the vector, at most its length.
LEMMA RankType ==
  ASSUME IsFiniteSet(operations), NEW o \in operations
  PROVE  Rank(o) \in Nat /\ Rank(o) <= Cardinality(operations)
<1> DEFINE S == {p \in operations : p.id <= o.id}
<1>1. S \subseteq operations
  OBVIOUS
<1>2. IsFiniteSet(S) /\ Cardinality(S) <= Cardinality(operations)
  BY <1>1, FS_Subset
<1> QED
  BY <1>2, FS_CardinalityType DEF Rank

\* Turning every reservation into an event needs no more slots than the
\* reservations had (Impl::finishOperations).
LEMMA FinishedFacts ==
  ASSUME TypeOK, NEW evs \in SUBSET Event, IsFiniteSet(evs)
  PROVE  /\ Finished(evs) \in SUBSET Event
         /\ IsFiniteSet(Finished(evs))
         /\ Cardinality(Finished(evs)) <= Cardinality(evs) + Cardinality(operations)
<1> DEFINE C == {Completion(o, Rank(o)) : o \in operations}
<1>0. IsFiniteSet(operations) /\ operations \subseteq Operation /\ sequence \in 0 .. MaxSequence
  BY DEF TypeOK
<1>1. ASSUME NEW o \in operations
      PROVE  Completion(o, Rank(o)) \in Event
  <2>1. Rank(o) \in Nat
    BY <1>0, RankType
  <2>2. Stamp(Rank(o)) \in Nat
    BY <2>1, <1>0, StampValue
  <2> QED
    BY <2>2, <1>0 DEF Completion, Event, Operation
<1>2. IsFiniteSet(C) /\ Cardinality(C) <= Cardinality(operations)
  <2> DEFINE f == [o \in operations |-> Completion(o, Rank(o))]
  <2>1. f \in Surjection(operations, C)
    BY DEF Surjection
  <2> QED
    BY <2>1, <1>0, FS_Surjection
<1> HIDE DEF C
<1>3. /\ IsFiniteSet(evs \cup C)
      /\ Cardinality(evs \cup C) <= Cardinality(evs) + Cardinality(C)
      /\ Cardinality(evs) \in Nat /\ Cardinality(C) \in Nat
      /\ Cardinality(evs \cup C) \in Nat
  BY <1>2, UnionBound
<1>4. Cardinality(operations) \in Nat
  BY <1>0, FS_CardinalityType
<1>5. Finished(evs) = evs \cup C
  BY DEF Finished, C
<1>6. C \subseteq Event
  BY <1>1 DEF C
<1> QED
  BY <1>2, <1>3, <1>4, <1>5, <1>6

\* Dropping replaceable events keeps a finite set of events, no larger.
LEMMA CompactedFacts ==
  ASSUME TypeOK, NEW kind \in Published
  PROVE  \A S \in {Reclaimed(events), Compacted(kind)} :
           /\ S \subseteq events
           /\ S \in SUBSET Event
           /\ IsFiniteSet(S)
           /\ Cardinality(S) \in Nat
           /\ Cardinality(S) <= Cardinality(events)
<1>1. TAKE S \in {Reclaimed(events), Compacted(kind)}
<1>2. S \subseteq events
  BY DEF Reclaimed, Compacted, WithoutStatistics
<1>3. IsFiniteSet(events) /\ events \in SUBSET Event
  BY DEF TypeOK
<1> QED
  BY <1>2, <1>3, FS_Subset, FS_CardinalityType

----------------------------------------------------------------------------
(* Type correctness *)

\* overflow() keeps the types, whatever part of the queue it is left with.
LEMMA OverflowType ==
  ASSUME TypeOK, CanNotify, NEW evs \in SUBSET Event, IsFiniteSet(evs), Overflow(evs)
  PROVE  /\ events' \in SUBSET Event /\ IsFiniteSet(events')
         /\ operations' \in SUBSET Operation /\ IsFiniteSet(operations')
         /\ sequence' \in 0 .. MaxSequence /\ overflowStamp' \in 0 .. MaxSequence
         /\ stopped' = TRUE /\ overflowPending' = TRUE /\ operationId' = operationId
         /\ notifying' \in 0 .. MaxNotifiers
<1>1. Cardinality(operations) + 1 \in Nat
  BY FS_CardinalityType DEF TypeOK
<1>2. Stamp(Cardinality(operations) + 1) \in 0 .. MaxSequence
  BY <1>1, StampValue DEF TypeOK
<1>3. notifying' \in 0 .. MaxNotifiers
  BY DEF TypeOK, CanNotify, Notify, Overflow
<1> QED
  BY <1>2, <1>3, FinishedFacts, FS_EmptySet DEF Overflow

\* The common tail of reserve() and reserveAttempt() keeps the types.
LEMMA AdmitType ==
  ASSUME TypeOK, CanNotify, NEW g \in Generations, operationId < MaxOperationId, Admit(g)
  PROVE  /\ events' \in SUBSET Event /\ IsFiniteSet(events')
         /\ operations' \in SUBSET Operation /\ IsFiniteSet(operations')
         /\ sequence' \in 0 .. MaxSequence /\ overflowStamp' \in 0 .. MaxSequence
         /\ stopped' \in BOOLEAN /\ overflowPending' \in BOOLEAN
         /\ operationId' \in 0 .. MaxOperationId
         /\ notifying' \in 0 .. MaxNotifiers
<1>0. events \in SUBSET Event /\ IsFiniteSet(events)
  BY DEF TypeOK
<1>1. CASE Overflow(events)
  BY <1>0, <1>1, OverflowType DEF TypeOK
<1>2. CASE ~SequenceExhausted /\ ~Overflow(events)
  <2>1. events' = Reclaimed(events)
        /\ UNCHANGED <<sequence, stopped, overflowPending, overflowStamp, notifying>>
    BY <1>2 DEF Admit
  <2>2. events' \in SUBSET Event /\ IsFiniteSet(events')
    BY <2>1, CompactedFacts DEF Published
  <2>3. CASE UNCHANGED <<operationId, operations>>
    BY <2>1, <2>2, <2>3 DEF TypeOK
  <2>4. CASE /\ operationId' = operationId + 1
             /\ operations' = operations \cup {[id |-> operationId + 1, generation |-> g]}
    <3>1. [id |-> operationId + 1, generation |-> g] \in Operation
      BY DEF TypeOK, Operation, Generations
    <3>2. IsFiniteSet(operations')
      BY <2>4, FS_AddElement DEF TypeOK
    <3> QED
      BY <2>1, <2>2, <2>4, <3>1, <3>2 DEF TypeOK
  <2> QED
    BY <1>2, <2>3, <2>4 DEF Admit
<1> QED
  BY <1>1, <1>2 DEF Admit

\* Publishing keeps the types: exhausted, queued, coalesced or overflowing.
LEMMA PublishType ==
  ASSUME TypeOK, NEW kind \in Published, NEW g \in Generations, Publish(kind, g)
  PROVE  TypeOK'
<1>0. CanNotify /\ UNCHANGED <<attached, signalled, draining, history>>
  BY DEF Publish
<1>1. notifying \in Nat /\ (Notify => notifying' \in 0 .. MaxNotifiers)
  BY <1>0 DEF TypeOK, CanNotify, Notify
<1>2. CASE PublishExhausted(g)
  <2>1. Overflow(events) /\ events \in SUBSET Event /\ IsFiniteSet(events)
    BY <1>2 DEF PublishExhausted, TypeOK
  <2> QED
    BY <1>0, <1>2, <2>1, OverflowType DEF TypeOK, PublishExhausted, history
<1>3. CASE PublishQueued(kind, g) /\ generation' = g
  <2> DEFINE e == [kind |-> kind, stamp |-> Stamp(1), generation |-> g, operation |-> 0]
  <2>1. Stamp(1) \in 0 .. MaxSequence
    BY StampValue DEF TypeOK
  <2>2. e \in Event
    BY <2>1 DEF Event, Generations
  <2>3. events' = Compacted(kind) \cup {e}
    BY <1>3 DEF PublishQueued
  <2>4. events' \in SUBSET Event /\ IsFiniteSet(events')
    BY <2>2, <2>3, CompactedFacts, FS_AddElement
  <2> QED
    BY <1>0, <1>1, <1>3, <2>1, <2>4 DEF TypeOK, PublishQueued, history, Generations
<1>4. CASE PublishDroppedStatistics(kind) /\ generation' = g
  <2>1. events' \in SUBSET Event /\ IsFiniteSet(events')
    BY <1>4, CompactedFacts DEF PublishDroppedStatistics
  <2> QED
    BY <1>0, <1>1, <1>4, <2>1 DEF TypeOK, PublishDroppedStatistics, history, Generations
<1>5. CASE PublishOverflow(kind) /\ generation' = g
  <2>1. Overflow(Compacted(kind)) /\ Compacted(kind) \in SUBSET Event
        /\ IsFiniteSet(Compacted(kind))
    BY <1>5, CompactedFacts DEF PublishOverflow
  <2>2. /\ events' \in SUBSET Event /\ IsFiniteSet(events')
        /\ operations' \in SUBSET Operation /\ IsFiniteSet(operations')
        /\ sequence' \in 0 .. MaxSequence /\ overflowStamp' \in 0 .. MaxSequence
        /\ stopped' = TRUE /\ overflowPending' = TRUE /\ operationId' = operationId
        /\ notifying' \in 0 .. MaxNotifiers
    BY <1>0, <2>1, OverflowType
  <2> QED
    BY <1>0, <1>5, <2>2 DEF TypeOK, history, Generations
<1> QED
  BY <1>2, <1>3, <1>4, <1>5 DEF Publish

\* Every nonempty set of numbers has a least element.
LEMMA LeastNumber ==
  ASSUME NEW T \in SUBSET Nat, T # {}
  PROVE  \E n \in T : \A m \in T : n <= m
<1> DEFINE R == {ss \in Nat \X Nat : ss[1] < ss[2]}
<1>1. IsWellFoundedOn(R, Nat)
  BY NatLessThanWellFounded DEF OpToRel
<1> HIDE DEF R
<1>2. PICK x \in T : \A y \in T : ~(<<y, x>> \in R)
  BY <1>1, WFMin
<1>3. ASSUME NEW y \in T PROVE x <= y
  <2>1. x \in Nat /\ y \in Nat /\ ~(<<y, x>> \in R)
    BY <1>2
  <2>2. ~(y < x)
    BY <2>1 DEF R
  <2> QED
    BY <2>1, <2>2
<1> QED
  BY <1>3

\* The least stamped event of a nonempty queue is one of its events.
LEMMA FrontType ==
  ASSUME TypeOK, StampsAdvance, events # {}
  PROVE  Front \in events /\ \A f \in events : Front.stamp <= f.stamp
<1> DEFINE T == {e.stamp : e \in events}
<1>1. T \in SUBSET Nat /\ T # {}
  BY DEF TypeOK, Event
<1>2. \E n \in T : \A m \in T : n <= m
  BY <1>1, LeastNumber
<1> QED
  BY <1>2 DEF Front

\* Every action of the stream keeps the types.
LEMMA TypeStep ==
  ASSUME TypeOK, StampsAdvance, [Next]_vars
  PROVE  TypeOK'
<1>0. Cardinality(operations) \in Nat /\ IsFiniteSet(events) /\ events \in SUBSET Event
  BY FS_CardinalityType DEF TypeOK
<1>1. CanNotify /\ Notify => notifying' \in 0 .. MaxNotifiers
  BY DEF TypeOK, CanNotify, Notify
<1>2. ASSUME NEW g \in Generations, Reserve(g) PROVE TypeOK'
  <2>1. CanNotify /\ operationId < MaxOperationId /\ Admit(g)
    BY <1>2 DEF Reserve, ReserveAllowed
  <2> QED
    BY <2>1, <1>2, AdmitType DEF Reserve, TypeOK, history
<1>3. ASSUME NEW g \in Generations, ReserveAttempt(g) PROVE TypeOK'
  <2>1. CanNotify /\ operationId < MaxOperationId /\ Admit(g)
    BY <1>3 DEF ReserveAttempt, ReserveAttemptAllowed
  <2> QED
    BY <2>1, <1>3, AdmitType DEF ReserveAttempt, TypeOK, history
<1>4. ASSUME NEW o \in operations, Complete(o) PROVE TypeOK'
  <2>1. Stamp(1) \in 0 .. MaxSequence
    BY StampValue DEF TypeOK
  <2>2. Completion(o, 1) \in Event
    BY <2>1 DEF Completion, Event, TypeOK, Operation
  <2>3. IsFiniteSet(events') /\ IsFiniteSet(operations')
    BY <1>4, FS_AddElement, FS_RemoveElement DEF Complete, TypeOK
  <2> QED
    BY <1>1, <1>4, <2>1, <2>2, <2>3 DEF Complete, TypeOK, history
<1>5. CASE CancelPending
  <2>1. Stamp(Cardinality(operations)) \in 0 .. MaxSequence
    BY <1>0, StampValue DEF TypeOK
  <2>2. Finished(events) \in SUBSET Event /\ IsFiniteSet(Finished(events))
    BY <1>0, FinishedFacts
  <2> QED
    BY <1>1, <1>5, <2>1, <2>2, FS_EmptySet DEF CancelPending, TypeOK, history
<1>6. CASE Seal
  <2>1. Stamp(Cardinality(operations)) \in 0 .. MaxSequence
    BY <1>0, StampValue DEF TypeOK
  <2>2. Finished(events) \in SUBSET Event /\ IsFiniteSet(Finished(events))
    BY <1>0, FinishedFacts
  <2> QED
    BY <1>1, <1>6, <2>1, <2>2, FS_EmptySet DEF Seal, TypeOK, history
<1>7. ASSUME NEW kind \in Published, NEW g \in Generations, Publish(kind, g)
      PROVE  TypeOK'
  BY <1>7, PublishType
<1>8. CASE SetWakeup
  BY <1>8 DEF SetWakeup, CanNotify, TypeOK, queue, history
<1>9. CASE Signal
  BY <1>9 DEF Signal, TypeOK, queue, history
<1>10. CASE StartDrain
  BY <1>10 DEF StartDrain, TypeOK, queue, history
<1>11. CASE Take
  <2>1. Front \in events /\ Front \in Event /\ IsFiniteSet(events')
    BY <1>0, <1>11, FrontType, FS_RemoveElement DEF Take
  <2>2. Front.stamp \in 0 .. MaxSequence /\ Front.operation \in Nat
    BY <2>1 DEF StampsAdvance, TypeOK, Event
  <2> QED
    BY <1>11, <2>1, <2>2 DEF Take, TypeOK, wakeup
<1>12. CASE TakeOverflow
  BY <1>12 DEF TakeOverflow, TypeOK, wakeup
<1>13. CASE EndDrain
  BY <1>13 DEF EndDrain, TypeOK, queue, history
<1>14. CASE UNCHANGED vars
  BY <1>14 DEF vars, queue, wakeup, history, TypeOK
<1> QED
  BY <1>2, <1>3, <1>4, <1>5, <1>6, <1>7, <1>8, <1>9, <1>10, <1>11, <1>12, <1>13, <1>14
  DEF Next, Producer, Consumer

----------------------------------------------------------------------------
(* The inductive invariant.  What the properties need and do not say is    *)
(* how much of the stamp space is left: sequenceExhausted() is tested by   *)
(* reserve() and publish() only, so the stamps of the completions that are *)
(* still owed, and one for the fault, have to fit at every moment.         *)

SequenceSpace ==
  /\ ~stopped => sequence + Cardinality(operations) <= MaxSequence - 1
  /\ overflowStamp <= sequence

IInv ==
  /\ TypeOK
  /\ CapacityHeld
  /\ SequenceSpace
  /\ StampsAdvance
  /\ ExactlyOneCompletion
  /\ OneGenerationPending
  /\ TerminalIsLast

\* Different reservations have different positions.
LEMMA RankInjective ==
  ASSUME TypeOK, NEW o \in operations, NEW p \in operations, o.id < p.id
  PROVE  Rank(o) < Rank(p)
<1> DEFINE S == {q \in operations : q.id <= o.id}
            T == {q \in operations : q.id <= p.id}
<1>0. IsFiniteSet(operations) /\ operations \subseteq Operation
  BY DEF TypeOK
<1>1. o.id \in Nat /\ p.id \in Nat /\ \A q \in operations : q.id \in Nat
  BY <1>0 DEF Operation
<1>2. S \subseteq T /\ p \in T /\ p \notin S /\ T \subseteq operations
  BY <1>1
<1>3. IsFiniteSet(T)
  BY <1>0, <1>2, FS_Subset
<1>4. IsFiniteSet(S) /\ Cardinality(S) <= Cardinality(T) /\ Cardinality(S) # Cardinality(T)
  BY <1>2, <1>3, FS_Subset
<1>5. Cardinality(S) \in Nat /\ Cardinality(T) \in Nat
  BY <1>3, <1>4, FS_CardinalityType
<1> QED
  BY <1>4, <1>5 DEF Rank

\* finishOperations() stamps the completions with fresh, distinct numbers
\* right after the current one.
LEMMA FinishedStamps ==
  ASSUME TypeOK, ExactlyOneCompletion,
         sequence + Cardinality(operations) <= MaxSequence
  PROVE  /\ \A o \in operations :
              /\ Completion(o, Rank(o)).stamp = sequence + Rank(o)
              /\ Rank(o) \in 1 .. Cardinality(operations)
         /\ \A o, p \in operations : Rank(o) = Rank(p) => o = p
         /\ Cardinality(operations) \in Nat
<1>0. /\ IsFiniteSet(operations) /\ operations \subseteq Operation
      /\ sequence \in 0 .. MaxSequence /\ Cardinality(operations) \in Nat
  BY FS_CardinalityType DEF TypeOK
<1>1. ASSUME NEW o \in operations
      PROVE  /\ Completion(o, Rank(o)).stamp = sequence + Rank(o)
             /\ Rank(o) \in 1 .. Cardinality(operations)
  <2> DEFINE S == {q \in operations : q.id <= o.id}
  <2>1. Rank(o) \in Nat /\ Rank(o) <= Cardinality(operations)
    BY <1>0, RankType
  <2>2. o.id \in Nat
    BY <1>0 DEF Operation
  <2>3. o \in S /\ IsFiniteSet(S)
    BY <1>0, <2>2, FS_Subset
  <2>4. Rank(o) # 0
    BY <2>3, FS_EmptySet DEF Rank
  <2>5. Stamp(Rank(o)) = sequence + Rank(o)
    BY <1>0, <2>1, StampValue
  <2> QED
    BY <1>0, <2>1, <2>4, <2>5 DEF Completion
<1>2. ASSUME NEW o \in operations, NEW p \in operations, Rank(o) = Rank(p)
      PROVE  o = p
  <2>1. o.id \in Nat /\ p.id \in Nat /\ Rank(o) \in Nat /\ Rank(p) \in Nat
    BY <1>0, RankType DEF Operation
  <2>2. ~(o.id < p.id) /\ ~(p.id < o.id)
    BY <1>2, <2>1, RankInjective
  <2>3. o.id = p.id
    BY <2>1, <2>2
  <2> QED
    BY <2>3 DEF ExactlyOneCompletion
<1> QED
  BY <1>0, <1>1, <1>2

\* Part of the queue that still holds every completion.
Keeps(evs) ==
  /\ evs \subseteq events
  /\ \A e \in events : e.kind = "Completion" => e \in evs

\* Finishing every reservation, on whatever is kept of the queue, leaves the
\* stamps ordered and every operation with exactly one completion.
LEMMA FinishStep ==
  ASSUME IInv, NEW evs, Keeps(evs),
         sequence + Cardinality(operations) <= MaxSequence,
         events' = Finished(evs), operations' = {},
         UNCHANGED <<operationId, answered, lastTaken>>
  PROVE  /\ ExactlyOneCompletion'
         /\ \A e \in events' : /\ lastTaken' < e.stamp
                                /\ e.stamp <= sequence + Cardinality(operations)
         /\ \A e, f \in events' : e.stamp = f.stamp => e = f
         /\ CapacityHeld'
         /\ Cardinality(operations) \in Nat
<1> DEFINE c(o) == Completion(o, Rank(o))
<1>0. /\ TypeOK /\ ExactlyOneCompletion /\ StampsAdvance /\ evs \subseteq events
      /\ operations \subseteq Operation /\ events \subseteq Event
      /\ sequence \in Nat /\ lastTaken \in Nat /\ lastTaken <= sequence
  BY DEF IInv, TypeOK, StampsAdvance, Keeps
<1>1. /\ \A o \in operations : c(o).stamp = sequence + Rank(o)
                               /\ Rank(o) \in 1 .. Cardinality(operations)
      /\ \A o, p \in operations : Rank(o) = Rank(p) => o = p
      /\ Cardinality(operations) \in Nat
  BY <1>0, FinishedStamps
<1>2. \A o \in operations : c(o).kind = "Completion" /\ c(o).operation = o.id
  BY DEF Completion
<1>3. \A e : e \in events' <=> e \in evs \/ \E o \in operations : e = c(o)
  BY DEF Finished
<1>4. \A e \in evs : e.stamp \in Nat /\ lastTaken < e.stamp /\ e.stamp <= sequence
  BY <1>0 DEF StampsAdvance, Event
<1> HIDE DEF c
<1>5. \A e \in events' : lastTaken' < e.stamp /\ e.stamp <= sequence + Cardinality(operations)
  BY <1>0, <1>1, <1>3, <1>4
<1>6. \A e, f \in events' : e.stamp = f.stamp => e = f
  <2>1. \A e, f \in evs : e.stamp = f.stamp => e = f
    BY <1>0 DEF StampsAdvance
  <2>2. \A e \in evs, o \in operations : e.stamp # c(o).stamp
    BY <1>0, <1>1, <1>4
  <2>3. \A o, p \in operations : c(o).stamp = c(p).stamp => o = p
    BY <1>0, <1>1
  <2> QED
    BY <1>3, <2>1, <2>2, <2>3
<1>7. ExactlyOneCompletion'
  <2>1. \A id : id \in Queued' <=> id \in Queued \cup Pending
    <3>1. \A id : id \in Queued' <=> \E e \in events' : e.kind = "Completion" /\ e.operation = id
      BY DEF Queued
    <3>2. \A id : id \in Queued <=> \E e \in events : e.kind = "Completion" /\ e.operation = id
      BY DEF Queued
    <3>3. \A id : id \in Pending <=> \E o \in operations : o.id = id
      BY DEF Pending
    <3>4. \A e \in events : e.kind = "Completion" => e \in evs
      BY DEF Keeps
    <3> QED
      BY <1>0, <1>2, <1>3, <3>1, <3>2, <3>3, <3>4
  <2>2. Pending' = {}
    BY DEF Pending
  <2>3. \A e, f \in events' :
          e.kind = "Completion" /\ f.kind = "Completion" /\ e.operation = f.operation => e = f
    <3>1. \A e \in evs, o \in operations : e.kind = "Completion" => e.operation # o.id
      BY <1>0 DEF ExactlyOneCompletion, Pending, Queued
    <3>2. \A e, f \in evs :
            e.kind = "Completion" /\ f.kind = "Completion" /\ e.operation = f.operation => e = f
      BY <1>0 DEF ExactlyOneCompletion
    <3>3. \A o, p \in operations : o.id = p.id => o = p
      BY <1>0 DEF ExactlyOneCompletion
    <3> QED
      BY <1>2, <1>3, <3>1, <3>2, <3>3
  <2>4. /\ 1 .. operationId = Pending \cup Queued \cup answered
        /\ Pending \cap answered = {} /\ Queued \cap answered = {}
    BY <1>0 DEF ExactlyOneCompletion
  <2>5. /\ 1 .. operationId' = Pending' \cup Queued' \cup answered'
        /\ Pending' \cap Queued' = {} /\ Pending' \cap answered' = {}
        /\ Queued' \cap answered' = {}
    <3>1. Queued' = Queued \cup Pending
      BY <2>1
    <3> QED
      BY <2>2, <2>4, <3>1
  <2> QED
    BY <2>3, <2>5 DEF ExactlyOneCompletion
<1>8. CapacityHeld'
  <2>1. evs \in SUBSET Event /\ IsFiniteSet(evs) /\ Cardinality(evs) <= Cardinality(events)
        /\ Cardinality(evs) \in Nat /\ Cardinality(events) \in Nat /\ IsFiniteSet(events)
    BY <1>0, FS_Subset, FS_CardinalityType DEF TypeOK
  <2>2. Cardinality(Finished(evs)) <= Cardinality(evs) + Cardinality(operations)
        /\ IsFiniteSet(Finished(evs))
    BY <1>0, <2>1, FinishedFacts
  <2>3. Cardinality(Finished(evs)) \in Nat
    BY <2>2, FS_CardinalityType
  <2>4. Cardinality(operations') = 0
    BY FS_EmptySet
  <2>5. Cardinality(events) + Cardinality(operations) <= Capacity
    BY DEF IInv, CapacityHeld
  <2> QED
    BY <1>1, <2>1, <2>2, <2>3, <2>4, <2>5 DEF CapacityHeld
<1> QED
  BY <1>1, <1>5, <1>6, <1>7, <1>8

\* Dropping statistics keeps every completion.
LEMMA CompactedKeeps ==
  ASSUME NEW kind
  PROVE  Keeps(events) /\ Keeps(Reclaimed(events)) /\ Keeps(Compacted(kind))
BY DEF Keeps, Reclaimed, Compacted, WithoutStatistics

\* overflow() on what is kept of an open queue.
LEMMA OverflowStep ==
  ASSUME IInv, TypeOK', ~stopped, NEW evs, Keeps(evs), Overflow(evs),
         UNCHANGED <<answered, lastTaken, ended>>
  PROVE  IInv'
<1>0. /\ sequence \in Nat /\ sequence + Cardinality(operations) <= MaxSequence - 1
      /\ Cardinality(operations) \in Nat /\ sequence \in 0 .. MaxSequence
      /\ lastTaken \in Nat /\ lastTaken <= sequence
  BY FS_CardinalityType DEF IInv, TypeOK, SequenceSpace, StampsAdvance
<1>1. events' = Finished(evs) /\ operations' = {} /\ operationId' = operationId
      /\ stopped' /\ overflowPending'
  BY DEF Overflow
<1>2. sequence' = sequence + Cardinality(operations) + 1 /\ overflowStamp' = sequence'
  <2>1. Stamp(Cardinality(operations) + 1) = sequence + Cardinality(operations) + 1
    BY <1>0, StampValue
  <2> QED
    BY <1>0, <2>1 DEF Overflow
<1>3. /\ ExactlyOneCompletion' /\ CapacityHeld'
      /\ \A e \in events' : lastTaken' < e.stamp /\ e.stamp <= sequence + Cardinality(operations)
      /\ \A e, f \in events' : e.stamp = f.stamp => e = f
  <2>1. sequence + Cardinality(operations) <= MaxSequence
    BY <1>0
  <2> QED
    BY <1>1, <2>1, FinishStep
<1>4. StampsAdvance'
  <2>1. \A e \in events' : e.stamp \in Nat
    BY DEF TypeOK, Event
  <2> QED
    BY <1>0, <1>2, <1>3, <2>1 DEF StampsAdvance
<1>5. SequenceSpace'
  BY <1>1, <1>2, <1>0 DEF SequenceSpace
<1>6. OneGenerationPending' /\ TerminalIsLast'
  BY <1>1 DEF IInv, OneGenerationPending, TerminalIsLast
<1> QED
  BY <1>3, <1>4, <1>5, <1>6 DEF IInv

\* cancelPending() and seal() of an open queue, or of one that owes nothing.
LEMMA FinishAllStep ==
  ASSUME IInv, TypeOK', ~stopped, events' = Finished(events), operations' = {},
         sequence' = Stamp(Cardinality(operations)),
         UNCHANGED <<operationId, overflowPending, overflowStamp, answered, lastTaken, ended>>
  PROVE  IInv'
<1>0. /\ sequence \in Nat /\ sequence + Cardinality(operations) <= MaxSequence - 1
      /\ Cardinality(operations) \in Nat /\ sequence \in 0 .. MaxSequence
      /\ lastTaken \in Nat /\ lastTaken <= sequence /\ overflowStamp \in Nat
      /\ overflowStamp <= sequence /\ ~overflowPending /\ ~ended
  BY FS_CardinalityType DEF IInv, TypeOK, SequenceSpace, StampsAdvance, TerminalIsLast
<1>1. sequence' = sequence + Cardinality(operations)
  BY <1>0, StampValue
<1>2. /\ ExactlyOneCompletion' /\ CapacityHeld'
      /\ \A e \in events' : lastTaken' < e.stamp /\ e.stamp <= sequence + Cardinality(operations)
      /\ \A e, f \in events' : e.stamp = f.stamp => e = f
  <2>1. sequence + Cardinality(operations) <= MaxSequence
    BY <1>0
  <2>2. Keeps(events)
    BY DEF Keeps
  <2> QED
    BY <2>1, <2>2, FinishStep
<1>3. StampsAdvance'
  BY <1>0, <1>1, <1>2 DEF StampsAdvance
<1>4. SequenceSpace'
  <2>1. Cardinality(operations') = 0
    BY FS_EmptySet
  <2> QED
    BY <1>0, <1>1, <2>1 DEF SequenceSpace
<1>5. OneGenerationPending' /\ TerminalIsLast'
  BY <1>0 DEF OneGenerationPending, TerminalIsLast
<1> QED
  BY <1>2, <1>3, <1>4, <1>5 DEF IInv

\* What a queue that lost only statistics still satisfies.
LEMMA KeptQueue ==
  ASSUME IInv, NEW evs, Keeps(evs)
  PROVE  /\ {e.operation : e \in {f \in evs : f.kind = "Completion"}} = Queued
         /\ IsFiniteSet(evs) /\ Cardinality(evs) \in Nat
         /\ Cardinality(evs) <= Cardinality(events)
         /\ Cardinality(events) \in Nat /\ Cardinality(operations) \in Nat
         /\ Cardinality(events) + Cardinality(operations) <= Capacity
<1>1. {e.operation : e \in {f \in evs : f.kind = "Completion"}} = Queued
  BY DEF Keeps, Queued
<1>2. IsFiniteSet(events) /\ IsFiniteSet(operations) /\ evs \subseteq events
  BY DEF IInv, TypeOK, Keeps
<1>3. IsFiniteSet(evs) /\ Cardinality(evs) <= Cardinality(events)
  BY <1>2, FS_Subset
<1> QED
  BY <1>1, <1>2, <1>3, FS_CardinalityType DEF IInv, CapacityHeld

\* reserve() and reserveAttempt(): both admit a generation that is not behind
\* the stream and that every pending operation shares.
LEMMA AdmitStep ==
  ASSUME IInv, TypeOK', ~stopped, NEW g \in Generations, Admit(g), g >= generation,
         \A o \in operations : o.generation = g,
         UNCHANGED <<generation, answered, lastTaken, ended>>
  PROVE  IInv'
<1>1. CASE Overflow(events)
  BY <1>1, CompactedKeeps, OverflowStep
<1>2. CASE ~Overflow(events)
  <2> DEFINE new == [id |-> operationId + 1, generation |-> g]
  <2>1. /\ ~SequenceExhausted /\ events' = Reclaimed(events)
        /\ UNCHANGED <<sequence, stopped, overflowPending, overflowStamp>>
    BY <1>2 DEF Admit
  <2>2. Keeps(events')
    BY <2>1, CompactedKeeps
  <2>3. /\ Queued' = Queued /\ Cardinality(events') \in Nat
        /\ Cardinality(events') <= Cardinality(events)
        /\ Cardinality(events) \in Nat /\ Cardinality(operations) \in Nat
        /\ Cardinality(events) + Cardinality(operations) <= Capacity
    BY <2>2, KeptQueue DEF Queued
  <2>4. StampsAdvance' /\ TerminalIsLast'
    BY <2>1, <2>2 DEF IInv, StampsAdvance, TerminalIsLast, Keeps
  <2>5. \A e, f \in events' :
          e.kind = "Completion" /\ f.kind = "Completion" /\ e.operation = f.operation => e = f
    BY <2>2 DEF IInv, ExactlyOneCompletion, Keeps
  <2>6. CASE UNCHANGED <<operationId, operations>>
    <3>1. CapacityHeld' /\ SequenceSpace' /\ OneGenerationPending'
      BY <2>1, <2>3, <2>6 DEF IInv, CapacityHeld, SequenceSpace, OneGenerationPending
    <3>2. Pending' = Pending
      BY <2>6 DEF Pending
    <3>3. ExactlyOneCompletion'
      BY <2>3, <2>5, <2>6, <3>2 DEF IInv, ExactlyOneCompletion
    <3> QED
      BY <2>4, <3>1, <3>3 DEF IInv
  <2>7. CASE /\ HasRoom(Reclaimed(events), operations)
             /\ operationId' = operationId + 1 /\ operations' = operations \cup {new}
    <3>0. operationId \in Nat /\ sequence \in Nat /\ new.id = operationId + 1
          /\ new.generation = g /\ generation \in Nat /\ g \in Nat /\ answered \subseteq Nat
      BY DEF IInv, TypeOK, Generations
    <3>1. Cardinality(operations') \in Nat /\ Cardinality(operations') <= Cardinality(operations) + 1
      <4>1. IsFiniteSet(operations)
        BY DEF IInv, TypeOK
      <4> QED
        BY <2>7, <4>1, AddBound
    <3>2. Cardinality(events') + Cardinality(operations) < Capacity
      BY <2>1, <2>7 DEF HasRoom
    <3>3. CapacityHeld' /\ SequenceSpace'
      BY <2>1, <2>3, <3>0, <3>1, <3>2 DEF CapacityHeld, SequenceSpace, SequenceExhausted, IInv
    <3>4. OneGenerationPending'
      BY <2>7, <3>0 DEF OneGenerationPending
    <3>5. Pending' = Pending \cup {operationId + 1}
      BY <2>7, <3>0 DEF Pending
    <3>6. 1 .. operationId' = (1 .. operationId) \cup {operationId + 1}
      BY <2>7, <3>0
    <3>7. operationId + 1 \notin 1 .. operationId
      BY <3>0
    <3>8. /\ 1 .. operationId = Pending \cup Queued \cup answered
          /\ Pending \cap Queued = {} /\ Pending \cap answered = {} /\ Queued \cap answered = {}
          /\ \A o, p \in operations : o.id = p.id => o = p
      BY DEF IInv, ExactlyOneCompletion
    <3>9. \A o \in operations : o.id # operationId + 1
      BY <3>7, <3>8 DEF Pending
    <3>10. \A o, p \in operations' : o.id = p.id => o = p
      BY <2>7, <3>0, <3>8, <3>9
    <3>11. ExactlyOneCompletion'
      BY <2>3, <2>5, <3>5, <3>6, <3>7, <3>8, <3>10 DEF ExactlyOneCompletion
    <3> QED
      BY <2>4, <3>3, <3>4, <3>11 DEF IInv
  <2> QED
    BY <1>2, <2>6, <2>7 DEF Admit
<1> QED
  BY <1>1, <1>2

\* complete(): the completion takes over the reservation's slot and stamp.
LEMMA CompleteStep ==
  ASSUME IInv, TypeOK', NEW o \in operations, Complete(o)
  PROVE  IInv'
<1> DEFINE c == Completion(o, 1)
<1>0. /\ events' = events \cup {c} /\ operations' = operations \ {o} /\ sequence' = Stamp(1)
      /\ UNCHANGED <<generation, operationId, stopped, overflowPending, overflowStamp,
                     answered, lastTaken, ended>>
  BY DEF Complete, history
<1>1. ~stopped /\ ~overflowPending /\ ~ended
  BY DEF IInv, TerminalIsLast
<1>2. /\ IsFiniteSet(operations) /\ IsFiniteSet(events) /\ Cardinality(operations) \in Nat
      /\ Cardinality(events) \in Nat /\ sequence \in 0 .. MaxSequence /\ lastTaken \in Nat
  BY FS_CardinalityType DEF IInv, TypeOK
<1>3. Cardinality(operations') = Cardinality(operations) - 1 /\ Cardinality(operations') \in Nat
  BY <1>0, <1>2, FS_RemoveElement, FS_CardinalityType
<1>4. sequence + Cardinality(operations) <= MaxSequence - 1
  BY <1>1 DEF IInv, SequenceSpace
<1>5. sequence' = sequence + 1 /\ c.stamp = sequence + 1
  <2>1. Stamp(1) = sequence + 1
    BY <1>2, <1>3, <1>4, StampValue
  <2> QED
    BY <1>0, <2>1 DEF Completion
<1>6. c.kind = "Completion" /\ c.operation = o.id
  BY DEF Completion
<1> HIDE DEF c
<1>7. Cardinality(events') <= Cardinality(events) + 1 /\ Cardinality(events') \in Nat
  BY <1>0, <1>2, AddBound
<1>8. CapacityHeld' /\ SequenceSpace'
  <2>1. Cardinality(events) + Cardinality(operations) <= Capacity /\ overflowStamp <= sequence
        /\ overflowStamp \in Nat
    BY DEF IInv, CapacityHeld, SequenceSpace, TypeOK
  <2> QED
    BY <1>0, <1>2, <1>3, <1>4, <1>5, <1>7, <2>1 DEF CapacityHeld, SequenceSpace
<1>9. StampsAdvance'
  <2>1. /\ \A e \in events : lastTaken < e.stamp /\ e.stamp <= sequence /\ e.stamp \in Nat
        /\ \A e, f \in events : e.stamp = f.stamp => e = f
        /\ lastTaken <= sequence
    BY DEF IInv, StampsAdvance, TypeOK, Event
  <2> QED
    BY <1>0, <1>1, <1>2, <1>5, <2>1 DEF StampsAdvance
<1>10. OneGenerationPending' /\ TerminalIsLast'
  BY <1>0, <1>1 DEF IInv, OneGenerationPending, TerminalIsLast
<1>11. ExactlyOneCompletion'
  <2>1. /\ 1 .. operationId = Pending \cup Queued \cup answered
        /\ Pending \cap Queued = {} /\ Pending \cap answered = {} /\ Queued \cap answered = {}
        /\ \A p, q \in operations : p.id = q.id => p = q
        /\ \A e, f \in events : e.kind = "Completion" /\ f.kind = "Completion"
                                  /\ e.operation = f.operation => e = f
    BY DEF IInv, ExactlyOneCompletion
  <2>2. Pending' = Pending \ {o.id} /\ o.id \in Pending
    BY <1>0, <2>1 DEF Pending
  <2>3. Queued' = Queued \cup {o.id}
    BY <1>0, <1>6 DEF Queued
  <2>4. \A e \in events : e.kind = "Completion" => e.operation # o.id
    BY <2>1, <2>2 DEF Queued
  <2>5. \A e, f \in events' : e.kind = "Completion" /\ f.kind = "Completion"
                                /\ e.operation = f.operation => e = f
    BY <1>0, <1>6, <2>1, <2>4
  <2>6. \A p, q \in operations' : p.id = q.id => p = q
    BY <1>0, <2>1
  <2> QED
    BY <1>0, <2>1, <2>2, <2>3, <2>5, <2>6 DEF ExactlyOneCompletion
<1> QED
  BY <1>8, <1>9, <1>10, <1>11 DEF IInv

\* publish(), in each of its outcomes.
LEMMA PublishStep ==
  ASSUME IInv, TypeOK', NEW kind \in Published, NEW g \in Generations, Publish(kind, g)
  PROVE  IInv'
<1>0. ~stopped /\ g >= generation /\ UNCHANGED <<answered, lastTaken, ended>>
  BY DEF Publish, PublishAllowed, history
<1>1. CASE PublishExhausted(g)
  BY <1>0, <1>1, CompactedKeeps, OverflowStep DEF PublishExhausted
<1>2. CASE PublishOverflow(kind)
  BY <1>0, <1>2, CompactedKeeps, OverflowStep DEF PublishOverflow
<1>3. ASSUME ~PublishExhausted(g), ~PublishOverflow(kind)
      PROVE  IInv'
  <2>1. /\ ~SequenceExhausted /\ generation' = g
        /\ g > generation => \A o \in operations : o.generation = g
        /\ PublishQueued(kind, g) \/ PublishDroppedStatistics(kind)
    BY <1>3 DEF Publish
  <2>2. UNCHANGED <<operations, operationId, stopped, overflowPending, overflowStamp>>
    BY <2>1 DEF PublishQueued, PublishDroppedStatistics
  <2>3. /\ Keeps(Compacted(kind))
        /\ IsFiniteSet(Compacted(kind)) /\ Cardinality(Compacted(kind)) \in Nat
        /\ Cardinality(Compacted(kind)) <= Cardinality(events)
        /\ Cardinality(events) \in Nat /\ Cardinality(operations) \in Nat
        /\ Cardinality(events) + Cardinality(operations) <= Capacity
        /\ {e.operation : e \in {f \in Compacted(kind) : f.kind = "Completion"}} = Queued
    BY CompactedKeeps, KeptQueue
  <2>4. /\ sequence \in 0 .. MaxSequence /\ lastTaken \in Nat /\ lastTaken <= sequence
        /\ overflowStamp \in Nat /\ overflowStamp <= sequence /\ ~overflowPending /\ ~ended
        /\ generation \in Nat /\ g \in Nat /\ \A o \in operations : o.generation \in Nat
    BY <1>0 DEF IInv, TypeOK, StampsAdvance, SequenceSpace, TerminalIsLast, Generations, Operation
  <2>5. OneGenerationPending' /\ TerminalIsLast'
    BY <1>0, <2>1, <2>2, <2>4 DEF IInv, OneGenerationPending, TerminalIsLast
  <2>6. Pending' = Pending
    BY <2>2 DEF Pending
  <2>7. /\ 1 .. operationId = Pending \cup Queued \cup answered
        /\ Pending \cap Queued = {} /\ Pending \cap answered = {} /\ Queued \cap answered = {}
        /\ \A o, p \in operations : o.id = p.id => o = p
        /\ \A e, f \in Compacted(kind) :
             e.kind = "Completion" /\ f.kind = "Completion" /\ e.operation = f.operation => e = f
    BY <2>3 DEF IInv, ExactlyOneCompletion, Keeps
  <2>8. /\ \A e \in Compacted(kind) : e.stamp \in Nat /\ lastTaken < e.stamp /\ e.stamp <= sequence
        /\ \A e, f \in Compacted(kind) : e.stamp = f.stamp => e = f
    BY <2>3 DEF IInv, StampsAdvance, Keeps, TypeOK, Event
  <2>9. CASE PublishDroppedStatistics(kind)
    <3>1. events' = Compacted(kind) /\ sequence' = sequence
      BY <2>9 DEF PublishDroppedStatistics
    <3>2. CapacityHeld' /\ SequenceSpace' /\ StampsAdvance'
      BY <1>0, <2>2, <2>3, <2>4, <2>8, <3>1
      DEF IInv, CapacityHeld, SequenceSpace, StampsAdvance
    <3>3. Queued' = Queued
      BY <2>3, <3>1 DEF Queued
    <3>4. ExactlyOneCompletion'
      BY <1>0, <2>2, <2>6, <2>7, <3>1, <3>3 DEF ExactlyOneCompletion
    <3> QED
      BY <2>5, <3>2, <3>4 DEF IInv
  <2>10. CASE PublishQueued(kind, g)
    <3> DEFINE e1 == [kind |-> kind, stamp |-> Stamp(1), generation |-> g, operation |-> 0]
    <3>1. /\ events' = Compacted(kind) \cup {e1} /\ sequence' = Stamp(1)
          /\ HasRoom(Compacted(kind), operations)
      BY <2>10 DEF PublishQueued
    <3>2. Stamp(1) = sequence + 1
      BY <2>1, <2>4, StampValue DEF SequenceExhausted
    <3>3. e1.stamp = sequence + 1 /\ e1.kind # "Completion"
      BY <3>2 DEF Published
    <3> HIDE DEF e1
    <3>4. Cardinality(events') \in Nat /\ Cardinality(events') <= Cardinality(Compacted(kind)) + 1
      BY <2>3, <3>1, AddBound
    <3>5. CapacityHeld'
      BY <2>2, <2>3, <3>1, <3>4 DEF CapacityHeld, HasRoom
    <3>6. SequenceSpace'
      BY <2>1, <2>2, <2>3, <2>4, <3>1, <3>2 DEF SequenceSpace, SequenceExhausted, HasRoom
    <3>7. StampsAdvance'
      BY <1>0, <2>2, <2>4, <2>8, <3>1, <3>2, <3>3 DEF StampsAdvance
    <3>8. Queued' = Queued
      BY <2>3, <3>1, <3>3 DEF Queued
    <3>9. ExactlyOneCompletion'
      BY <1>0, <2>2, <2>6, <2>7, <3>1, <3>3, <3>8 DEF ExactlyOneCompletion
    <3> QED
      BY <2>5, <3>5, <3>6, <3>7, <3>9 DEF IInv
  <2> QED
    BY <2>1, <2>9, <2>10
<1> QED
  BY <1>1, <1>2, <1>3

\* take() delivers the oldest event, and its completion exactly once.
LEMMA TakeStep ==
  ASSUME IInv, TypeOK', Take
  PROVE  IInv'
<1>0. /\ events # {} /\ events' = events \ {Front} /\ lastTaken' = Front.stamp
      /\ answered' = IF Front.kind = "Completion" THEN answered \cup {Front.operation} ELSE answered
      /\ UNCHANGED <<generation, operations, sequence, operationId, stopped,
                     overflowPending, overflowStamp, ended>>
  BY DEF Take
<1>1. Front \in events /\ \A f \in events : Front.stamp <= f.stamp
  BY <1>0, FrontType DEF IInv
<1>2. /\ \A e \in events : e.stamp \in Nat /\ e.stamp <= sequence
      /\ \A e, f \in events : e.stamp = f.stamp => e = f
      /\ overflowPending => \A e \in events : e.stamp < overflowStamp
      /\ sequence \in Nat
  BY DEF IInv, StampsAdvance, TypeOK, Event
<1>3. StampsAdvance'
  <2>1. \A e \in events' : Front.stamp < e.stamp
    BY <1>0, <1>1, <1>2
  <2> QED
    BY <1>0, <1>1, <1>2, <2>1 DEF StampsAdvance
<1>4. CapacityHeld' /\ SequenceSpace'
  <2>1. /\ Cardinality(events) \in Nat /\ Cardinality(operations) \in Nat
        /\ Cardinality(events') = Cardinality(events) - 1
    BY <1>0, <1>1, FS_RemoveElement, FS_CardinalityType DEF IInv, TypeOK
  <2> QED
    BY <1>0, <2>1 DEF IInv, CapacityHeld, SequenceSpace
<1>5. OneGenerationPending' /\ TerminalIsLast'
  BY <1>0 DEF IInv, OneGenerationPending, TerminalIsLast
<1>6. ExactlyOneCompletion'
  <2>1. /\ 1 .. operationId = Pending \cup Queued \cup answered
        /\ Pending \cap Queued = {} /\ Pending \cap answered = {} /\ Queued \cap answered = {}
        /\ \A o, p \in operations : o.id = p.id => o = p
        /\ \A e, f \in events : e.kind = "Completion" /\ f.kind = "Completion"
                                  /\ e.operation = f.operation => e = f
    BY DEF IInv, ExactlyOneCompletion
  <2>2. Pending' = Pending
    BY <1>0 DEF Pending
  <2>3. CASE Front.kind = "Completion"
    <3>1. Queued' = Queued \ {Front.operation} /\ Front.operation \in Queued
      BY <1>0, <1>1, <2>1, <2>3 DEF Queued
    <3> QED
      BY <1>0, <2>1, <2>2, <2>3, <3>1 DEF ExactlyOneCompletion
  <2>4. CASE Front.kind # "Completion"
    <3>1. Queued' = Queued
      BY <1>0, <2>4 DEF Queued
    <3> QED
      BY <1>0, <2>1, <2>2, <2>4, <3>1 DEF ExactlyOneCompletion
  <2> QED
    BY <2>3, <2>4
<1> QED
  BY <1>3, <1>4, <1>5, <1>6 DEF IInv

----------------------------------------------------------------------------
(* The theorems *)

LEMMA InitIInv ==
  ASSUME Init
  PROVE  IInv
<1> DEFINE e1 == [kind |-> "Snapshot", stamp |-> 1, generation |-> 1, operation |-> 0]
<1>1. events = {e1} /\ operations = {} /\ sequence = 1 /\ operationId = 0
  BY DEF Init
<1>2. e1 \in Event /\ e1.stamp = 1 /\ e1.kind = "Snapshot"
  BY DEF Event
<1>3. IsFiniteSet(events) /\ Cardinality(events) = 1
  BY <1>1, FS_Singleton
<1>4. IsFiniteSet(operations) /\ Cardinality(operations) = 0
  BY <1>1, FS_EmptySet
<1> HIDE DEF e1
<1>5. TypeOK
  <2>1. events \in SUBSET Event /\ operations \in SUBSET Operation
    BY <1>1, <1>2
  <2>2. /\ generation \in Nat /\ sequence \in 0 .. MaxSequence
        /\ operationId \in 0 .. MaxOperationId /\ overflowStamp \in 0 .. MaxSequence
        /\ notifying \in 0 .. MaxNotifiers /\ lastTaken \in 0 .. MaxSequence
    BY DEF Init
  <2>3. /\ stopped \in BOOLEAN /\ overflowPending \in BOOLEAN /\ attached \in BOOLEAN
        /\ signalled \in BOOLEAN /\ draining \in BOOLEAN /\ ended \in BOOLEAN
        /\ answered \in SUBSET Nat
    BY DEF Init
  <2> QED
    BY <1>3, <1>4, <2>1, <2>2, <2>3 DEF TypeOK
<1>6. CapacityHeld /\ SequenceSpace
  BY <1>1, <1>3, <1>4 DEF Init, CapacityHeld, SequenceSpace
<1>7. StampsAdvance
  BY <1>1, <1>2 DEF Init, StampsAdvance
<1>8. Pending = {} /\ Queued = {} /\ 1 .. operationId = {}
  BY <1>1, <1>2 DEF Pending, Queued
<1>9. ExactlyOneCompletion
  BY <1>1, <1>2, <1>8 DEF Init, ExactlyOneCompletion
<1>10. OneGenerationPending /\ TerminalIsLast
  BY DEF Init, OneGenerationPending, TerminalIsLast
<1> QED
  BY <1>5, <1>6, <1>7, <1>9, <1>10 DEF IInv

LEMMA NextIInv ==
  ASSUME IInv, [Next]_vars
  PROVE  IInv'
<1>0. TypeOK'
  BY TypeStep DEF IInv
<1>1. ASSUME NEW g \in Generations, Reserve(g) PROVE IInv'
  <2>1. /\ ~stopped /\ Admit(g) /\ \A o \in operations : o.generation = g
        /\ UNCHANGED <<generation, answered, lastTaken, ended>>
        /\ g = generation \/ g > generation
    BY <1>1 DEF Reserve, ReserveAllowed, history
  <2>2. g >= generation
    BY <2>1 DEF IInv, TypeOK, Generations
  <2> QED
    BY <1>0, <2>1, <2>2, AdmitStep
<1>2. ASSUME NEW g \in Generations, ReserveAttempt(g) PROVE IInv'
  <2>1. /\ ~stopped /\ Admit(g) /\ \A o \in operations : o.generation = g
        /\ UNCHANGED <<generation, answered, lastTaken, ended>> /\ g > generation
    BY <1>2 DEF ReserveAttempt, ReserveAttemptAllowed, history
  <2>2. g >= generation
    BY <2>1 DEF IInv, TypeOK, Generations
  <2> QED
    BY <1>0, <2>1, <2>2, AdmitStep
<1>3. ASSUME NEW o \in operations, Complete(o) PROVE IInv'
  BY <1>0, <1>3, CompleteStep
<1>4. CASE CancelPending
  <2>1. ~stopped
    BY <1>4 DEF CancelPending, IInv, TerminalIsLast
  <2> QED
    BY <1>0, <1>4, <2>1, FinishAllStep DEF CancelPending, history
<1>5. CASE Seal
  BY <1>0, <1>5, FinishAllStep DEF Seal, history
<1>6. ASSUME NEW kind \in Published, NEW g \in Generations, Publish(kind, g)
      PROVE  IInv'
  BY <1>0, <1>6, PublishStep
<1>7. CASE Take
  BY <1>0, <1>7, TakeStep
<1>8. CASE TakeOverflow
  <2>1. /\ events = {} /\ overflowPending /\ ~overflowPending' /\ lastTaken' = overflowStamp
        /\ ended' /\ UNCHANGED <<generation, events, operations, sequence, operationId, stopped,
                                 overflowStamp, answered>>
    BY <1>8 DEF TakeOverflow
  <2>2. StampsAdvance' /\ SequenceSpace' /\ CapacityHeld'
    BY <2>1 DEF IInv, StampsAdvance, SequenceSpace, CapacityHeld
  <2>3. TerminalIsLast' /\ OneGenerationPending'
    BY <2>1 DEF IInv, TerminalIsLast, OneGenerationPending
  <2>4. ExactlyOneCompletion'
    BY <2>1 DEF IInv, ExactlyOneCompletion, Pending, Queued
  <2> QED
    BY <1>0, <2>2, <2>3, <2>4 DEF IInv
<1>9. CASE UNCHANGED <<queue, history>>
  BY <1>0, <1>9 DEF queue, history, IInv, CapacityHeld, SequenceSpace, StampsAdvance,
     ExactlyOneCompletion, Pending, Queued, OneGenerationPending, TerminalIsLast
<1>10. SetWakeup \/ Signal \/ StartDrain \/ EndDrain \/ UNCHANGED vars => UNCHANGED <<queue, history>>
  BY DEF SetWakeup, Signal, StartDrain, EndDrain, vars
<1> QED
  BY <1>1, <1>2, <1>3, <1>4, <1>5, <1>6, <1>7, <1>8, <1>9, <1>10 DEF Next, Producer, Consumer

\* The inductive invariant holds in every reachable state.
THEOREM StreamInvariant == Spec => []IInv
<1>1. Init => IInv
  BY InitIInv
<1>2. IInv /\ [Next]_vars => IInv'
  BY NextIInv
<1> QED
  BY <1>1, <1>2, PTL DEF Spec

\* Every variable of the stream keeps its type (SessionEvents.cxx, Impl).
THEOREM StreamTypes == Spec => []TypeOK
<1>1. IInv => TypeOK
  BY DEF IInv
<1> QED
  BY <1>1, StreamInvariant, PTL

\* A nonzero operation id owes exactly one completion, and the storage that
\* was preallocated for it always suffices, through overflow, seal and
\* cancelPending: the promise SessionEvents.h makes of reserve().
THEOREM CompletionExactlyOnce == Spec => [](ExactlyOneCompletion /\ CapacityHeld)
<1>1. IInv => ExactlyOneCompletion /\ CapacityHeld
  BY DEF IInv
<1> QED
  BY <1>1, StreamInvariant, PTL

\* Event stamps never wrap or repeat, whatever the width of the counter, and
\* the out-of-band fault is stamped and delivered last.
THEOREM StreamOrdered == Spec => [](StampsAdvance /\ TerminalIsLast)
<1>1. IInv => StampsAdvance /\ TerminalIsLast
  BY DEF IInv
<1> QED
  BY <1>1, StreamInvariant, PTL

\* Operations of different generations are never pending together.
THEOREM GenerationFence == Spec => []OneGenerationPending
<1>1. IInv => OneGenerationPending
  BY DEF IInv
<1> QED
  BY <1>1, StreamInvariant, PTL

----------------------------------------------------------------------------
(* The readiness signal and the reliability of the queue *)

\* A consumer with a wake-up target is never left asleep over a queued event.
LEMMA WakeupStep ==
  ASSUME TypeOK, NoLostWakeup, [Next]_vars
  PROVE  NoLostWakeup'
<1>0. /\ notifying \in Nat /\ attached \in BOOLEAN /\ signalled \in BOOLEAN
      /\ draining \in BOOLEAN /\ overflowPending \in BOOLEAN
  BY DEF TypeOK
<1>1. ASSUME Notify, UNCHANGED attached PROVE NoLostWakeup'
  BY <1>0, <1>1 DEF Notify, NoLostWakeup
<1>2. ASSUME events' \subseteq events, UNCHANGED <<overflowPending, attached, notifying, signalled, draining>>
      PROVE  NoLostWakeup'
  BY <1>0, <1>2 DEF NoLostWakeup
<1>3. ASSUME NEW g, Admit(g), UNCHANGED <<attached, signalled, draining>> PROVE NoLostWakeup'
  <2>1. CASE Overflow(events)
    BY <1>1, <1>3, <2>1 DEF Overflow
  <2>2. CASE ~Overflow(events)
    <3>1. events' = Reclaimed(events) /\ UNCHANGED <<overflowPending, notifying>>
      BY <1>3, <2>2 DEF Admit
    <3>2. events' \subseteq events
      BY <3>1 DEF Reclaimed, WithoutStatistics
    <3> QED
      BY <1>2, <1>3, <3>1, <3>2
  <2> QED
    BY <2>1, <2>2
<1>4. ASSUME NEW g \in Generations, Reserve(g) \/ ReserveAttempt(g) PROVE NoLostWakeup'
  BY <1>3, <1>4 DEF Reserve, ReserveAttempt
<1>5. ASSUME NEW o \in operations, Complete(o) PROVE NoLostWakeup'
  BY <1>1, <1>5 DEF Complete
<1>6. CASE CancelPending \/ Seal
  BY <1>1, <1>6 DEF CancelPending, Seal
<1>7. ASSUME NEW kind \in Published, NEW g \in Generations, Publish(kind, g) PROVE NoLostWakeup'
  BY <1>1, <1>7 DEF Publish, PublishExhausted, PublishQueued, PublishDroppedStatistics,
     PublishOverflow, Overflow
<1>8. CASE SetWakeup
  BY <1>0, <1>8 DEF SetWakeup, NoLostWakeup, queue
<1>9. CASE Signal
  BY <1>0, <1>9 DEF Signal, NoLostWakeup, queue
<1>10. CASE StartDrain \/ EndDrain
  BY <1>0, <1>10 DEF StartDrain, EndDrain, NoLostWakeup, queue
<1>11. CASE Take
  BY <1>0, <1>11 DEF Take, NoLostWakeup, wakeup
<1>12. CASE TakeOverflow
  BY <1>0, <1>12 DEF TakeOverflow, NoLostWakeup, wakeup
<1>13. CASE UNCHANGED vars
  BY <1>13 DEF vars, queue, wakeup, NoLostWakeup
<1> QED
  BY <1>4, <1>5, <1>6, <1>7, <1>8, <1>9, <1>10, <1>11, <1>12, <1>13 DEF Next, Producer, Consumer

\* No wake-up is lost although the signal is sent after the mutex is released
\* (MailboxNotification).
THEOREM WakeupNeverLost == Spec => []NoLostWakeup
<1>1. Init => NoLostWakeup
  BY DEF Init, NoLostWakeup
<1>2. TypeOK /\ NoLostWakeup /\ [Next]_vars => NoLostWakeup'
  BY WakeupStep
<1> QED
  BY <1>1, <1>2, StreamTypes, PTL DEF Spec

\* Only replaceable statistics are ever dropped; every other event leaves the
\* queue by being delivered in order (removeStatistics, publish, take).
THEOREM ReliableEventsKept == Spec => ReliableKept
<1> DEFINE A == \A e \in events :
                  e \notin events' => \/ e.kind = "Statistics"
                                      \/ e = Front /\ lastTaken' = e.stamp
<1>1. ASSUME [Next]_vars PROVE A \/ UNCHANGED vars
  <2>1. ASSUME \A e \in events : e.kind # "Statistics" => e \in events' PROVE A
    BY <2>1
  <2>2. \A kind : \A S \in {events, Reclaimed(events), Compacted(kind)} :
          \A e \in events : e.kind # "Statistics" => e \in S
    BY DEF Reclaimed, Compacted, WithoutStatistics
  <2>3. \A S : S \subseteq Finished(S)
    BY DEF Finished
  <2>4. ASSUME NEW g \in Generations, Reserve(g) \/ ReserveAttempt(g) PROVE A
    BY <2>1, <2>2, <2>3, <2>4 DEF Reserve, ReserveAttempt, Admit, Overflow
  <2>5. ASSUME NEW o \in operations, Complete(o) PROVE A
    BY <2>5 DEF Complete
  <2>6. CASE CancelPending \/ Seal
    BY <2>1, <2>3, <2>6 DEF CancelPending, Seal
  <2>7. ASSUME NEW kind \in Published, NEW g \in Generations, Publish(kind, g) PROVE A
    BY <2>1, <2>2, <2>3, <2>7 DEF Publish, PublishExhausted, PublishQueued,
       PublishDroppedStatistics, PublishOverflow, Overflow
  <2>8. CASE Take
    BY <2>8 DEF Take
  <2>9. CASE SetWakeup \/ Signal \/ StartDrain \/ EndDrain \/ TakeOverflow
    BY <2>1, <2>9 DEF SetWakeup, Signal, StartDrain, EndDrain, TakeOverflow, queue
  <2> QED
    BY <1>1, <2>4, <2>5, <2>6, <2>7, <2>8, <2>9 DEF Next, Producer, Consumer
<1>2. [Next]_vars => [A]_vars
  BY <1>1
<1> QED
  BY <1>2, PTL DEF Spec, ReliableKept

----------------------------------------------------------------------------
(* The stream implements the ledger.  Because ExactlyOneCompletion makes   *)
(* pending, queued and delivered ids a partition of 1 .. operationId       *)
(* before and after a step, what happens to the reservations and to the    *)
(* history already tells what happens to the queue.                        *)

\* Only an attached consumer is signalled and reads.
Heard == draining \/ signalled \/ notifying > 0 => attached

LEMMA HeardStep ==
  ASSUME TypeOK, Heard, [Next]_vars
  PROVE  Heard'
<1>0. /\ notifying \in Nat /\ attached \in BOOLEAN /\ signalled \in BOOLEAN
      /\ draining \in BOOLEAN
  BY DEF TypeOK
<1>1. ASSUME Notify \/ UNCHANGED notifying, UNCHANGED <<attached, signalled, draining>> PROVE Heard'
  BY <1>0, <1>1 DEF Notify, Heard
<1>2. ASSUME NEW g \in Generations, Reserve(g) \/ ReserveAttempt(g) PROVE Heard'
  BY <1>1, <1>2 DEF Reserve, ReserveAttempt, Admit, Overflow
<1>3. ASSUME NEW o \in operations, Complete(o) PROVE Heard'
  BY <1>1, <1>3 DEF Complete
<1>4. CASE CancelPending \/ Seal
  BY <1>1, <1>4 DEF CancelPending, Seal
<1>5. ASSUME NEW kind \in Published, NEW g \in Generations, Publish(kind, g) PROVE Heard'
  BY <1>1, <1>5 DEF Publish, PublishExhausted, PublishQueued, PublishDroppedStatistics,
     PublishOverflow, Overflow
<1>6. CASE SetWakeup
  BY <1>6 DEF SetWakeup, Heard
<1>7. CASE Signal \/ StartDrain \/ EndDrain
  BY <1>0, <1>7 DEF Signal, StartDrain, EndDrain, Heard
<1>8. CASE Take \/ TakeOverflow \/ UNCHANGED vars
  BY <1>0, <1>8 DEF Take, TakeOverflow, vars, wakeup, Heard
<1> QED
  BY <1>2, <1>3, <1>4, <1>5, <1>6, <1>7, <1>8 DEF Next, Producer, Consumer

\* Reservations that leave without being delivered have their completion queued.
LEMMA Settled ==
  ASSUME ExactlyOneCompletion, ExactlyOneCompletion', UNCHANGED <<operationId, answered>>,
         operations' \subseteq operations
  PROVE  Pending' \subseteq Pending /\ Queued' = Queued \cup (Pending \ Pending')
<1>1. Pending' \subseteq Pending
  BY DEF Pending
<1>2. /\ 1 .. operationId = Pending \cup Queued \cup answered
      /\ Pending \cap Queued = {} /\ Pending \cap answered = {} /\ Queued \cap answered = {}
      /\ 1 .. operationId = Pending' \cup Queued' \cup answered
      /\ Pending' \cap Queued' = {} /\ Queued' \cap answered = {}
  BY DEF ExactlyOneCompletion
<1> QED
  BY <1>1, <1>2

\* Every step of the stream is a step of the ledger or changes nothing of it.
LEMMA LedgerStep ==
  ASSUME IInv, IInv', Heard, [Next]_vars
  PROVE  [Ledger!Next]_(Ledger!ledger)
<1>0. /\ ExactlyOneCompletion /\ ExactlyOneCompletion' /\ TerminalIsLast /\ TypeOK
      /\ ended \in BOOLEAN /\ stopped \in BOOLEAN /\ ended' \in BOOLEAN /\ stopped' \in BOOLEAN
  BY DEF IInv, TypeOK
<1>1. ASSUME operations' \subseteq operations,
             UNCHANGED <<operationId, answered, attached, stopped, ended>>
      PROVE  Ledger!Settle
  BY <1>0, <1>1, Settled DEF Ledger!Settle, Phase
<1>2. ASSUME operations' = {}, ~stopped, stopped', UNCHANGED <<operationId, answered, attached, ended>>
      PROVE  Ledger!Close
  <2>1. Pending' = {} /\ Queued' = Queued \cup Pending
    BY <1>0, <1>2, Settled DEF Pending
  <2>2. Phase = "open" /\ Phase' = "closed"
    BY <1>0, <1>2 DEF Phase, TerminalIsLast
  <2> QED
    BY <1>2, <2>1, <2>2 DEF Ledger!Close
<1>3. ASSUME NEW g \in Generations, Admit(g), ~stopped, UNCHANGED <<answered, attached, ended>>
      PROVE  Ledger!Next
  <2>1. CASE Overflow(events)
    BY <1>2, <1>3, <2>1 DEF Overflow, Ledger!Next
  <2>2. CASE UNCHANGED <<operationId, operations, stopped>>
    BY <1>1, <1>3, <2>2 DEF Ledger!Next
  <2>3. CASE /\ operations' = operations \cup {[id |-> operationId + 1, generation |-> g]}
             /\ operationId' = operationId + 1 /\ UNCHANGED stopped
    <3> DEFINE r == [id |-> operationId + 1, generation |-> g]
    <3>0. r.id = operationId + 1 /\ operations' = operations \cup {r}
      BY <2>3
    <3> HIDE DEF r
    <3>1. Pending' = Pending \cup {operationId + 1}
      BY <3>0 DEF Pending
    <3>2. operationId \in Nat /\ 1 .. operationId' = (1 .. operationId) \cup {operationId + 1}
          /\ operationId + 1 \notin 1 .. operationId
      BY <1>0, <2>3 DEF TypeOK
    <3>3. /\ 1 .. operationId = Pending \cup Queued \cup answered
          /\ Pending \cap Queued = {} /\ Pending \cap answered = {} /\ Queued \cap answered = {}
          /\ 1 .. operationId' = Pending' \cup Queued' \cup answered
          /\ Pending' \cap Queued' = {} /\ Queued' \cap answered = {}
      BY <1>0, <1>3 DEF ExactlyOneCompletion
    <3>4. Queued' = Queued
      BY <3>1, <3>2, <3>3
    <3>5. Phase = "open" /\ Phase' = "open"
      BY <1>0, <1>3, <2>3 DEF Phase, TerminalIsLast
    <3> QED
      BY <1>3, <2>3, <3>1, <3>4, <3>5 DEF Ledger!Admit, Ledger!Next
  <2> QED
    BY <1>3, <2>1, <2>2, <2>3 DEF Admit
<1>4. ASSUME NEW g \in Generations, Reserve(g) \/ ReserveAttempt(g) PROVE Ledger!Next
  BY <1>3, <1>4 DEF Reserve, ReserveAllowed, ReserveAttempt, ReserveAttemptAllowed, history
<1>5. ASSUME NEW o \in operations, Complete(o) PROVE Ledger!Next
  BY <1>1, <1>5 DEF Complete, history, Ledger!Next
<1>6. CASE CancelPending
  BY <1>1, <1>6 DEF CancelPending, history, Ledger!Next
<1>7. CASE Seal
  BY <1>2, <1>7 DEF Seal, history, Ledger!Next
<1>8. ASSUME NEW kind \in Published, NEW g \in Generations, Publish(kind, g) PROVE Ledger!Next
  <2>1. ~stopped /\ UNCHANGED <<answered, attached, ended>>
    BY <1>8 DEF Publish, PublishAllowed, history
  <2>2. \/ \E evs : Overflow(evs)
        \/ UNCHANGED <<operations, operationId, stopped>>
    BY <1>8 DEF Publish, PublishExhausted, PublishQueued, PublishDroppedStatistics, PublishOverflow
  <2>3. CASE \E evs : Overflow(evs)
    BY <1>2, <2>1, <2>3 DEF Overflow, Ledger!Next
  <2>4. CASE UNCHANGED <<operations, operationId, stopped>>
    BY <1>1, <2>1, <2>4 DEF Ledger!Next
  <2> QED
    BY <2>2, <2>3, <2>4
<1>9. CASE Take
  <2>1. /\ draining /\ events # {} /\ UNCHANGED <<operations, operationId, stopped, ended, attached>>
        /\ answered' = IF Front.kind = "Completion" THEN answered \cup {Front.operation} ELSE answered
    BY <1>9 DEF Take, wakeup
  <2>2. CASE Front.kind # "Completion"
    BY <1>1, <2>1, <2>2 DEF Ledger!Next
  <2>3. CASE Front.kind = "Completion"
    <3>1. Front.operation \in Queued
      BY <2>1, <2>3, FrontType DEF IInv, Queued
    <3>2. Pending' = Pending
      BY <2>1 DEF Pending
    <3>3. /\ 1 .. operationId = Pending \cup Queued \cup answered
          /\ Pending \cap Queued = {} /\ Pending \cap answered = {} /\ Queued \cap answered = {}
          /\ 1 .. operationId = Pending \cup Queued' \cup (answered \cup {Front.operation})
          /\ Pending \cap Queued' = {} /\ Queued' \cap (answered \cup {Front.operation}) = {}
      BY <1>0, <2>1, <2>3, <3>2 DEF ExactlyOneCompletion
    <3>4. Queued' = Queued \ {Front.operation}
      BY <3>1, <3>3
    <3>5. Phase # "faulted" /\ Phase' = Phase /\ attached
      BY <1>0, <2>1 DEF Phase, TerminalIsLast, Heard
    <3> QED
      BY <2>1, <3>1, <3>2, <3>4, <3>5 DEF Ledger!Deliver, Ledger!Next
  <2> QED
    BY <2>2, <2>3
<1>10. CASE TakeOverflow
  <2>1. /\ draining /\ events = {} /\ overflowPending /\ ended'
        /\ UNCHANGED <<events, operations, operationId, stopped, attached>>
    BY <1>10 DEF TakeOverflow, wakeup
  <2>2. stopped /\ ~ended /\ operations = {} /\ attached
    BY <2>1 DEF IInv, TerminalIsLast, Heard
  <2>3. Pending = {} /\ Pending' = {} /\ Queued = {} /\ Queued' = {}
    BY <2>1, <2>2 DEF Pending, Queued
  <2>4. Phase = "closed" /\ Phase' = "faulted"
    BY <2>1, <2>2 DEF Phase
  <2> QED
    BY <2>1, <2>2, <2>3, <2>4 DEF Ledger!Fault, Ledger!Next
<1>11. CASE SetWakeup
  <2>1. attached' = TRUE /\ UNCHANGED <<events, operations, operationId, stopped, ended>>
    BY <1>11 DEF SetWakeup, queue, history
  <2>2. UNCHANGED <<Pending, Queued, Phase>>
    BY <2>1 DEF Pending, Queued, Phase
  <2> QED
    BY <2>1, <2>2 DEF Ledger!Listen, Ledger!Next
<1>12. CASE Signal \/ StartDrain \/ EndDrain \/ UNCHANGED vars
  <2>1. UNCHANGED <<events, operations, operationId, stopped, ended, attached>>
    BY <1>12 DEF Signal, StartDrain, EndDrain, vars, queue, history, wakeup
  <2> QED
    BY <2>1 DEF Ledger!ledger, Pending, Queued, Phase
<1> QED
  BY <1>4, <1>5, <1>6, <1>7, <1>8, <1>9, <1>10, <1>11, <1>12 DEF Next, Producer, Consumer

\* For every capacity, counter width and number of attempts the event stream implements the
\* ledger of operations: admitted, settled and delivered once each, the fault last.
THEOREM StreamImplementsLedger == Spec => Ledger!Spec
<1>1. Init => Ledger!Init
  BY DEF Init, Ledger!Init, Pending, Queued, Phase
<1>2. Init => Heard
  BY DEF Init, Heard
<1>3. TypeOK /\ Heard /\ [Next]_vars => Heard'
  BY HeardStep
<1>4. IInv /\ IInv' /\ Heard /\ [Next]_vars => [Ledger!Next]_(Ledger!ledger)
  BY LedgerStep
<1> QED
  BY <1>1, <1>2, <1>3, <1>4, StreamInvariant, StreamTypes, PTL DEF Spec, Ledger!Spec
============================================================================

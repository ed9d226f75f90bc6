--------------------------- MODULE DecodeManager ---------------------------
(***************************************************************************)
(* The decoder threads of a connection (common/rfb/DecodeManager.cxx).     *)
(* The protocol thread fills a buffer with a rectangle's data and queues   *)
(* it; threads pick entries that do not conflict with earlier ones and     *)
(* decode them outside the mutex; flush() waits for the queue to empty.    *)
(*                                                                         *)
(* The framebuffer is a row of pixels.  A pixel's value is the id of the   *)
(* rectangle whose data was decoded into it, so that a result can be       *)
(* compared with decoding one rectangle after the other (`ideal').  A      *)
(* thread reads its input when it begins and writes when it ends; a stream *)
(* decoder that is used out of turn produces Garbage.                      *)
(***************************************************************************)
EXTENDS Integers, Sequences, FiniteSets, SequencesExt, FiniteSetsExt

CONSTANTS
  Threads,     \* decoder threads, a set of numbers
  BufferCount, \* input buffers, twice the threads in the code
  Kinds        \* rectangles the server may send

ASSUME DecodeAssumption ==
  /\ Threads # {} /\ Threads \subseteq Nat /\ IsFiniteSet(Threads)
  /\ BufferCount \in Nat \ {0}

VARIABLES
  workQueue,       \* entries in the order of arrival
  freeBuffers,     \* ids of free buffers, in order
  contents,        \* per buffer: the rectangle whose data it holds
  partialEntry,    \* the rectangle being read, or NoEntry
  threadException, \* the first failure of a thread, until it is thrown
  thread,          \* per decoder thread
  stream,          \* per encoding: rectangles its decoder has gone through
  fb,              \* the pixel buffer
  ideal,           \* history: the pixels a sequential decoder would produce
  sent             \* history: per encoding, rectangles queued

decodeVars == <<workQueue, freeBuffers, contents, partialEntry, threadException, thread,
                stream, fb, ideal, sent>>

Garbage == -1
Black == 0
Buffers == 1 .. BufferCount
Encodings == {k.encoding : k \in Kinds}
NoEntry == [id |-> 0]

\* kind.order: what the decoder's flags and doRectsConflict() say: "any" order, in
\* the order of its "encoding", or in the order of its "stream" of that encoding.
Lane(kind) == CASE kind.order = "any" -> {}
                [] kind.order = "encoding" -> {kind.encoding}
                [] kind.order = "stream" -> {<<kind.encoding, kind.stream>>}
Lanes == UNION {Lane(k) : k \in Kinds}
\* getAffectedRegion(): for a copy the source belongs to it.
Affected(kind) == kind.writes \cup kind.reads
Copies(kind) == kind.reads # {}

\* What a rectangle paints on pixels p, its data being d, and the pixels it leaves.
Result(p, kind, d) == IF Copies(kind) THEN p[Min(kind.reads)] ELSE d
Painted(p, kind, d) == [c \in DOMAIN p |-> IF c \in kind.writes THEN Result(p, kind, d) ELSE p[c]]

Looking == [at |-> "look", id |-> 0, value |-> 0, stop |-> FALSE]

DecodeInit(pixels) ==
  /\ workQueue = <<>> /\ freeBuffers = [i \in Buffers |-> i]
  /\ contents = [b \in Buffers |-> 0]
  /\ partialEntry = NoEntry /\ threadException = FALSE
  /\ thread = [t \in Threads |-> Looking]
  /\ stream = [l \in Lanes |-> 0] /\ sent = [l \in Lanes |-> 0]
  /\ fb = pixels /\ ideal = pixels

----------------------------------------------------------------------------
(* decodeRect(), on the protocol thread. *)

\* The buffer stays at the front of the free list while it is being filled.  `places' and
\* `result' are histories: its turn in each stream, and what a sequential decoder paints.
BeginRect(id, kind) ==
  /\ partialEntry = NoEntry /\ freeBuffers # <<>>
  /\ partialEntry' = [id |-> id, kind |-> kind, buffer |-> Head(freeBuffers), active |-> FALSE,
                      places |-> sent, result |-> Result(ideal, kind, id)]
  /\ contents' = [contents EXCEPT ![Head(freeBuffers)] = 0]
  /\ UNCHANGED <<workQueue, freeBuffers, threadException, thread, stream, fb, ideal, sent>>

Wake(S) == thread' = [t \in Threads |-> IF t \in S /\ thread[t].at = "asleep"
                                        THEN [thread[t] EXCEPT !.at = "look"] ELSE thread[t]]
Asleep == {t \in Threads : thread[t].at = "asleep"}

\* All data has arrived: queue the entry and notify_one().
QueueRect ==
  /\ partialEntry # NoEntry /\ ~threadException
  /\ contents' = [contents EXCEPT ![partialEntry.buffer] = partialEntry.id]
  /\ freeBuffers' = Tail(freeBuffers)
  /\ workQueue' = Append(workQueue, partialEntry)
  /\ partialEntry' = NoEntry
  /\ IF Asleep = {} THEN UNCHANGED thread ELSE \E t \in Asleep : Wake({t})
  /\ ideal' = Painted(ideal, partialEntry.kind, partialEntry.id)
  /\ sent' = [l \in Lanes |-> IF l \in Lane(partialEntry.kind) THEN sent[l] + 1 ELSE sent[l]]
  /\ UNCHANGED <<threadException, stream, fb>>

\* flush() and throwThreadException() are tests of this state by the protocol thread.
Flushed == workQueue = <<>>

----------------------------------------------------------------------------
(* DecodeThread::worker(). *)

\* Entry i of the queue may be decoded now: findEntry().
Available_AnyOrder(i) ==  \* mutant: only the overlap with earlier rectangles counts
  /\ ~workQueue[i].active
  /\ \A j \in 1 .. i - 1 : Affected(workQueue[i].kind) \cap Affected(workQueue[j].kind) = {}
Available(i) ==
  /\ ~workQueue[i].active
  /\ \A j \in 1 .. i - 1 :
       /\ Lane(workQueue[i].kind) \cap Lane(workQueue[j].kind) = {}
       /\ Affected(workQueue[i].kind) \cap Affected(workQueue[j].kind) = {}

FindEntry == LET found == {i \in 1 .. Len(workQueue) : Available(i)}
             IN IF found = {} THEN 0 ELSE Min(found)

Position(t) == CHOOSE i \in 1 .. Len(workQueue) : workQueue[i].id = thread[t].id

\* What decoding entry e will produce, from the data and the decoder's state now.
Decoded(e) ==
  IF \E l \in Lane(e.kind) : stream[l] # e.places[l] THEN Garbage
  ELSE IF Copies(e.kind) THEN fb[Min(e.kind.reads)] ELSE contents[e.buffer]

\* Look for an entry, or wait; or leave, when told to.
Look(t) ==
  /\ thread[t].at = "look"
  /\ IF thread[t].stop
     THEN thread' = [thread EXCEPT ![t].at = "exited"] /\ UNCHANGED workQueue
     ELSE IF FindEntry = 0
     THEN thread' = [thread EXCEPT ![t].at = "asleep"] /\ UNCHANGED workQueue
     ELSE /\ workQueue' = [workQueue EXCEPT ![FindEntry].active = TRUE]
          /\ thread' = [thread EXCEPT ![t].at = "decode", ![t].id = workQueue[FindEntry].id,
                                      ![t].value = Decoded(workQueue[FindEntry])]
  /\ UNCHANGED <<freeBuffers, contents, partialEntry, threadException, stream, fb, ideal, sent>>

\* decodeRect() of the decoder: the pixels are written and the stream has moved on.
Decode(t) ==
  /\ thread[t].at = "decode"
  /\ LET kind == workQueue[Position(t)].kind IN
     /\ fb' = [c \in DOMAIN fb |-> IF c \in kind.writes THEN thread[t].value ELSE fb[c]]
     /\ stream' = [l \in Lanes |-> IF l \in Lane(kind) THEN stream[l] + 1 ELSE stream[l]]
  /\ thread' = [thread EXCEPT ![t].at = "return", ![t].value = 0]
  /\ UNCHANGED <<workQueue, freeBuffers, contents, partialEntry, threadException, ideal, sent>>

\* It throws: setThreadException().
DecodeFails(t) ==
  /\ thread[t].at = "decode"
  /\ threadException' = TRUE
  /\ thread' = [thread EXCEPT ![t].at = "return", ![t].value = 0]
  /\ UNCHANGED <<workQueue, freeBuffers, contents, partialEntry, stream, fb, ideal, sent>>

WakesAll_OffByOne == Len(workQueue) > 3  \* mutant
WakesAll == Len(workQueue) > 2  \* size() > 1 once the entry is removed

\* The entry leaves the queue; the others are woken if there is work for them.  The
\* protocol thread is notified in any case: its waits are tests of this state.
Return(t) ==
  /\ thread[t].at = "return"
  /\ LET i == Position(t) IN
     /\ freeBuffers' = Append(freeBuffers, workQueue[i].buffer)
     /\ workQueue' = RemoveAt(workQueue, i)
     /\ thread' = [u \in Threads |->
          IF u = t THEN [thread[t] EXCEPT !.at = "look", !.id = 0]
          ELSE IF WakesAll /\ thread[u].at = "asleep"
          THEN [thread[u] EXCEPT !.at = "look"] ELSE thread[u]]
  /\ UNCHANGED <<contents, partialEntry, threadException, stream, fb, ideal, sent>>

\* A condition variable may wake without a notification.
WakeSpuriously(t) ==
  /\ thread[t].at = "asleep" /\ Wake({t})
  /\ UNCHANGED <<workQueue, freeBuffers, contents, partialEntry, threadException, stream, fb,
                 ideal, sent>>

DecodeThread(t) == Look(t) \/ Decode(t) \/ Return(t)
DecodeNext == \E t \in Threads : DecodeThread(t) \/ DecodeFails(t) \/ WakeSpuriously(t)

----------------------------------------------------------------------------
(* The destructor deletes the threads one after the other. *)

Exited == {t \in Threads : thread[t].at = "exited"}
\* stop(): "We can't wake just this thread, so wake everyone".
StopThread ==
  /\ Exited # Threads
  /\ LET t == Max(Threads \ Exited) IN
     /\ ~thread[t].stop
     /\ thread' = [u \in Threads |->
          [thread[u] EXCEPT !.stop = (u = t) \/ @, !.at = IF @ = "asleep" THEN "look" ELSE @]]
  /\ UNCHANGED <<workQueue, freeBuffers, contents, partialEntry, threadException, stream, fb,
                 ideal, sent>>
=============================================================================

-------------------------- MODULE FramePathProofs --------------------------
(***************************************************************************)
(* Proofs about FramePath, for every number of threads, buffers and views, *)
(* every mix of encodings and rectangles, every budget and every size of   *)
(* the desktop.  First the decoding half, then the publishing half, which  *)
(* uses it, then the notifications of the decoder threads.                 *)
(***************************************************************************)
EXTENDS FramePath, FiniteSetTheorems, SequenceTheorems, WellFoundedInduction, TLAPS

----------------------------------------------------------------------------
(* Decoding: the inductive invariant *)

Entry == [id : Nat \ {0}, kind : Kinds, buffer : Buffers, active : BOOLEAN,
          places : [Lanes -> Nat], result : Int]
ThreadState == [at : {"look", "asleep", "decode", "return", "exited"}, id : Nat, value : Int,
                stop : BOOLEAN]

DecodeTypeOK ==
  /\ workQueue \in Seq(Entry) /\ freeBuffers \in Seq(Buffers) /\ contents \in [Buffers -> Nat]
  /\ partialEntry \in Entry \cup {NoEntry} /\ threadException \in BOOLEAN
  /\ thread \in [Threads -> ThreadState]
  /\ stream \in [Lanes -> Nat] /\ sent \in [Lanes -> Nat]
  /\ fb \in Seq(Int) /\ ideal \in Seq(Int) /\ Len(ideal) = Len(fb)
  /\ bound \in [rects : Nat, updates : Nat, cursors : Nat]
  /\ {"at", "inUpdate", "retry"} \subseteq DOMAIN main /\ main.inUpdate \in BOOLEAN
  /\ main.at \in {"idle", "publish", "deliver", "cursor", "closing", "join", "closed"}

Queued == {workQueue[i] : i \in 1 .. Len(workQueue)}
Deleted == main.at \in {"join", "closed"}
Ending == main.at \in {"closing", "join", "closed"}
Busy(t) == thread[t].at \in {"decode", "return"}

\* Ids tell rectangles apart and give their order.
InOrder ==
  /\ \A i, j \in 1 .. Len(workQueue) : i < j => workQueue[i].id < workQueue[j].id
  /\ \A e \in Queued : e.id <= bound.rects
  /\ partialEntry # NoEntry =>
       /\ partialEntry.id <= bound.rects
       /\ \A e \in Queued : e.id < partialEntry.id

\* A thread at work has a queued rectangle to itself.
Assigned ==
  /\ \A t \in Threads : Busy(t) => \E e \in Queued : e.id = thread[t].id /\ e.active = TRUE
  /\ \A t, u \in Threads : Busy(t) /\ Busy(u) /\ thread[t].id = thread[u].id => t = u

Conflict(j, k) == Lane(j) \cap Lane(k) # {} \/ Affected(j) \cap Affected(k) # {}

\* No rectangle is at work before an earlier one it depends on has left the queue.
Unhindered ==
  \A e, f \in Queued : e.active = TRUE /\ f.id < e.id => ~Conflict(e.kind, f.kind)

\* A queued rectangle's data stays in its buffer.
DataKept ==
  /\ \A e \in Queued : contents[e.buffer] = e.id
                       /\ \A i \in 1 .. Len(freeBuffers) : freeBuffers[i] # e.buffer
  /\ \A i, j \in 1 .. Len(freeBuffers) : i # j => freeBuffers[i] # freeBuffers[j]
  /\ partialEntry # NoEntry => freeBuffers # <<>> /\ partialEntry.buffer = freeBuffers[1]

\* What is known of a rectangle that is being read.
PartialKnown ==
  partialEntry # NoEntry =>
    /\ partialEntry.active = FALSE /\ partialEntry.places = sent
    /\ ~Deleted => /\ Affected(partialEntry.kind) \subseteq 1 .. Len(fb)
                   /\ partialEntry.result = Result(ideal, partialEntry.kind, partialEntry.id)

\* The framebuffer lives as long as there is work on it, and publication waits for all of it.
Phases ==
  /\ \A e \in Queued : Affected(e.kind) \subseteq 1 .. Len(fb)
  /\ Deleted => workQueue = <<>>
  /\ ~Deleted => fb # <<>>
  /\ main.at \in {"publish", "deliver", "cursor"} \/ (main.at = "idle" /\ main.inUpdate = FALSE)
       => main.inUpdate = FALSE /\ workQueue = <<>> /\ partialEntry = NoEntry /\ threadException = FALSE

\* The rectangles still to be decoded; whether one is at work, and where its data is, does
\* not matter to what it will paint.
Job(e) == [id |-> e.id, kind |-> e.kind, places |-> e.places, result |-> e.result]
Done(e) == \E t \in Threads : thread[t].at = "return" /\ thread[t].id = e.id
Pending == {Job(e) : e \in {q \in Queued : ~Done(q)}}

\* Per stream, the rectangles to come have consecutive places from where its decoder is.
StreamsKept(jobs, reached, queued) ==
  \A l \in Lanes :
    /\ reached[l] <= queued[l]
    /\ \A e \in jobs : l \in Lane(e.kind) => reached[l] <= e.places[l] /\ e.places[l] < queued[l]
    /\ \A e, f \in jobs : l \in Lane(e.kind) /\ l \in Lane(f.kind) /\ e.id < f.id
                            => e.places[l] < f.places[l]
    /\ \A n \in Nat : reached[l] <= n /\ n < queued[l]
                        => \E e \in jobs : l \in Lane(e.kind) /\ e.places[l] = n

\* The last of some jobs that paints pixel c.
LastWriter(e, c, jobs) ==
  e \in jobs /\ c \in e.kind.writes /\ \A f \in jobs : c \in f.kind.writes => f.id <= e.id
Before(e, jobs) == {f \in jobs : f.id < e.id}
Unwritten(c, jobs) == \A e \in jobs : c \notin e.kind.writes
Source(e) == Min(e.kind.reads)

\* What is still to be painted turns the pixels into the sequential ones.
PixelsKept(jobs, pixels, goal) ==
  /\ \A c \in 1 .. Len(pixels) : Unwritten(c, jobs) => pixels[c] = goal[c]
  /\ \A c \in 1 .. Len(pixels) : \A e \in jobs : LastWriter(e, c, jobs) => goal[c] = e.result
\* A copy will find what it is to copy; other rectangles bring it.
ResultsKept(jobs, pixels) ==
  \A e \in jobs :
    IF Copies(e.kind)
    THEN /\ Unwritten(Source(e), Before(e, jobs)) => e.result = pixels[Source(e)]
         /\ \A f \in jobs : LastWriter(f, Source(e), Before(e, jobs)) => e.result = f.result
    ELSE e.result = e.id

\* A thread that is decoding has the value the sequential decoder would have.
ValuesKept ==
  \A t \in Threads, e \in Queued :
    thread[t].at = "decode" /\ e.id = thread[t].id => thread[t].value = e.result

Healthy == threadException = FALSE /\ ~Ending

Sequential ==
  /\ StreamsKept(Pending, stream, sent) /\ PixelsKept(Pending, fb, ideal)
  /\ ResultsKept(Pending, fb) /\ ValuesKept

DecodeInv ==
  /\ DecodeTypeOK /\ InOrder /\ Assigned /\ Unhindered /\ DataKept /\ PartialKnown /\ Phases
  /\ Healthy => Sequential

----------------------------------------------------------------------------
(* Numbers and sequences *)

LEMMA LeastNumber ==
  ASSUME NEW S \in SUBSET Nat, S # {}
  PROVE  Min(S) \in S /\ \A y \in S : Min(S) <= y
<1>1. OpToRel(<, Nat) = {pair \in Nat \X Nat : pair[1] < pair[2]}
  BY DEF OpToRel
<1>2. IsWellFoundedOn(OpToRel(<, Nat), Nat)
  BY NatLessThanWellFounded
<1>3. PICK x \in S : \A y \in S : ~(<<y, x>> \in OpToRel(<, Nat))
  BY <1>2, WFMin
<1>4. ASSUME NEW y \in S PROVE x <= y
  <2>1. ~(<<y, x>> \in {pair \in Nat \X Nat : pair[1] < pair[2]})
    BY <1>1, <1>3
  <2> QED
    BY <2>1
<1> QED
  BY <1>4 DEF Min

LEMMA Removed ==
  ASSUME NEW S, NEW q \in Seq(S), NEW k \in 1 .. Len(q)
  PROVE  /\ RemoveAt(q, k) \in Seq(S) /\ Len(RemoveAt(q, k)) = Len(q) - 1
         /\ \A i \in 1 .. Len(q) - 1 : RemoveAt(q, k)[i] = IF i < k THEN q[i] ELSE q[i + 1]
<1> DEFINE head == SubSeq(q, 1, k - 1)
           tail == SubSeq(q, k + 1, Len(q))
<1>1. /\ head \in Seq(S) /\ Len(head) = k - 1 /\ \A i \in 1 .. k - 1 : head[i] = q[i]
      /\ tail \in Seq(S) /\ Len(tail) = Len(q) - k /\ \A i \in 1 .. Len(q) - k : tail[i] = q[k + i]
  OBVIOUS
<1>2. RemoveAt(q, k) = head \o tail
  BY DEF RemoveAt
<1> HIDE DEF head, tail
<1>3. /\ head \o tail \in Seq(S) /\ Len(head \o tail) = Len(q) - 1
      /\ \A i \in 1 .. Len(q) - 1 : (head \o tail)[i] = IF i <= k - 1 THEN head[i] ELSE tail[i - (k - 1)]
  <2>1. /\ head \o tail \in Seq(S) /\ Len(head \o tail) = Len(head) + Len(tail)
        /\ \A i \in 1 .. Len(head) + Len(tail) :
             (head \o tail)[i] = IF i <= Len(head) THEN head[i] ELSE tail[i - Len(head)]
    BY <1>1, ConcatProperties
  <2> QED
    BY <1>1, <2>1
<1>4. ASSUME NEW i \in 1 .. Len(q) - 1
      PROVE  (head \o tail)[i] = IF i < k THEN q[i] ELSE q[i + 1]
  <2>1. CASE i < k
    BY <1>1, <1>3, <2>1
  <2>2. CASE ~(i < k)
    <3>1. i - (k - 1) \in 1 .. Len(q) - k /\ k + (i - (k - 1)) = i + 1
      BY <2>2
    <3> QED
      BY <1>1, <1>3, <2>2, <3>1
  <2> QED
    BY <2>1, <2>2
<1> QED
  BY <1>2, <1>3, <1>4

----------------------------------------------------------------------------
(* Sets of jobs *)

JobRecord == [id : Nat \ {0}, kind : Kinds, places : [Lanes -> Nat], result : Int]
Distinct(jobs) == \A e, f \in jobs : e.id = f.id => e = f

\* A stream whose decoder has reached the place of its first job hands it to that one.
LEMMA TurnReached ==
  ASSUME NEW jobs \in SUBSET JobRecord, NEW reached \in [Lanes -> Nat], NEW queued \in [Lanes -> Nat],
         StreamsKept(jobs, reached, queued), NEW e \in jobs, NEW l \in Lanes, l \in Lane(e.kind),
         Distinct(jobs), \A f \in jobs : f.id < e.id => l \notin Lane(f.kind)
  PROVE  reached[l] = e.places[l]
<1>1. reached[l] \in Nat /\ queued[l] \in Nat /\ e.places[l] \in Nat /\ e.id \in Nat
  BY DEF JobRecord
<1>2. reached[l] <= e.places[l] /\ e.places[l] < queued[l]
  BY DEF StreamsKept
<1>3. PICK f \in jobs : l \in Lane(f.kind) /\ f.places[l] = reached[l]
  BY <1>1, <1>2 DEF StreamsKept
<1>4. f.id \in Nat
  BY DEF JobRecord
<1>5. f.id < e.id \/ f = e \/ e.id < f.id
  BY <1>1, <1>4 DEF Distinct
<1>6. ~(e.id < f.id)
  BY <1>1, <1>2, <1>3 DEF StreamsKept
<1> QED
  BY <1>3, <1>5, <1>6

\* A job joins the end of its streams.
LEMMA QueueStreams ==
  ASSUME NEW jobs \in SUBSET JobRecord, NEW reached \in [Lanes -> Nat], NEW queued \in [Lanes -> Nat],
         StreamsKept(jobs, reached, queued), NEW e \in JobRecord, e.places = queued,
         \A f \in jobs : f.id < e.id
  PROVE  StreamsKept(jobs \cup {e}, reached,
                     [l \in Lanes |-> IF l \in Lane(e.kind) THEN queued[l] + 1 ELSE queued[l]])
<1> DEFINE more == [l \in Lanes |-> IF l \in Lane(e.kind) THEN queued[l] + 1 ELSE queued[l]]
<1> SUFFICES ASSUME NEW l \in Lanes
             PROVE  /\ reached[l] <= more[l]
                    /\ \A f \in jobs \cup {e} :
                         l \in Lane(f.kind) => reached[l] <= f.places[l] /\ f.places[l] < more[l]
                    /\ \A f, g \in jobs \cup {e} :
                         l \in Lane(f.kind) /\ l \in Lane(g.kind) /\ f.id < g.id
                           => f.places[l] < g.places[l]
                    /\ \A n \in Nat : reached[l] <= n /\ n < more[l]
                         => \E f \in jobs \cup {e} : l \in Lane(f.kind) /\ f.places[l] = n
  BY DEF StreamsKept
<1>1. /\ reached[l] \in Nat /\ queued[l] \in Nat /\ e.places[l] = queued[l]
      /\ more[l] \in {queued[l], queued[l] + 1}
      /\ l \in Lane(e.kind) <=> more[l] = queued[l] + 1
  OBVIOUS
<1>2. \A f \in jobs \cup {e} : f.places[l] \in Nat /\ f.id \in Nat
  BY DEF JobRecord
<1>3. /\ reached[l] <= queued[l]
      /\ \A f \in jobs : l \in Lane(f.kind) => reached[l] <= f.places[l] /\ f.places[l] < queued[l]
      /\ \A f, g \in jobs : l \in Lane(f.kind) /\ l \in Lane(g.kind) /\ f.id < g.id
                              => f.places[l] < g.places[l]
      /\ \A n \in Nat : reached[l] <= n /\ n < queued[l]
                          => \E f \in jobs : l \in Lane(f.kind) /\ f.places[l] = n
  BY DEF StreamsKept
<1> HIDE DEF more
<1>4. \A f, g \in jobs \cup {e} : l \in Lane(f.kind) /\ l \in Lane(g.kind) /\ f.id < g.id
                                    => f.places[l] < g.places[l]
  BY <1>1, <1>2, <1>3
<1>5. ASSUME NEW n \in Nat, reached[l] <= n, n < more[l]
      PROVE  \E f \in jobs \cup {e} : l \in Lane(f.kind) /\ f.places[l] = n
  <2>1. n < queued[l] \/ (n = queued[l] /\ l \in Lane(e.kind))
    BY <1>1, <1>5
  <2> QED
    BY <1>1, <1>3, <1>5, <2>1
<1> QED
  BY <1>1, <1>2, <1>3, <1>4, <1>5

\* A job that is the first of its streams is decoded.
LEMMA DecodeStreams ==
  ASSUME NEW jobs \in SUBSET JobRecord, NEW reached \in [Lanes -> Nat], NEW queued \in [Lanes -> Nat],
         StreamsKept(jobs, reached, queued), NEW e \in jobs, Distinct(jobs),
         \A f \in jobs : f.id < e.id => Lane(e.kind) \cap Lane(f.kind) = {}
  PROVE  StreamsKept(jobs \ {e},
                     [l \in Lanes |-> IF l \in Lane(e.kind) THEN reached[l] + 1 ELSE reached[l]], queued)
<1> DEFINE next == [l \in Lanes |-> IF l \in Lane(e.kind) THEN reached[l] + 1 ELSE reached[l]]
<1> SUFFICES ASSUME NEW l \in Lanes
             PROVE  /\ next[l] <= queued[l]
                    /\ \A f \in jobs \ {e} :
                         l \in Lane(f.kind) => next[l] <= f.places[l] /\ f.places[l] < queued[l]
                    /\ \A f, g \in jobs \ {e} :
                         l \in Lane(f.kind) /\ l \in Lane(g.kind) /\ f.id < g.id
                           => f.places[l] < g.places[l]
                    /\ \A n \in Nat : next[l] <= n /\ n < queued[l]
                         => \E f \in jobs \ {e} : l \in Lane(f.kind) /\ f.places[l] = n
  BY DEF StreamsKept
<1>1. reached[l] \in Nat /\ queued[l] \in Nat /\ next[l] = IF l \in Lane(e.kind) THEN reached[l] + 1 ELSE reached[l]
  OBVIOUS
<1>2. \A f \in jobs : f.places[l] \in Nat /\ f.id \in Nat
  BY DEF JobRecord
<1>3. /\ reached[l] <= queued[l]
      /\ \A f \in jobs : l \in Lane(f.kind) => reached[l] <= f.places[l] /\ f.places[l] < queued[l]
      /\ \A f, g \in jobs : l \in Lane(f.kind) /\ l \in Lane(g.kind) /\ f.id < g.id
                              => f.places[l] < g.places[l]
      /\ \A n \in Nat : reached[l] <= n /\ n < queued[l]
                          => \E f \in jobs : l \in Lane(f.kind) /\ f.places[l] = n
  BY DEF StreamsKept
<1>4. l \in Lane(e.kind) => reached[l] = e.places[l]
  BY TurnReached
<1>5. \A f \in jobs \ {e} : f.id < e.id \/ e.id < f.id
  BY <1>2 DEF Distinct
<1> HIDE DEF next
<1>6. CASE l \notin Lane(e.kind)
  BY <1>1, <1>3, <1>6
<1>7. CASE l \in Lane(e.kind)
  <2>1. \A f \in jobs \ {e} : l \in Lane(f.kind) => e.places[l] < f.places[l]
    BY <1>3, <1>5, <1>7
  <2>2. \A f \in jobs \ {e} : l \in Lane(f.kind) => next[l] <= f.places[l] /\ f.places[l] < queued[l]
    BY <1>1, <1>2, <1>3, <1>4, <1>7, <2>1
  <2>3. next[l] <= queued[l]
    BY <1>1, <1>2, <1>3, <1>4, <1>7
  <2>4. ASSUME NEW n \in Nat, next[l] <= n, n < queued[l]
        PROVE  \E f \in jobs \ {e} : l \in Lane(f.kind) /\ f.places[l] = n
    <3>1. PICK f \in jobs : l \in Lane(f.kind) /\ f.places[l] = n
      BY <1>1, <1>3, <1>7, <2>4
    <3>2. f # e
      BY <1>1, <1>4, <1>7, <2>4, <3>1
    <3> QED
      BY <3>1, <3>2
  <2> QED
    BY <1>3, <2>2, <2>3, <2>4
<1> QED
  BY <1>6, <1>7

LEMMA SourceAffected ==
  ASSUME NEW e \in JobRecord, NEW n \in Nat, Affected(e.kind) \subseteq 1 .. n, Copies(e.kind)
  PROVE  Source(e) \in e.kind.reads /\ Source(e) \in 1 .. n
<1>1. e.kind.reads \in SUBSET Nat /\ e.kind.reads # {} /\ e.kind.reads \subseteq 1 .. n
  BY DEF Affected, Copies
<1> QED
  BY <1>1, LeastNumber DEF Source

\* The sequential decoder and the queue take in the same rectangle.
LEMMA QueuePixels ==
  ASSUME NEW jobs \in SUBSET JobRecord, NEW pixels \in Seq(Int), NEW goal \in Seq(Int),
         Len(goal) = Len(pixels), PixelsKept(jobs, pixels, goal), ResultsKept(jobs, pixels),
         NEW e \in JobRecord, \A f \in jobs : f.id < e.id,
         Affected(e.kind) \subseteq 1 .. Len(pixels), e.result = Result(goal, e.kind, e.id)
  PROVE  /\ PixelsKept(jobs \cup {e}, pixels, Painted(goal, e.kind, e.id))
         /\ ResultsKept(jobs \cup {e}, pixels)
<1> DEFINE all == jobs \cup {e}
           painted == Painted(goal, e.kind, e.id)
<1>1. \A f \in all : f.id \in Nat
  BY DEF JobRecord
<1>2. \A c \in 1 .. Len(pixels) : painted[c] = IF c \in e.kind.writes THEN e.result ELSE goal[c]
  BY DEF Painted
<1>3. e \notin jobs
  BY <1>1
<1>4. /\ \A c \in 1 .. Len(pixels) : Unwritten(c, jobs) => pixels[c] = goal[c]
      /\ \A c \in 1 .. Len(pixels) : \A f \in jobs : LastWriter(f, c, jobs) => goal[c] = f.result
  BY DEF PixelsKept
<1>5. \A f \in jobs : Before(f, all) = Before(f, jobs)
  BY <1>1 DEF Before
<1>6. Before(e, all) = jobs
  BY <1>1 DEF Before
<1> HIDE DEF painted
<1>7. ASSUME NEW c \in 1 .. Len(pixels), Unwritten(c, all)
      PROVE  pixels[c] = painted[c]
  BY <1>2, <1>4, <1>7 DEF Unwritten
<1>8. ASSUME NEW c \in 1 .. Len(pixels), NEW f \in all, LastWriter(f, c, all)
      PROVE  painted[c] = f.result
  <2>1. CASE c \in e.kind.writes
    <3>1. f = e
      BY <1>1, <1>8, <2>1 DEF LastWriter
    <3> QED
      BY <1>2, <2>1, <3>1
  <2>2. CASE c \notin e.kind.writes
    <3>1. f \in jobs /\ LastWriter(f, c, jobs)
      BY <1>8, <2>2 DEF LastWriter
    <3> QED
      BY <1>2, <1>4, <2>2, <3>1
  <2> QED
    BY <2>1, <2>2
<1>9. PixelsKept(all, pixels, painted)
  BY <1>7, <1>8 DEF PixelsKept
<1>10. ASSUME NEW f \in jobs
       PROVE  IF Copies(f.kind)
              THEN /\ Unwritten(Source(f), Before(f, all)) => f.result = pixels[Source(f)]
                   /\ \A g \in all : LastWriter(g, Source(f), Before(f, all)) => f.result = g.result
              ELSE f.result = f.id
  <2>1. \A g \in all : LastWriter(g, Source(f), Before(f, all)) => g \in jobs
    BY <1>5 DEF LastWriter, Before
  <2> QED
    BY <1>5, <2>1 DEF ResultsKept
<1>11. IF Copies(e.kind)
       THEN /\ Unwritten(Source(e), Before(e, all)) => e.result = pixels[Source(e)]
            /\ \A g \in all : LastWriter(g, Source(e), Before(e, all)) => e.result = g.result
       ELSE e.result = e.id
  <2>1. CASE ~Copies(e.kind)
    BY <2>1 DEF Result
  <2>2. CASE Copies(e.kind)
    <3>1. e.result = goal[Source(e)] /\ Source(e) \in 1 .. Len(pixels)
      BY <2>2, SourceAffected DEF Result, Source
    <3>2. \A g \in all : LastWriter(g, Source(e), jobs) => g \in jobs
      BY DEF LastWriter
    <3> QED
      BY <1>4, <1>6, <2>2, <3>1, <3>2
  <2> QED
    BY <2>1, <2>2
<1>12. ResultsKept(all, pixels)
  BY <1>10, <1>11 DEF ResultsKept
<1> QED
  BY <1>9, <1>12 DEF painted

\* A job that depends on no earlier one may be done before them.
LEMMA DecodePixels ==
  ASSUME NEW jobs \in SUBSET JobRecord, NEW pixels \in Seq(Int), NEW goal \in Seq(Int),
         Len(goal) = Len(pixels), PixelsKept(jobs, pixels, goal), ResultsKept(jobs, pixels),
         NEW e \in jobs, Distinct(jobs), \A f \in jobs : Affected(f.kind) \subseteq 1 .. Len(pixels),
         \A f \in jobs : f.id < e.id => Affected(e.kind) \cap Affected(f.kind) = {},
         NEW done \in Seq(Int), Len(done) = Len(pixels),
         \A c \in 1 .. Len(pixels) : done[c] = IF c \in e.kind.writes THEN e.result ELSE pixels[c]
  PROVE  PixelsKept(jobs \ {e}, done, goal) /\ ResultsKept(jobs \ {e}, done)
<1> DEFINE rest == jobs \ {e}
<1>1. \A f \in jobs : f.id \in Nat
  BY DEF JobRecord
<1>2. \A f \in rest : f.id < e.id \/ e.id < f.id
  BY <1>1 DEF Distinct
<1>3. /\ \A c \in 1 .. Len(pixels) : Unwritten(c, jobs) => pixels[c] = goal[c]
      /\ \A c \in 1 .. Len(pixels) : \A f \in jobs : LastWriter(f, c, jobs) => goal[c] = f.result
  BY DEF PixelsKept
<1>4. \A f \in jobs : f.id < e.id => \A c \in e.kind.writes : c \notin f.kind.writes /\ c \notin f.kind.reads
  BY DEF Affected
<1>5. ASSUME NEW c \in 1 .. Len(pixels), Unwritten(c, rest)
      PROVE  done[c] = goal[c]
  <2>1. CASE c \in e.kind.writes
    <3>1. LastWriter(e, c, jobs)
      BY <1>1, <1>5, <2>1 DEF LastWriter, Unwritten
    <3> QED
      BY <1>3, <2>1, <3>1
  <2>2. CASE c \notin e.kind.writes
    <3>1. Unwritten(c, jobs)
      BY <1>5, <2>2 DEF Unwritten
    <3> QED
      BY <1>3, <2>2, <3>1
  <2> QED
    BY <2>1, <2>2
<1>6. ASSUME NEW c \in 1 .. Len(pixels), NEW f \in rest, LastWriter(f, c, rest)
      PROVE  goal[c] = f.result
  <2>1. c \in e.kind.writes => e.id <= f.id
    BY <1>1, <1>2, <1>4, <1>6 DEF LastWriter
  <2>2. LastWriter(f, c, jobs)
    BY <1>6, <2>1 DEF LastWriter
  <2> QED
    BY <1>3, <2>2
<1>7. PixelsKept(rest, done, goal)
  BY <1>5, <1>6 DEF PixelsKept
<1>8. ASSUME NEW f \in rest, Copies(f.kind)
      PROVE  /\ Unwritten(Source(f), Before(f, rest)) => f.result = done[Source(f)]
             /\ \A g \in rest : LastWriter(g, Source(f), Before(f, rest)) => f.result = g.result
  <2> DEFINE c == Source(f)
  <2>1. c \in f.kind.reads /\ c \in 1 .. Len(pixels)
    BY <1>8, SourceAffected
  <2>2. /\ Unwritten(c, Before(f, jobs)) => f.result = pixels[c]
        /\ \A g \in jobs : LastWriter(g, c, Before(f, jobs)) => f.result = g.result
    BY <1>8 DEF ResultsKept
  <2>3. Before(f, rest) = Before(f, jobs) \ {e}
    BY DEF Before
  <2> HIDE DEF c
  <2>4. CASE c \notin e.kind.writes
    <3>1. Unwritten(c, Before(f, rest)) => Unwritten(c, Before(f, jobs))
      BY <2>3, <2>4 DEF Unwritten
    <3>2. \A g \in rest : LastWriter(g, c, Before(f, rest)) => LastWriter(g, c, Before(f, jobs))
      BY <2>3, <2>4 DEF LastWriter
    <3> QED
      BY <2>1, <2>2, <2>4, <3>1, <3>2 DEF c
  <2>5. CASE c \in e.kind.writes
    <3>1. e.id < f.id
      BY <1>2, <1>4, <2>1, <2>5
    <3>2. e \in Before(f, jobs)
      BY <3>1 DEF Before
    <3> HIDE DEF rest
    <3>3. Unwritten(c, Before(f, rest)) => LastWriter(e, c, Before(f, jobs))
      <4>1. Unwritten(c, Before(f, rest)) =>
              \A g \in Before(f, jobs) : c \in g.kind.writes => g = e
        BY <2>3 DEF Unwritten
      <4> QED
        BY <1>1, <2>5, <3>2, <4>1 DEF LastWriter
    <3>4. ASSUME NEW g \in rest, LastWriter(g, c, Before(f, rest))
          PROVE  LastWriter(g, c, Before(f, jobs))
      <4>0. g \in Before(f, jobs) /\ c \in g.kind.writes /\ g \in jobs
        BY <2>3, <3>4 DEF LastWriter, rest
      <4>1. e.id <= g.id
        BY <1>1, <1>2, <1>4, <2>5, <4>0
      <4> QED
        BY <2>3, <3>4, <4>0, <4>1 DEF LastWriter
    <3>5. Unwritten(c, Before(f, rest)) => f.result = e.result /\ done[c] = e.result
      BY <2>1, <2>2, <2>5, <3>3
    <3>6. \A g \in rest : LastWriter(g, c, Before(f, rest)) => f.result = g.result
      BY <2>2, <3>4 DEF rest
    <3> QED
      BY <3>5, <3>6 DEF c
  <2> QED
    BY <2>4, <2>5
<1>9. ResultsKept(rest, done)
  BY <1>8 DEF ResultsKept
<1> QED
  BY <1>7, <1>9

----------------------------------------------------------------------------
(* The queue *)

LEMMA QueuedFacts ==
  ASSUME DecodeTypeOK, InOrder
  PROVE  /\ Queued \subseteq Entry
         /\ \A e, f \in Queued : e.id = f.id => e = f
         /\ \A i \in 1 .. Len(workQueue) : workQueue[i] \in Queued
         /\ \A i, j \in 1 .. Len(workQueue) : workQueue[i].id = workQueue[j].id => i = j
<1>1. /\ Queued \subseteq Entry /\ \A i \in 1 .. Len(workQueue) : workQueue[i] \in Queued
      /\ \A i \in 1 .. Len(workQueue) : workQueue[i].id \in Nat
  <2>1. \A i \in 1 .. Len(workQueue) : workQueue[i] \in Entry
    BY DEF DecodeTypeOK
  <2>2. \A e \in Entry : e.id \in Nat
    BY DEF Entry
  <2> QED
    BY <2>1, <2>2 DEF Queued
<1>2. \A i, j \in 1 .. Len(workQueue) : workQueue[i].id = workQueue[j].id => i = j
  <2> SUFFICES ASSUME NEW i \in 1 .. Len(workQueue), NEW j \in 1 .. Len(workQueue),
                      workQueue[i].id = workQueue[j].id, i # j
               PROVE  FALSE
    OBVIOUS
  <2>1. i < j \/ j < i
    BY DEF DecodeTypeOK
  <2> QED
    BY <1>1, <2>1 DEF InOrder
<1> QED
  BY <1>1, <1>2 DEF Queued

LEMMA EntryFields ==
  ASSUME NEW e \in Entry
  PROVE  /\ e.id \in Nat \ {0} /\ e.kind \in Kinds /\ e.buffer \in Buffers /\ e.active \in BOOLEAN
         /\ e.places \in [Lanes -> Nat] /\ e.result \in Int /\ e # NoEntry
         /\ Job(e) \in JobRecord /\ Job(e).id = e.id /\ Job(e).kind = e.kind
         /\ Job(e).places = e.places /\ Job(e).result = e.result
BY DEF Entry, Job, JobRecord, NoEntry

LEMMA PendingFacts ==
  ASSUME DecodeTypeOK, InOrder
  PROVE  /\ Pending \in SUBSET JobRecord /\ Distinct(Pending)
         /\ \A j \in Pending : \E e \in Queued : ~Done(e) /\ j = Job(e)
         /\ \A e \in Queued : Job(e) \in Pending <=> ~Done(e)
<1>1. Queued \subseteq Entry /\ \A e, f \in Queued : e.id = f.id => e = f
  BY QueuedFacts
<1>2. \A j \in Pending : \E e \in Queued : ~Done(e) /\ j = Job(e)
  BY DEF Pending
<1>3. \A e \in Queued : Job(e) \in JobRecord /\ Job(e).id = e.id
  BY <1>1, EntryFields
<1>4. \A e \in Queued : ~Done(e) => Job(e) \in Pending
  BY DEF Pending
<1>5. ASSUME NEW e \in Queued, Job(e) \in Pending PROVE ~Done(e)
  <2>1. PICK f \in Queued : ~Done(f) /\ Job(e) = Job(f)
    BY <1>2, <1>5
  <2>2. e.id = f.id
    BY <1>3, <2>1
  <2> QED
    BY <1>1, <2>1, <2>2
<1>6. Distinct(Pending)
  BY <1>1, <1>2, <1>3 DEF Distinct
<1>7. Pending \subseteq JobRecord
  BY <1>2, <1>3
<1> QED
  BY <1>2, <1>4, <1>5, <1>6, <1>7

\* The steps of the protocol thread that have nothing to do with decoding.
LEMMA Calm ==
  ASSUME DecodeInv, UNCHANGED <<decodeVars, bound>>,
         {"at", "inUpdate", "retry"} \subseteq DOMAIN main', main'.inUpdate \in BOOLEAN,
         main'.at \in {"idle", "publish", "deliver", "cursor", "closing", "join", "closed"},
         Deleted' <=> Deleted, Ending => Ending',
         main'.at \in {"publish", "deliver", "cursor"} \/ (main'.at = "idle" /\ main'.inUpdate = FALSE)
           => main'.inUpdate = FALSE /\ workQueue = <<>> /\ partialEntry = NoEntry /\ threadException = FALSE
  PROVE  DecodeInv'
<1>1. Queued' = Queued /\ Pending' = Pending
  BY DEF decodeVars, Queued, Pending, Done, Job
<1>2. DecodeTypeOK'
  BY DEF DecodeInv, DecodeTypeOK, decodeVars
<1>3. InOrder' /\ Assigned' /\ Unhindered' /\ DataKept'
  BY <1>1 DEF DecodeInv, InOrder, Assigned, Unhindered, DataKept, decodeVars, Busy
<1>4. PartialKnown'
  BY DEF DecodeInv, PartialKnown, decodeVars
<1>5. Phases'
  BY <1>1 DEF DecodeInv, Phases, decodeVars
<1>6. Healthy' => Sequential'
  BY <1>1 DEF DecodeInv, Healthy, Sequential, ValuesKept, decodeVars
<1> QED
  BY <1>2, <1>3, <1>4, <1>5, <1>6 DEF DecodeInv

\* Threads that are not at work fall asleep, wake, are told to stop or leave.
LEMMA ThreadsMove ==
  ASSUME DecodeInv, UNCHANGED <<main, bound, workQueue, freeBuffers, contents, partialEntry,
                                threadException, stream, fb, ideal, sent>>,
         thread' \in [Threads -> ThreadState],
         \A t \in Threads : Busy(t)' => Busy(t) /\ thread'[t].at = thread[t].at
                                        /\ thread'[t].id = thread[t].id /\ thread'[t].value = thread[t].value,
         \A t \in Threads : Busy(t) => Busy(t)'
  PROVE  DecodeInv'
<1>1. Queued' = Queued
  BY DEF Queued
<1>2. ASSUME NEW e PROVE Done(e)' <=> Done(e)
  BY DEF Done, Busy
<1>3. Pending' = Pending
  BY <1>1, <1>2 DEF Pending
<1>4. DecodeTypeOK'
  BY DEF DecodeInv, DecodeTypeOK
<1>5. InOrder' /\ Unhindered' /\ DataKept' /\ PartialKnown' /\ Phases'
  BY <1>1 DEF DecodeInv, InOrder, Unhindered, DataKept, PartialKnown, Phases, Deleted
<1>6. Assigned'
  BY <1>1 DEF DecodeInv, Assigned
<1>7. Healthy' => Sequential'
  BY <1>1, <1>3 DEF DecodeInv, Healthy, Ending, Sequential, ValuesKept, Busy
<1> QED
  BY <1>4, <1>5, <1>6, <1>7 DEF DecodeInv

----------------------------------------------------------------------------
(* The steps of the decoder threads *)

\* The entry a busy thread works on.
LEMMA PositionFacts ==
  ASSUME DecodeTypeOK, InOrder, Assigned, NEW t \in Threads, Busy(t)
  PROVE  /\ Position(t) \in 1 .. Len(workQueue)
         /\ workQueue[Position(t)] \in Queued
         /\ workQueue[Position(t)].id = thread[t].id /\ workQueue[Position(t)].active = TRUE
<1>1. PICK e \in Queued : e.id = thread[t].id /\ e.active = TRUE
  BY DEF Assigned
<1>2. PICK i \in 1 .. Len(workQueue) : workQueue[i] = e
  BY DEF Queued
<1>3. Position(t) \in 1 .. Len(workQueue) /\ workQueue[Position(t)].id = thread[t].id
  BY <1>1, <1>2 DEF Position
<1>4. Position(t) = i
  BY <1>1, <1>2, <1>3, QueuedFacts
<1> QED
  BY <1>1, <1>2, <1>3, <1>4

LEMMA FindEntryFacts ==
  ASSUME DecodeTypeOK, FindEntry # 0
  PROVE  FindEntry \in 1 .. Len(workQueue) /\ Available(FindEntry)
<1> DEFINE found == {i \in 1 .. Len(workQueue) : Available(i)}
<1>1. found # {} /\ FindEntry = Min(found)
  BY DEF FindEntry
<1>2. found \in SUBSET Nat
  BY DEF DecodeTypeOK
<1> HIDE DEF found
<1>3. FindEntry \in found
  BY <1>1, <1>2, LeastNumber
<1> QED
  BY <1>3 DEF found

\* A thread picks an entry.
LEMMA LookTakes ==
  ASSUME DecodeInv, NEW t \in Threads, Look(t), thread[t].stop = FALSE, FindEntry # 0,
         UNCHANGED <<main, bound>>
  PROVE  DecodeInv'
<1> DEFINE k == FindEntry
           e == workQueue[k]
<1>0. /\ DecodeTypeOK /\ InOrder /\ Assigned /\ Unhindered /\ DataKept /\ PartialKnown /\ Phases
      /\ Healthy => Sequential
  BY DEF DecodeInv
<1>1. k \in 1 .. Len(workQueue) /\ Available(k)
  BY <1>0, FindEntryFacts
<1>2. e \in Queued /\ e \in Entry /\ Queued \subseteq Entry
      /\ \A f, g \in Queued : f.id = g.id => f = g
  BY <1>0, <1>1, QueuedFacts
<1>3. /\ workQueue' = [workQueue EXCEPT ![k].active = TRUE]
      /\ thread' = [thread EXCEPT ![t].at = "decode", ![t].id = e.id, ![t].value = Decoded(e)]
      /\ thread[t].at = "look"
      /\ UNCHANGED <<freeBuffers, contents, partialEntry, threadException, stream, fb, ideal, sent>>
  BY DEF Look
<1>4. /\ workQueue \in Seq(Entry) /\ thread \in [Threads -> ThreadState] /\ Len(workQueue) \in Nat
      /\ \A i \in 1 .. Len(workQueue) : workQueue[i] \in Entry /\ workQueue[i] \in Queued
  BY <1>0, QueuedFacts DEF DecodeTypeOK
<1> DEFINE taken == [e EXCEPT !.active = TRUE]
<1>5. /\ taken \in Entry /\ taken.id = e.id /\ taken.kind = e.kind /\ taken.buffer = e.buffer
      /\ taken.places = e.places /\ taken.result = e.result /\ taken.active = TRUE
      /\ Job(taken) = Job(e)
  BY <1>2 DEF Entry, Job
<1>6. /\ workQueue' \in Seq(Entry) /\ Len(workQueue') = Len(workQueue)
      /\ \A i \in 1 .. Len(workQueue) : workQueue'[i] = IF i = k THEN taken ELSE workQueue[i]
  <2>1. workQueue' = [workQueue EXCEPT ![k] = taken]
    BY <1>3
  <2> HIDE DEF taken, e, k
  <2> QED
    BY <1>1, <1>4, <1>5, <2>1
<1> HIDE DEF taken, e, k
<1>7. Queued' = (Queued \ {e}) \cup {taken}
  <2>1. \A i \in 1 .. Len(workQueue) : workQueue[i] = e <=> i = k
    BY <1>0, <1>1, QueuedFacts DEF e
  <2> QED
    BY <1>1, <1>6, <2>1 DEF Queued, e
<1>8. \A q \in Queued' : \E p \in Queued : /\ q.id = p.id /\ q.kind = p.kind /\ q.buffer = p.buffer
                                           /\ q.places = p.places /\ q.result = p.result /\ Job(q) = Job(p)
                                           /\ q.active = TRUE => p = e \/ p.active = TRUE
  BY <1>2, <1>5, <1>7
<1>9. /\ thread'[t].at = "decode" /\ thread'[t].id = e.id /\ thread'[t].value = Decoded(e)
      /\ \A u \in Threads \ {t} : thread'[u] = thread[u]
  BY <1>3, <1>4 DEF ThreadState
<1>10. e.active = FALSE /\ \A f \in Queued : f.id < e.id => ~Conflict(e.kind, f.kind)
  <2>1. e.active = FALSE
    BY <1>1, <1>2 DEF Available, e, Entry
  <2>2. ASSUME NEW f \in Queued, f.id < e.id PROVE ~Conflict(e.kind, f.kind)
    <3>1. PICK j \in 1 .. Len(workQueue) : workQueue[j] = f
      BY DEF Queued
    <3>2. j < k
      <4>1. j < k \/ j = k \/ k < j
        BY <1>1, <3>1, <1>4
      <4>2. e.id \in Nat /\ f.id \in Nat
        BY <1>2 DEF Entry
      <4> QED
        BY <1>0, <1>1, <2>2, <3>1, <4>1, <4>2 DEF InOrder, e
    <3> QED
      BY <1>1, <1>4, <3>1, <3>2 DEF Available, Conflict, e
  <2> QED
    BY <2>1, <2>2
<1>11. Decoded(e) \in Int /\ (Healthy => Decoded(e) = e.result)
  <2>1. e.kind \in Kinds /\ Lane(e.kind) \subseteq Lanes /\ Job(e) \in JobRecord
        /\ Job(e).id = e.id /\ Job(e).kind = e.kind /\ Job(e).places = e.places
        /\ Job(e).result = e.result
    BY <1>2, EntryFields DEF Lanes
  <2>2. Affected(e.kind) \subseteq 1 .. Len(fb) /\ contents[e.buffer] = e.id
    BY <1>0, <1>2 DEF Phases, DataKept
  <2>3. Len(fb) \in Nat /\ \A c \in 1 .. Len(fb) : fb[c] \in Int
    BY <1>0 DEF DecodeTypeOK
  <2>4. Copies(e.kind) => Source(Job(e)) \in e.kind.reads /\ Source(Job(e)) \in 1 .. Len(fb)
    BY <2>1, <2>2, <2>3, SourceAffected
  <2>5. e.id \in Int
    BY <1>2 DEF Entry
  <2>6. Decoded(e) = IF \E l \in Lane(e.kind) : stream[l] # e.places[l] THEN -1
                     ELSE IF Copies(e.kind) THEN fb[Source(Job(e))] ELSE e.id
    BY <2>1, <2>2 DEF Decoded, Source, Garbage
  <2>7. Decoded(e) \in Int
    BY <2>3, <2>4, <2>5, <2>6
  <2>8. ASSUME Healthy PROVE Decoded(e) = e.result
    <3>1. Job(e) \in Pending /\ Pending \in SUBSET JobRecord /\ Distinct(Pending)
      <4>1. ~Done(e)
        BY <1>0, <1>2, <1>10 DEF Done, Assigned, Busy
      <4> QED
        BY <1>0, <1>2, <4>1, PendingFacts
    <3>2. \A f \in Pending : f.id < e.id => ~Conflict(e.kind, f.kind)
      BY <1>0, <1>2, <1>10, EntryFields, PendingFacts
    <3>3. ASSUME NEW l \in Lane(e.kind) PROVE stream[l] = e.places[l]
      <4>1. \A f \in Pending : f.id < Job(e).id => l \notin Lane(f.kind)
        BY <2>1, <3>2 DEF Conflict
      <4>2. stream \in [Lanes -> Nat] /\ sent \in [Lanes -> Nat] /\ StreamsKept(Pending, stream, sent)
        BY <1>0, <2>8 DEF DecodeTypeOK, Sequential
      <4>3. stream[l] = Job(e).places[l]
        BY <2>1, <3>1, <4>1, <4>2, TurnReached
      <4> QED
        BY <2>1, <4>3
    <3>4. Unwritten(Source(Job(e)), Before(Job(e), Pending)) \/ ~Copies(e.kind)
      BY <2>1, <2>4, <3>2 DEF Unwritten, Before, Conflict, Affected
    <3>5. ResultsKept(Pending, fb)
      BY <1>0, <2>8 DEF Sequential
    <3>6. IF Copies(e.kind) THEN e.result = fb[Source(Job(e))] ELSE e.result = e.id
      BY <2>1, <3>1, <3>4, <3>5 DEF ResultsKept
    <3> QED
      BY <2>6, <3>3, <3>6
  <2> QED
    BY <2>7, <2>8
<1>12. thread' \in [Threads -> ThreadState]
  <2>1. [thread[t] EXCEPT !.at = "decode", !.id = e.id, !.value = Decoded(e)] \in ThreadState
    <3>1. thread[t] \in ThreadState /\ e.id \in Nat /\ Decoded(e) \in Int
      BY <1>2, <1>4, <1>11, EntryFields
    <3> QED
      BY <3>1 DEF ThreadState
  <2> QED
    BY <1>3, <1>4, <2>1
<1>13. DecodeTypeOK'
  BY <1>0, <1>3, <1>6, <1>12 DEF DecodeTypeOK
<1>14. InOrder'
  <2>1. \A i \in 1 .. Len(workQueue) : workQueue'[i].id = workQueue[i].id
    BY <1>5, <1>6 DEF e
  <2> QED
    <3>1. \A i, j \in 1 .. Len(workQueue') : i < j => workQueue'[i].id < workQueue'[j].id
      BY <1>0, <1>6, <2>1 DEF InOrder
    <3>2. \A q \in Queued' : q.id <= bound'.rects
      BY <1>0, <1>8 DEF InOrder
    <3>3. partialEntry' # NoEntry => /\ partialEntry'.id <= bound'.rects
                                     /\ \A q \in Queued' : q.id < partialEntry'.id
      BY <1>0, <1>3, <1>8 DEF InOrder
    <3> QED
      BY <3>1, <3>2, <3>3 DEF InOrder
<1>15. \A u \in Threads : Busy(u) => thread[u].id # e.id
  BY <1>0, <1>2, <1>10 DEF Assigned
<1>16. Assigned'
  <2>1. ASSUME NEW u \in Threads, Busy(u)' PROVE \E q \in Queued' : q.id = thread'[u].id /\ q.active = TRUE
    <3>1. CASE u = t
      BY <1>5, <1>7, <1>9, <3>1
    <3>2. CASE u # t
      <4>1. PICK p \in Queued : p.id = thread[u].id /\ p.active = TRUE
        BY <1>0, <1>9, <2>1, <3>2 DEF Assigned, Busy
      <4> QED
        BY <1>7, <1>9, <1>10, <3>2, <4>1
    <3> QED
      BY <3>1, <3>2
  <2>2. ASSUME NEW u \in Threads, NEW w \in Threads, Busy(u)', Busy(w)', thread'[u].id = thread'[w].id
        PROVE  u = w
    BY <1>0, <1>9, <1>15, <2>2 DEF Assigned, Busy
  <2> QED
    BY <2>1, <2>2 DEF Assigned
<1>17. Unhindered'
  <2> SUFFICES ASSUME NEW q \in Queued', NEW r \in Queued', q.active = TRUE, r.id < q.id
               PROVE  ~Conflict(q.kind, r.kind)
    BY DEF Unhindered
  <2>1. PICK p \in Queued : q.id = p.id /\ q.kind = p.kind /\ (p = e \/ p.active = TRUE)
    BY <1>8
  <2>2. PICK o \in Queued : r.id = o.id /\ r.kind = o.kind
    BY <1>8
  <2> QED
    BY <1>0, <1>10, <2>1, <2>2 DEF Unhindered
<1>18. DataKept'
  <2>1. \A q \in Queued' : /\ contents[q.buffer] = q.id
                           /\ \A i \in 1 .. Len(freeBuffers) : freeBuffers[i] # q.buffer
    BY <1>0, <1>8 DEF DataKept
  <2> QED
    BY <1>0, <1>3, <2>1 DEF DataKept
<1>19. PartialKnown' /\ Phases'
  <2>1. PartialKnown'
    BY <1>0, <1>3 DEF PartialKnown, Deleted
  <2>2. \A q \in Queued' : Affected(q.kind) \subseteq 1 .. Len(fb)
    BY <1>0, <1>8 DEF Phases
  <2>3. workQueue # <<>>
    BY <1>1
  <2> QED
    BY <1>0, <1>3, <2>1, <2>2, <2>3 DEF Phases, Deleted
<1>20. Healthy' => Sequential'
  <2> SUFFICES ASSUME Healthy' PROVE Sequential'
    OBVIOUS
  <2>1. Healthy /\ Sequential
    BY <1>0, <1>3 DEF Healthy, Ending
  <2>2. ASSUME NEW q PROVE (\E u \in Threads : thread'[u].at = "return" /\ thread'[u].id = q.id) <=> Done(q)
    <3>1. \A u \in Threads : thread'[u].at = "return" <=> thread[u].at = "return"
      BY <1>3, <1>9
    <3>2. \A u \in Threads : thread[u].at = "return" => thread'[u].id = thread[u].id
      BY <1>3, <1>9
    <3> QED
      BY <3>1, <3>2 DEF Done
  <2>3. Pending' = Pending
    <3>1. Done(taken) <=> Done(e)
      BY <1>5 DEF Done
    <3>2. Pending' = {Job(q) : q \in {p \in Queued' : ~Done(p)}}
      BY <2>2 DEF Pending, Done
    <3> QED
      BY <1>2, <1>5, <1>7, <3>1, <3>2 DEF Pending
  <2>4. ValuesKept'
    <3> SUFFICES ASSUME NEW u \in Threads, NEW q \in Queued', thread'[u].at = "decode", q.id = thread'[u].id
                 PROVE  thread'[u].value = q.result
      BY DEF ValuesKept
    <3>1. PICK p \in Queued : q.id = p.id /\ q.result = p.result
      BY <1>8
    <3>2. CASE u = t
      <4>1. p = e
        BY <1>2, <1>9, <3>1, <3>2
      <4> QED
        BY <1>9, <1>11, <2>1, <3>1, <3>2, <4>1
    <3>3. CASE u # t
      BY <1>9, <2>1, <3>1, <3>3 DEF Sequential, ValuesKept
    <3> QED
      BY <3>2, <3>3
  <2> QED
    BY <1>3, <2>1, <2>3, <2>4 DEF Sequential
<1> QED
  BY <1>13, <1>14, <1>16, <1>17, <1>18, <1>19, <1>20 DEF DecodeInv

LEMMA LookKeeps ==
  ASSUME DecodeInv, NEW t \in Threads, Look(t), UNCHANGED <<main, bound>>
  PROVE  DecodeInv'
<1>1. thread \in [Threads -> ThreadState] /\ thread[t].stop \in BOOLEAN /\ thread[t] \in ThreadState
  BY DEF DecodeInv, DecodeTypeOK, ThreadState
<1>2. CASE thread[t].stop = FALSE /\ FindEntry # 0
  BY <1>2, LookTakes
<1>3. ASSUME NEW at \in {"exited", "asleep"}, thread' = [thread EXCEPT ![t].at = at],
             UNCHANGED <<workQueue, freeBuffers, contents, partialEntry, threadException, stream, fb, ideal, sent>>
      PROVE  DecodeInv'
  <2>1. thread' \in [Threads -> ThreadState]
    <3>1. [thread[t] EXCEPT !.at = at] \in ThreadState
      BY <1>1, <1>3 DEF ThreadState
    <3> QED
      BY <1>1, <1>3, <3>1
  <2>2. thread'[t].at = at /\ thread[t].at = "look" /\ \A u \in Threads \ {t} : thread'[u] = thread[u]
    BY <1>1, <1>3 DEF Look, ThreadState
  <2>3. /\ \A u \in Threads : Busy(u)' => Busy(u) /\ thread'[u].at = thread[u].at
                                /\ thread'[u].id = thread[u].id /\ thread'[u].value = thread[u].value
        /\ \A u \in Threads : Busy(u) => Busy(u)'
    BY <1>3, <2>2 DEF Busy
  <2> QED
    BY <1>3, <2>1, <2>3, ThreadsMove
<1>4. CASE thread[t].stop # FALSE
  BY <1>1, <1>3, <1>4 DEF Look
<1>5. CASE thread[t].stop = FALSE /\ FindEntry = 0
  BY <1>1, <1>3, <1>5 DEF Look
<1> QED
  BY <1>2, <1>4, <1>5

LEMMA ThreadWith ==
  ASSUME NEW s \in ThreadState, NEW n \in Int,
         NEW at \in {"look", "asleep", "decode", "return", "exited"}
  PROVE  /\ [s EXCEPT !.at = at, !.value = n] \in ThreadState
         /\ [s EXCEPT !.at = at, !.value = n].at = at /\ [s EXCEPT !.at = at, !.value = n].id = s.id
BY DEF ThreadState

\* What a thread's return to its loop, done or failed, does to the threads.
LEMMA Returning ==
  ASSUME DecodeInv, NEW t \in Threads, thread[t].at = "decode",
         thread' = [thread EXCEPT ![t].at = "return", ![t].value = 0], UNCHANGED workQueue
  PROVE  /\ thread' \in [Threads -> ThreadState] /\ Assigned'
         /\ thread'[t].at = "return" /\ thread'[t].id = thread[t].id
         /\ \A u \in Threads \ {t} : thread'[u] = thread[u]
<1>1. thread \in [Threads -> ThreadState] /\ thread[t] \in ThreadState
  BY DEF DecodeInv, DecodeTypeOK
<1>0. 0 \in Int /\ "return" \in {"look", "asleep", "decode", "return", "exited"}
  OBVIOUS
<1>2. [thread[t] EXCEPT !.at = "return", !.value = 0] \in ThreadState
  BY <1>0, <1>1, ThreadWith, Zenon
<1>3. /\ thread' \in [Threads -> ThreadState]
      /\ thread'[t].at = "return" /\ thread'[t].id = thread[t].id
      /\ \A u \in Threads \ {t} : thread'[u] = thread[u]
  <2>1. thread' = [thread EXCEPT ![t] = [thread[t] EXCEPT !.at = "return", !.value = 0]]
    BY <1>1
  <2>2. [thread[t] EXCEPT !.at = "return", !.value = 0].id = thread[t].id
        /\ [thread[t] EXCEPT !.at = "return", !.value = 0].at = "return"
    BY <1>0, <1>1, ThreadWith, Zenon
  <2> QED
    BY <1>1, <1>2, <2>1, <2>2
<1>4. \A u \in Threads : (Busy(u)' <=> Busy(u)) /\ thread'[u].id = thread[u].id
  BY <1>3 DEF Busy
<1>5. Queued' = Queued
  BY DEF Queued
<1> QED
  BY <1>3, <1>4, <1>5 DEF DecodeInv, Assigned

LEMMA DecodeKeeps ==
  ASSUME DecodeInv, NEW t \in Threads, Decode(t), UNCHANGED <<main, bound>>
  PROVE  DecodeInv'
<1> DEFINE e == workQueue[Position(t)]
<1>0. /\ DecodeTypeOK /\ InOrder /\ Assigned /\ Unhindered /\ DataKept /\ PartialKnown /\ Phases
      /\ Healthy => Sequential
  BY DEF DecodeInv
<1>1. /\ thread[t].at = "decode" /\ thread' = [thread EXCEPT ![t].at = "return", ![t].value = 0]
      /\ fb' = [c \in DOMAIN fb |-> IF c \in e.kind.writes THEN thread[t].value ELSE fb[c]]
      /\ stream' = [l \in Lanes |-> IF l \in Lane(e.kind) THEN stream[l] + 1 ELSE stream[l]]
      /\ UNCHANGED <<workQueue, freeBuffers, contents, partialEntry, threadException, ideal, sent>>
  BY DEF Decode
<1>2. e \in Queued /\ e \in Entry /\ e.id = thread[t].id /\ e.active = TRUE
  BY <1>0, <1>1, PositionFacts, QueuedFacts DEF Busy
<1> HIDE DEF e
<1>3. Queued' = Queued /\ Queued \subseteq Entry /\ \A f, g \in Queued : f.id = g.id => f = g
  BY <1>0, <1>1, QueuedFacts DEF Queued
<1>4. /\ thread' \in [Threads -> ThreadState] /\ Assigned'
      /\ thread'[t].at = "return" /\ thread'[t].id = thread[t].id
      /\ \A u \in Threads \ {t} : thread'[u] = thread[u]
  BY <1>1, Returning
<1>5. /\ fb' \in Seq(Int) /\ Len(fb') = Len(fb) /\ Len(fb) \in Nat
      /\ \A c \in 1 .. Len(fb) : fb'[c] = IF c \in e.kind.writes THEN thread[t].value ELSE fb[c]
  <2>1. fb \in Seq(Int) /\ DOMAIN fb = 1 .. Len(fb) /\ Len(fb) \in Nat /\ thread[t].value \in Int
    BY <1>0 DEF DecodeTypeOK, ThreadState
  <2> QED
    BY <1>1, <2>1
<1>6. stream \in [Lanes -> Nat] /\ stream' \in [Lanes -> Nat]
  BY <1>0, <1>1 DEF DecodeTypeOK
<1>7. DecodeTypeOK'
  BY <1>0, <1>1, <1>4, <1>5, <1>6 DEF DecodeTypeOK
<1>8. InOrder' /\ Unhindered' /\ DataKept'
  BY <1>0, <1>1, <1>3 DEF InOrder, Unhindered, DataKept
<1>9. PartialKnown'
  BY <1>0, <1>1, <1>5 DEF PartialKnown, Deleted
<1>10. workQueue # <<>>
  BY <1>2 DEF Queued
<1>11. Phases'
  <2>1. fb # <<>> => fb' # <<>>
    BY <1>5, EmptySeq
  <2> QED
    BY <1>0, <1>1, <1>3, <1>5, <1>10, <2>1 DEF Phases, Deleted
<1>12. ASSUME Healthy' PROVE Sequential'
  <2>1. Healthy /\ Sequential
    BY <1>0, <1>1, <1>12 DEF Healthy, Ending
  <2>2. thread[t].value = e.result
    BY <1>1, <1>2, <2>1 DEF Sequential, ValuesKept
  <2>3. ~Done(e) /\ Job(e) \in Pending /\ Pending \in SUBSET JobRecord /\ Distinct(Pending)
    <3>1. ~Done(e)
      BY <1>0, <1>1, <1>2 DEF Done, Assigned, Busy
    <3> QED
      BY <1>0, <1>2, <3>1, PendingFacts
  <2>4. ASSUME NEW f \in Queued PROVE Done(f)' <=> Done(f) \/ f = e
    <3>1. \A u \in Threads : (thread'[u].at = "return" /\ thread'[u].id = f.id)
                               <=> (thread[u].at = "return" /\ thread[u].id = f.id) \/ (u = t /\ f.id = e.id)
      BY <1>1, <1>2, <1>4
    <3>2. Done(f)' <=> Done(f) \/ f.id = e.id
      BY <3>1 DEF Done
    <3> QED
      BY <1>2, <1>3, <3>2
  <2>5. Pending' = Pending \ {Job(e)}
    <3>1. \A f \in Queued : Job(f) = Job(e) => f = e
      BY <1>2, <1>3, EntryFields
    <3> QED
      BY <1>3, <2>4, <3>1 DEF Pending
  <2>6. Job(e).kind = e.kind /\ Job(e).id = e.id /\ Job(e).result = e.result
    BY <1>2, EntryFields
  <2>7. \A f \in Pending : /\ Affected(f.kind) \subseteq 1 .. Len(fb)
                           /\ f.id < e.id => ~Conflict(e.kind, f.kind)
    <3>1. ASSUME NEW f \in Pending PROVE \E q \in Queued : f.kind = q.kind /\ f.id = q.id
      BY <1>0, <1>3, EntryFields, PendingFacts
    <3> QED
      BY <1>0, <1>2, <3>1 DEF Phases, Unhindered
  <2>8. StreamsKept(Pending', stream', sent')
    <3>1. stream' = [l \in Lanes |-> IF l \in Lane(Job(e).kind) THEN stream[l] + 1 ELSE stream[l]]
      BY <1>1, <2>6
    <3>2. \A f \in Pending : f.id < Job(e).id => Lane(Job(e).kind) \cap Lane(f.kind) = {}
      BY <2>6, <2>7 DEF Conflict
    <3>3. sent \in [Lanes -> Nat] /\ sent' = sent /\ StreamsKept(Pending, stream, sent)
      BY <1>0, <1>1, <2>1 DEF DecodeTypeOK, Sequential
    <3> QED
      BY <1>6, <2>3, <2>5, <3>1, <3>2, <3>3, DecodeStreams
  <2>9. PixelsKept(Pending', fb', ideal') /\ ResultsKept(Pending', fb')
    <3>1. \A c \in 1 .. Len(fb) : fb'[c] = IF c \in Job(e).kind.writes THEN Job(e).result ELSE fb[c]
      BY <1>5, <2>2, <2>6
    <3>2. \A f \in Pending : f.id < Job(e).id => Affected(Job(e).kind) \cap Affected(f.kind) = {}
      BY <2>6, <2>7 DEF Conflict
    <3>3. /\ fb \in Seq(Int) /\ ideal \in Seq(Int) /\ Len(ideal) = Len(fb) /\ ideal' = ideal
          /\ PixelsKept(Pending, fb, ideal) /\ ResultsKept(Pending, fb)
      BY <1>0, <1>1, <2>1 DEF DecodeTypeOK, Sequential
    <3> QED
      BY <1>5, <2>3, <2>5, <2>7, <3>1, <3>2, <3>3, DecodePixels
  <2>10. ValuesKept'
    BY <1>3, <1>4, <2>1 DEF Sequential, ValuesKept
  <2> QED
    BY <2>8, <2>9, <2>10 DEF Sequential
<1> QED
  BY <1>4, <1>7, <1>8, <1>9, <1>11, <1>12 DEF DecodeInv

LEMMA FailureKeeps ==
  ASSUME DecodeInv, NEW t \in Threads, DecodeFails(t), UNCHANGED <<main, bound>>
  PROVE  DecodeInv'
<1>0. /\ DecodeTypeOK /\ InOrder /\ Assigned /\ Unhindered /\ DataKept /\ PartialKnown /\ Phases
  BY DEF DecodeInv
<1>1. /\ thread[t].at = "decode" /\ thread' = [thread EXCEPT ![t].at = "return", ![t].value = 0]
      /\ threadException' = TRUE
      /\ UNCHANGED <<workQueue, freeBuffers, contents, partialEntry, stream, fb, ideal, sent>>
  BY DEF DecodeFails
<1>2. workQueue # <<>>
  BY <1>0, <1>1 DEF Assigned, Busy, Queued
<1>3. Queued' = Queued
  BY <1>1 DEF Queued
<1>4. thread' \in [Threads -> ThreadState] /\ Assigned'
  BY <1>1, Returning
<1>5. DecodeTypeOK'
  BY <1>0, <1>1, <1>4 DEF DecodeTypeOK
<1>6. InOrder' /\ Unhindered' /\ DataKept' /\ PartialKnown'
  BY <1>0, <1>1, <1>3 DEF InOrder, Unhindered, DataKept, PartialKnown, Deleted
<1>7. Phases'
  BY <1>0, <1>1, <1>2, <1>3 DEF Phases, Deleted
<1>8. ~Healthy'
  BY <1>1 DEF Healthy
<1> QED
  BY <1>4, <1>5, <1>6, <1>7, <1>8 DEF DecodeInv

LEMMA Awake ==
  ASSUME NEW s \in ThreadState, NEW r, r = [s EXCEPT !.at = "look"]
  PROVE  r \in ThreadState /\ r.at = "look"
BY DEF ThreadState

LEMMA AwakeAgain ==
  ASSUME NEW s \in ThreadState, NEW n \in Nat, NEW r, r = [s EXCEPT !.at = "look", !.id = n]
  PROVE  r \in ThreadState /\ r.at = "look"
BY DEF ThreadState

LEMMA ReturnKeeps ==
  ASSUME DecodeInv, NEW t \in Threads, Return(t), UNCHANGED <<main, bound>>
  PROVE  DecodeInv'
<1> DEFINE k == Position(t)
           e == workQueue[k]
<1>0. /\ DecodeTypeOK /\ InOrder /\ Assigned /\ Unhindered /\ DataKept /\ PartialKnown /\ Phases
      /\ Healthy => Sequential
  BY DEF DecodeInv
<1>1. /\ thread[t].at = "return"
      /\ freeBuffers' = Append(freeBuffers, e.buffer) /\ workQueue' = RemoveAt(workQueue, k)
      /\ thread' = [u \in Threads |->
           IF u = t THEN [thread[t] EXCEPT !.at = "look", !.id = 0]
           ELSE IF WakesAll /\ thread[u].at = "asleep" THEN [thread[u] EXCEPT !.at = "look"] ELSE thread[u]]
      /\ UNCHANGED <<contents, partialEntry, threadException, stream, fb, ideal, sent>>
  BY DEF Return
<1>2. /\ k \in 1 .. Len(workQueue) /\ e \in Queued /\ e \in Entry /\ e.id = thread[t].id /\ e.active = TRUE
      /\ Queued \subseteq Entry /\ \A f, g \in Queued : f.id = g.id => f = g
      /\ \A i, j \in 1 .. Len(workQueue) : workQueue[i].id = workQueue[j].id => i = j
  BY <1>0, <1>1, PositionFacts, QueuedFacts DEF Busy
<1>3. /\ workQueue \in Seq(Entry) /\ Len(workQueue) \in Nat /\ freeBuffers \in Seq(Buffers)
      /\ thread \in [Threads -> ThreadState] /\ \A u \in Threads : thread[u] \in ThreadState
  BY <1>0 DEF DecodeTypeOK
<1> HIDE DEF k
<1>4. /\ workQueue' \in Seq(Entry) /\ Len(workQueue') = Len(workQueue) - 1
      /\ \A i \in 1 .. Len(workQueue) - 1 :
           workQueue'[i] = IF i < k THEN workQueue[i] ELSE workQueue[i + 1]
  BY <1>1, <1>2, <1>3, Removed
<1>5. Queued' = Queued \ {e}
  <2>1. \A i \in 1 .. Len(workQueue) : workQueue[i] = e <=> i = k
    BY <1>2
  <2>2. ASSUME NEW q \in Queued' PROVE q \in Queued \ {e}
    <3>1. PICK i \in 1 .. Len(workQueue) - 1 : q = workQueue'[i]
      BY <1>3, <1>4 DEF Queued
    <3>2. PICK j \in 1 .. Len(workQueue) : j # k /\ q = workQueue[j]
      BY <1>2, <1>3, <1>4, <3>1
    <3> QED
      BY <2>1, <3>2 DEF Queued
  <2>3. ASSUME NEW q \in Queued \ {e} PROVE q \in Queued'
    <3>1. PICK j \in 1 .. Len(workQueue) : j # k /\ q = workQueue[j]
      BY <2>1 DEF Queued
    <3>2. PICK i \in 1 .. Len(workQueue) - 1 : q = workQueue'[i]
      <4>1. CASE j < k
        BY <1>2, <1>3, <1>4, <3>1, <4>1
      <4>2. CASE k < j
        <5>1. j - 1 \in 1 .. Len(workQueue) - 1 /\ ~(j - 1 < k) /\ (j - 1) + 1 = j
          BY <1>2, <1>3, <4>2
        <5> QED
          BY <1>4, <3>1, <5>1
      <4> QED
        BY <1>2, <1>3, <3>1, <4>1, <4>2
    <3> QED
      BY <1>3, <1>4, <3>2 DEF Queued
  <2> QED
    BY <2>2, <2>3
<1>6. thread'[t] = [thread[t] EXCEPT !.at = "look", !.id = 0]
      /\ \A u \in Threads \ {t} : thread'[u] = thread[u]
                                  \/ (thread[u].at = "asleep" /\ thread'[u] = [thread[u] EXCEPT !.at = "look"])
  BY <1>1
<1>7. /\ thread' \in [Threads -> ThreadState] /\ thread'[t].at = "look"
      /\ \A u \in Threads \ {t} : thread'[u] = thread[u] \/ (thread[u].at = "asleep" /\ thread'[u].at = "look")
  <2>1. 0 \in Nat
    OBVIOUS
  <2>2. thread'[t] \in ThreadState /\ thread'[t].at = "look"
    <3>1. thread[t] \in ThreadState
      BY <1>3
    <3>2. thread'[t] = [thread[t] EXCEPT !.at = "look", !.id = 0]
      BY <1>6
    <3> QED
      BY ONLY <2>1, <3>1, <3>2, AwakeAgain
  <2>3. \A u \in Threads \ {t} :
          thread'[u] \in ThreadState /\ (thread'[u] = thread[u] \/ (thread[u].at = "asleep" /\ thread'[u].at = "look"))
    <3> SUFFICES ASSUME NEW u \in Threads \ {t}
                 PROVE  thread'[u] \in ThreadState /\ (thread'[u] = thread[u] \/ (thread[u].at = "asleep" /\ thread'[u].at = "look"))
      OBVIOUS
    <3>1. CASE thread'[u] = thread[u]
      BY <1>3, <3>1
    <3>2. CASE thread[u].at = "asleep" /\ thread'[u] = [thread[u] EXCEPT !.at = "look"]
      BY <1>3, <3>2, Awake
    <3> QED
      BY <1>6, <3>1, <3>2
  <2>4. thread' = [u \in Threads |-> thread'[u]]
    BY <1>1
  <2> QED
    BY <2>2, <2>3, <2>4
<1>8. \A u \in Threads : Busy(u)' <=> Busy(u) /\ u # t
  BY <1>7 DEF Busy
<1>9. \A u \in Threads \ {t} : Busy(u) => thread'[u] = thread[u]
  BY <1>7 DEF Busy
<1>10. e.buffer \in Buffers /\ e.id \in Nat
  BY <1>2, EntryFields
<1> HIDE DEF e
<1>11. /\ freeBuffers' \in Seq(Buffers) /\ Len(freeBuffers') = Len(freeBuffers) + 1
       /\ Len(freeBuffers) \in Nat
       /\ \A i \in 1 .. Len(freeBuffers) : freeBuffers'[i] = freeBuffers[i]
       /\ freeBuffers'[Len(freeBuffers) + 1] = e.buffer
  BY <1>1, <1>3, <1>10
<1>12. DecodeTypeOK'
  BY <1>0, <1>1, <1>4, <1>7, <1>11 DEF DecodeTypeOK
<1>13. InOrder'
  <2>1. ASSUME NEW i \in 1 .. Len(workQueue) - 1, NEW j \in 1 .. Len(workQueue) - 1, i < j
        PROVE  workQueue'[i].id < workQueue'[j].id
    <3>1. PICK m \in 1 .. Len(workQueue), n \in 1 .. Len(workQueue) :
                 m < n /\ workQueue'[i] = workQueue[m] /\ workQueue'[j] = workQueue[n]
      <4>1. CASE i < k /\ j < k
        <5>1. i \in 1 .. Len(workQueue) /\ j \in 1 .. Len(workQueue)
          BY <1>3, <2>1
        <5>2. workQueue'[i] = workQueue[i] /\ workQueue'[j] = workQueue[j]
          BY <1>4, <2>1, <4>1
        <5> QED
          BY <2>1, <5>1, <5>2
      <4>2. CASE i < k /\ ~(j < k)
        <5>1. i \in 1 .. Len(workQueue) /\ j + 1 \in 1 .. Len(workQueue) /\ i < j + 1
          BY <1>3, <2>1
        <5> QED
          BY <1>4, <4>2, <5>1
      <4>3. CASE ~(i < k) /\ ~(j < k)
        <5>1. i + 1 \in 1 .. Len(workQueue) /\ j + 1 \in 1 .. Len(workQueue) /\ i + 1 < j + 1
          BY <1>3, <2>1
        <5> QED
          BY <1>4, <4>3, <5>1
      <4> QED
        BY <1>2, <1>3, <2>1, <4>1, <4>2, <4>3
    <3> QED
      BY <1>0, <3>1 DEF InOrder
  <2> QED
    BY <1>0, <1>1, <1>4, <1>5, <2>1 DEF InOrder
<1>14. Assigned'
  <2>1. ASSUME NEW u \in Threads, Busy(u)' PROVE \E q \in Queued' : q.id = thread'[u].id /\ q.active = TRUE
    <3>1. u # t /\ Busy(u) /\ thread'[u] = thread[u]
      BY <1>8, <1>9, <2>1
    <3>2. PICK q \in Queued : q.id = thread[u].id /\ q.active = TRUE
      BY <1>0, <3>1 DEF Assigned
    <3>3. q # e
      BY <1>0, <1>1, <1>2, <3>1, <3>2 DEF Assigned, Busy
    <3> QED
      BY <1>5, <3>1, <3>2, <3>3
  <2>2. ASSUME NEW u \in Threads, NEW w \in Threads, Busy(u)', Busy(w)', thread'[u].id = thread'[w].id
        PROVE  u = w
    BY <1>0, <1>8, <1>9, <2>2 DEF Assigned
  <2> QED
    BY <2>1, <2>2 DEF Assigned
<1>15. Unhindered'
  BY <1>0, <1>5 DEF Unhindered
<1>16. DataKept'
  <2>1. \A q \in Queued' : q.buffer # e.buffer /\ contents[q.buffer] = q.id
    BY <1>0, <1>2, <1>5 DEF DataKept
  <2>2. ASSUME NEW q \in Queued', NEW i \in 1 .. Len(freeBuffers') PROVE freeBuffers'[i] # q.buffer
    <3>1. i \in 1 .. Len(freeBuffers) \/ i = Len(freeBuffers) + 1
      BY <1>11
    <3> QED
      BY <1>0, <1>5, <1>11, <2>1, <3>1 DEF DataKept
  <2>3. ASSUME NEW i \in 1 .. Len(freeBuffers'), NEW j \in 1 .. Len(freeBuffers'), i # j
        PROVE  freeBuffers'[i] # freeBuffers'[j]
    <3>1. \A n \in 1 .. Len(freeBuffers') : n \in 1 .. Len(freeBuffers) \/ n = Len(freeBuffers) + 1
      BY <1>11
    <3>2. \A n \in 1 .. Len(freeBuffers) : freeBuffers[n] # e.buffer
      BY <1>0, <1>2 DEF DataKept
    <3> QED
      BY <1>0, <1>11, <2>3, <3>1, <3>2 DEF DataKept
  <2>4. partialEntry # NoEntry => freeBuffers' # <<>> /\ partialEntry.buffer = freeBuffers'[1]
    <3>1. freeBuffers # <<>> => 1 \in 1 .. Len(freeBuffers)
      BY <1>3, EmptySeq
    <3>2. freeBuffers' # <<>>
      BY <1>11
    <3> QED
      BY <1>0, <1>11, <3>1, <3>2 DEF DataKept
  <2> QED
    BY <1>1, <2>1, <2>2, <2>3, <2>4 DEF DataKept
<1>17. PartialKnown' /\ Phases'
  <2>1. workQueue # <<>>
    BY <1>2, <1>3
  <2> QED
    BY <1>0, <1>1, <1>5, <2>1 DEF PartialKnown, Phases, Deleted
<1>18. ASSUME Healthy' PROVE Sequential'
  <2>1. Healthy /\ Sequential
    BY <1>0, <1>1, <1>18 DEF Healthy, Ending
  <2>2. ASSUME NEW f \in Queued' PROVE Done(f)' <=> Done(f)
    <3>1. f \in Queued /\ f.id # thread[t].id
      BY <1>2, <1>5
    <3>2. \A u \in Threads : (thread'[u].at = "return" /\ thread'[u].id = f.id)
                               <=> (thread[u].at = "return" /\ thread[u].id = f.id)
      BY <1>1, <1>7, <3>1
    <3> QED
      BY <3>2 DEF Done
  <2>3. Done(e)
    BY <1>1, <1>2 DEF Done
  <2>4. Pending' = Pending
    BY <1>5, <2>2, <2>3 DEF Pending
  <2>5. ValuesKept'
    BY <1>5, <1>7, <2>1 DEF Sequential, ValuesKept
  <2> QED
    BY <1>1, <2>1, <2>4, <2>5 DEF Sequential
<1> QED
  BY <1>12, <1>13, <1>14, <1>15, <1>16, <1>17, <1>18 DEF DecodeInv

LEMMA WakeKeeps ==
  ASSUME DecodeInv, NEW t \in Threads, WakeSpuriously(t), UNCHANGED <<main, bound>>
  PROVE  DecodeInv'
<1>1. thread \in [Threads -> ThreadState]
  BY DEF DecodeInv, DecodeTypeOK
<1>2. /\ thread' = [u \in Threads |-> IF u \in {t} /\ thread[u].at = "asleep"
                                      THEN [thread[u] EXCEPT !.at = "look"] ELSE thread[u]]
      /\ UNCHANGED <<workQueue, freeBuffers, contents, partialEntry, threadException, stream, fb, ideal, sent>>
  BY DEF WakeSpuriously, Wake
<1>3. ASSUME NEW u \in Threads
      PROVE  thread'[u] \in ThreadState
             /\ (thread'[u] = thread[u] \/ (thread[u].at = "asleep" /\ thread'[u].at = "look"))
  BY <1>1, <1>2, Awake
<1>4. thread' \in [Threads -> ThreadState]
  BY <1>2, <1>3
<1>5. /\ \A u \in Threads : Busy(u)' => Busy(u) /\ thread'[u].at = thread[u].at
                              /\ thread'[u].id = thread[u].id /\ thread'[u].value = thread[u].value
      /\ \A u \in Threads : Busy(u) => Busy(u)'
  BY <1>3 DEF Busy
<1> QED
  BY <1>2, <1>4, <1>5, ThreadsMove

LEMMA StopKeeps ==
  ASSUME DecodeInv, StopThread, UNCHANGED <<main, bound>>
  PROVE  DecodeInv'
<1>1. thread \in [Threads -> ThreadState]
  BY DEF DecodeInv, DecodeTypeOK
<1>2. PICK t : thread' = [u \in Threads |->
                 [thread[u] EXCEPT !.stop = (u = t) \/ @, !.at = IF @ = "asleep" THEN "look" ELSE @]]
  BY DEF StopThread
<1>3. UNCHANGED <<workQueue, freeBuffers, contents, partialEntry, threadException, stream, fb, ideal, sent>>
  BY DEF StopThread
<1>4. ASSUME NEW u \in Threads
      PROVE  /\ thread'[u] \in ThreadState /\ thread'[u].id = thread[u].id /\ thread'[u].value = thread[u].value
             /\ thread'[u].at = IF thread[u].at = "asleep" THEN "look" ELSE thread[u].at
  <2>1. thread'[u] = [thread[u] EXCEPT !.stop = (u = t) \/ thread[u].stop,
                                       !.at = IF thread[u].at = "asleep" THEN "look" ELSE thread[u].at]
    BY <1>2
  <2>2. thread[u] \in ThreadState
    BY <1>1
  <2>3. ASSUME NEW r \in BOOLEAN, NEW s \in ThreadState, NEW n,
               n = [s EXCEPT !.stop = r, !.at = IF s.at = "asleep" THEN "look" ELSE s.at]
        PROVE  /\ n \in ThreadState /\ n.id = s.id /\ n.value = s.value
               /\ n.at = IF s.at = "asleep" THEN "look" ELSE s.at
    BY <2>3 DEF ThreadState
  <2>4. ((u = t) \/ thread[u].stop) \in BOOLEAN
    OBVIOUS
  <2> QED
    BY <2>1, <2>2, <2>3, <2>4
<1>5. thread' \in [Threads -> ThreadState]
  BY <1>2, <1>4
<1>6. /\ \A u \in Threads : Busy(u)' => Busy(u) /\ thread'[u].at = thread[u].at
                              /\ thread'[u].id = thread[u].id /\ thread'[u].value = thread[u].value
      /\ \A u \in Threads : Busy(u) => Busy(u)'
  BY <1>4 DEF Busy
<1> QED
  BY <1>3, <1>5, <1>6, ThreadsMove

----------------------------------------------------------------------------
(* The steps of the protocol thread *)

LEMMA RectStartKeeps ==
  ASSUME DecodeInv, RectStart
  PROVE  DecodeInv'
<1>0. /\ DecodeTypeOK /\ InOrder /\ Assigned /\ Unhindered /\ DataKept /\ PartialKnown /\ Phases
      /\ Healthy => Sequential
  BY DEF DecodeInv
<1>1. PICK kind \in Kinds : Affected(kind) \subseteq DOMAIN fb /\ BeginRect(bound.rects + 1, kind)
  BY DEF RectStart
<1> DEFINE id == bound.rects + 1
           buffer == Head(freeBuffers)
           e == [id |-> id, kind |-> kind, buffer |-> buffer, active |-> FALSE,
                 places |-> sent, result |-> Result(ideal, kind, id)]
<1>2. /\ partialEntry = NoEntry /\ freeBuffers # <<>> /\ partialEntry' = e
      /\ contents' = [contents EXCEPT ![buffer] = 0]
      /\ UNCHANGED <<workQueue, freeBuffers, threadException, thread, stream, fb, ideal, sent, main>>
      /\ bound' = [bound EXCEPT !.rects = @ + 1] /\ main.at = "idle" /\ main.inUpdate
  BY <1>1 DEF RectStart, BeginRect, Reading, Idle
<1>3. /\ freeBuffers \in Seq(Buffers) /\ contents \in [Buffers -> Nat] /\ sent \in [Lanes -> Nat]
      /\ ideal \in Seq(Int) /\ Len(ideal) = Len(fb) /\ DOMAIN fb = 1 .. Len(fb) /\ Len(fb) \in Nat
      /\ bound \in [rects : Nat, updates : Nat, cursors : Nat]
  BY <1>0 DEF DecodeTypeOK
<1>4. buffer \in Buffers /\ buffer = freeBuffers[1] /\ 1 \in 1 .. Len(freeBuffers)
  BY <1>2, <1>3, EmptySeq
<1>5. id \in Nat \ {0} /\ bound' \in [rects : Nat, updates : Nat, cursors : Nat] /\ bound'.rects = id
  <2>1. bound.rects + 1 \in Nat \ {0}
    BY <1>3
  <2>2. bound' = [bound EXCEPT !.rects = id]
    BY <1>2
  <2> HIDE DEF id
  <2>3. id \in Nat \ {0}
    BY <2>1 DEF id
  <2> QED
    BY <1>3, <2>2, <2>3
<1> DEFINE j == [id |-> id, kind |-> kind, places |-> sent, result |-> 0]
<1>6. Result(ideal, kind, id) \in Int
  <2>1. j \in JobRecord /\ j.kind = kind
    BY <1>1, <1>3, <1>5 DEF JobRecord
  <2>2. Copies(kind) => Min(kind.reads) \in 1 .. Len(fb)
    BY <1>1, <1>3, <2>1, SourceAffected DEF Source
  <2> QED
    BY <1>3, <1>5, <2>2 DEF Result
<1>7. /\ e \in Entry /\ e.id = id /\ e.kind = kind /\ e.buffer = buffer /\ e.active = FALSE
      /\ e.places = sent /\ e.result = Result(ideal, kind, id)
  <2> HIDE DEF id, buffer
  <2>1. e.id = id /\ e.kind = kind /\ e.buffer = buffer /\ e.active = FALSE
        /\ e.places = sent /\ e.result = Result(ideal, kind, id)
    OBVIOUS
  <2>2. ASSUME NEW n \in Nat \ {0}, NEW b \in Buffers, NEW v \in Int, NEW s \in [Lanes -> Nat]
        PROVE  [id |-> n, kind |-> kind, buffer |-> b, active |-> FALSE, places |-> s, result |-> v] \in Entry
    BY DEF Entry
  <2> QED
    BY <1>3, <1>4, <1>5, <1>6, <2>1, <2>2
<1> HIDE DEF e, id, buffer, j
<1>8. Queued' = Queued /\ Pending' = Pending
  BY <1>2 DEF Queued, Pending, Done
<1>9. \A q \in Queued : q.id \in Nat /\ q.buffer \in Buffers
  BY <1>0, QueuedFacts, EntryFields
<1>10. DecodeTypeOK'
  <2>1. contents' \in [Buffers -> Nat]
    BY <1>2, <1>3, <1>4
  <2> QED
    BY <1>0, <1>2, <1>5, <1>7, <2>1 DEF DecodeTypeOK
<1>11. \A q \in Queued : q.id < id
  BY <1>0, <1>3, <1>9 DEF InOrder, id
<1>12. InOrder'
  <2>1. \A i, k \in 1 .. Len(workQueue') : i < k => workQueue'[i].id < workQueue'[k].id
    BY <1>0, <1>2 DEF InOrder
  <2>2. \A q \in Queued' : q.id <= bound'.rects /\ q.id < partialEntry'.id
    BY <1>2, <1>5, <1>7, <1>8, <1>9, <1>11
  <2> QED
    BY <1>2, <1>5, <1>7, <2>1, <2>2 DEF InOrder
<1>13. Assigned' /\ Unhindered'
  BY <1>0, <1>2, <1>8 DEF Assigned, Unhindered, Busy
<1>14. DataKept'
  <2>1. \A q \in Queued : q.buffer # buffer
    BY <1>0, <1>4 DEF DataKept
  <2>2. \A q \in Queued : contents'[q.buffer] = contents[q.buffer]
    BY <1>2, <1>3, <1>4, <1>9, <2>1
  <2> QED
    BY <1>0, <1>2, <1>4, <1>7, <1>8, <2>2 DEF DataKept
<1>15. PartialKnown'
  BY <1>1, <1>2, <1>3, <1>7 DEF PartialKnown
<1>16. Phases'
  BY <1>0, <1>2, <1>8 DEF Phases, Deleted
<1>17. Healthy' => Sequential'
  BY <1>0, <1>2, <1>8 DEF Healthy, Ending, Sequential, ValuesKept
<1> QED
  BY <1>10, <1>12, <1>13, <1>14, <1>15, <1>16, <1>17 DEF DecodeInv

LEMMA RectEndKeeps ==
  ASSUME DecodeInv, RectEnd
  PROVE  DecodeInv'
<1> DEFINE e == partialEntry
<1>0. /\ DecodeTypeOK /\ InOrder /\ Assigned /\ Unhindered /\ DataKept /\ PartialKnown /\ Phases
      /\ Healthy => Sequential
  BY DEF DecodeInv
<1>1. /\ main.at = "idle" /\ e # NoEntry /\ threadException = FALSE
      /\ contents' = [contents EXCEPT ![e.buffer] = e.id]
      /\ freeBuffers' = Tail(freeBuffers) /\ workQueue' = Append(workQueue, e)
      /\ partialEntry' = NoEntry
      /\ ideal' = Painted(ideal, e.kind, e.id)
      /\ sent' = [l \in Lanes |-> IF l \in Lane(e.kind) THEN sent[l] + 1 ELSE sent[l]]
      /\ UNCHANGED <<threadException, stream, fb, bound>>
  BY <1>0 DEF RectEnd, QueueRect, Idle, DecodeTypeOK
<1>2. e \in Entry
  BY <1>0, <1>1 DEF DecodeTypeOK
<1>3. /\ workQueue \in Seq(Entry) /\ freeBuffers \in Seq(Buffers) /\ contents \in [Buffers -> Nat]
      /\ thread \in [Threads -> ThreadState] /\ sent \in [Lanes -> Nat] /\ stream \in [Lanes -> Nat]
      /\ fb \in Seq(Int) /\ ideal \in Seq(Int) /\ Len(ideal) = Len(fb) /\ Len(fb) \in Nat
      /\ Len(workQueue) \in Nat
  BY <1>0 DEF DecodeTypeOK
<1>4. /\ e.id \in Nat \ {0} /\ e.buffer \in Buffers /\ e.kind \in Kinds /\ e.result \in Int
      /\ e.active = FALSE /\ e.places = sent
      /\ Affected(e.kind) \subseteq 1 .. Len(fb) /\ e.result = Result(ideal, e.kind, e.id)
      /\ \A q \in Queued : q.id < e.id
      /\ e.buffer = freeBuffers[1] /\ freeBuffers # <<>>
      /\ main.inUpdate # FALSE
  BY <1>0, <1>1, <1>2, EntryFields DEF PartialKnown, InOrder, DataKept, Phases, Deleted
<1>5. /\ workQueue' \in Seq(Entry) /\ Len(workQueue') = Len(workQueue) + 1
      /\ \A i \in 1 .. Len(workQueue) : workQueue'[i] = workQueue[i]
      /\ workQueue'[Len(workQueue) + 1] = e
  <2> HIDE DEF e
  <2> QED
    BY <1>1, <1>2, <1>3
<1> HIDE DEF e
<1>6. Queued' = Queued \cup {e}
  <2>1. \A i \in 1 .. Len(workQueue') : i \in 1 .. Len(workQueue) \/ i = Len(workQueue) + 1
    BY <1>3, <1>5
  <2>2. \A i \in 1 .. Len(workQueue) : i \in 1 .. Len(workQueue')
    BY <1>3, <1>5
  <2>3. Len(workQueue) + 1 \in 1 .. Len(workQueue')
    BY <1>3, <1>5
  <2> QED
    BY <1>5, <2>1, <2>2, <2>3 DEF Queued
<1>7. Queued \subseteq Entry /\ (\A q \in Queued : q.id \in Nat /\ q.buffer \in Buffers)
  BY <1>0, QueuedFacts, EntryFields
<1>8. /\ thread' \in [Threads -> ThreadState]
      /\ \A u \in Threads : thread'[u] = thread[u] \/ (thread[u].at = "asleep" /\ thread'[u].at = "look")
  <2>1. CASE thread' = thread
    BY <1>3, <2>1
  <2>2. ASSUME NEW S, Wake(S)
        PROVE  /\ thread' \in [Threads -> ThreadState]
               /\ \A u \in Threads : thread'[u] = thread[u] \/ (thread[u].at = "asleep" /\ thread'[u].at = "look")
    <3>1. ASSUME NEW u \in Threads
          PROVE  thread'[u] \in ThreadState
                 /\ (thread'[u] = thread[u] \/ (thread[u].at = "asleep" /\ thread'[u].at = "look"))
      BY <1>3, <2>2, Awake DEF Wake
    <3> QED
      BY <2>2, <3>1 DEF Wake
  <2> QED
    BY <2>1, <2>2 DEF RectEnd, QueueRect
<1>9. /\ freeBuffers' \in Seq(Buffers) /\ Len(freeBuffers) \in Nat /\ Len(freeBuffers') = Len(freeBuffers) - 1
      /\ \A i \in 1 .. Len(freeBuffers') : i + 1 \in 1 .. Len(freeBuffers) /\ freeBuffers'[i] = freeBuffers[i + 1]
      /\ 1 \in 1 .. Len(freeBuffers)
  BY <1>1, <1>3, <1>4, EmptySeq
<1>10. ideal' \in Seq(Int) /\ Len(ideal') = Len(fb) /\ sent' \in [Lanes -> Nat]
  <2>1. ideal' = [c \in 1 .. Len(fb) |-> IF c \in e.kind.writes THEN e.result ELSE ideal[c]]
    BY <1>1, <1>3, <1>4 DEF Painted
  <2> QED
    BY <1>1, <1>3, <1>4, <2>1
<1>11. main'.at = "idle" /\ main'.inUpdate = main.inUpdate /\ {"at", "inUpdate", "retry"} \subseteq DOMAIN main'
  BY <1>0, <1>1 DEF RectEnd, DecodeTypeOK
<1>12. DecodeTypeOK'
  <2>1. contents' \in [Buffers -> Nat]
    BY <1>1, <1>3, <1>4
  <2> QED
    BY <1>0, <1>1, <1>5, <1>8, <1>9, <1>10, <1>11, <2>1 DEF DecodeTypeOK
<1>13. InOrder'
  <2>1. ASSUME NEW i \in 1 .. Len(workQueue'), NEW j \in 1 .. Len(workQueue'), i < j
        PROVE  workQueue'[i].id < workQueue'[j].id
    <3>0. Len(workQueue') = Len(workQueue) + 1 /\ Len(workQueue) \in Nat
      BY <1>3, <1>5
    <3>1. i \in 1 .. Len(workQueue) /\ (j \in 1 .. Len(workQueue) \/ j = Len(workQueue) + 1)
      BY ONLY <3>0, <2>1, i \in 1 .. Len(workQueue'), j \in 1 .. Len(workQueue')
    <3>2. workQueue[i] \in Queued
      BY <3>1 DEF Queued
    <3> QED
      BY <1>0, <1>4, <1>5, <2>1, <3>1, <3>2 DEF InOrder
  <2>2. \A q \in Queued' : q.id <= bound'.rects
    BY <1>0, <1>1, <1>6 DEF InOrder, e
  <2> QED
    BY <1>1, <2>1, <2>2 DEF InOrder
<1>14. \A u \in Threads : (Busy(u)' <=> Busy(u)) /\ (Busy(u) => thread'[u] = thread[u])
  BY <1>8 DEF Busy
<1>15. Assigned'
  <2>1. \A u \in Threads : Busy(u)' => \E q \in Queued' : q.id = thread'[u].id /\ q.active = TRUE
    BY <1>0, <1>6, <1>14 DEF Assigned
  <2>2. \A u, w \in Threads : Busy(u)' /\ Busy(w)' /\ thread'[u].id = thread'[w].id => u = w
    BY <1>0, <1>14 DEF Assigned
  <2> QED
    BY <2>1, <2>2 DEF Assigned
<1>16. Unhindered'
  BY <1>0, <1>4, <1>6, <1>7 DEF Unhindered
<1>17. DataKept'
  <2>1. \A i \in 1 .. Len(freeBuffers') : freeBuffers'[i] # e.buffer
    BY <1>0, <1>4, <1>9 DEF DataKept
  <2>2. \A q \in Queued : q.buffer # e.buffer
    BY <1>0, <1>4, <1>9 DEF DataKept
  <2>3. \A q \in Queued' : contents'[q.buffer] = q.id
    BY <1>0, <1>1, <1>3, <1>4, <1>6, <1>7, <2>2 DEF DataKept
  <2>4. \A q \in Queued' : \A i \in 1 .. Len(freeBuffers') : freeBuffers'[i] # q.buffer
    BY <1>0, <1>6, <1>9, <2>1 DEF DataKept
  <2>5. \A i, j \in 1 .. Len(freeBuffers') : i # j => freeBuffers'[i] # freeBuffers'[j]
    <3> SUFFICES ASSUME NEW i \in 1 .. Len(freeBuffers'), NEW j \in 1 .. Len(freeBuffers'), i # j
                 PROVE  freeBuffers'[i] # freeBuffers'[j]
      OBVIOUS
    <3>1. i + 1 # j + 1
      BY <1>9
    <3> QED
      BY <1>0, <1>9, <3>1 DEF DataKept
  <2> QED
    BY <1>1, <2>3, <2>4, <2>5 DEF DataKept
<1>18. PartialKnown'
  BY <1>1 DEF PartialKnown
<1>19. Phases'
  <2>1. \A q \in Queued' : Affected(q.kind) \subseteq 1 .. Len(fb')
    BY <1>0, <1>1, <1>4, <1>6 DEF Phases
  <2> QED
    BY <1>0, <1>1, <1>4, <1>11, <2>1 DEF Phases, Deleted
<1>20. ASSUME Healthy' PROVE Sequential'
  <2>1. Healthy /\ Sequential
    BY <1>0, <1>1 DEF Healthy, Ending
  <2>2. ASSUME NEW f PROVE (\E u \in Threads : thread'[u].at = "return" /\ thread'[u].id = f.id) <=> Done(f)
    BY <1>8 DEF Done
  <2>3. ~Done(e)
    BY <1>0, <1>4, <1>7 DEF Done, Assigned, Busy
  <2>4. Pending' = Pending \cup {Job(e)}
    <3>1. Pending' = {Job(q) : q \in {p \in Queued' : ~Done(p)}}
      BY <2>2 DEF Pending, Done
    <3> QED
      BY <1>6, <2>3, <3>1 DEF Pending
  <2>5. /\ Job(e) \in JobRecord /\ Job(e).id = e.id /\ Job(e).kind = e.kind
        /\ Job(e).places = e.places /\ Job(e).result = e.result
    BY <1>2, EntryFields DEF e
  <2>6. Pending \in SUBSET JobRecord /\ \A f \in Pending : f.id < Job(e).id
    BY <1>0, <1>4, <1>7, <2>5, PendingFacts, EntryFields
  <2>7. StreamsKept(Pending', stream', sent')
    <3>1. sent' = [l \in Lanes |-> IF l \in Lane(Job(e).kind) THEN sent[l] + 1 ELSE sent[l]]
      BY <1>1, <2>5
    <3>2. StreamsKept(Pending, stream, sent) /\ Job(e).places = sent /\ stream' = stream
      BY <1>1, <1>4, <2>1, <2>5 DEF Sequential
    <3> QED
      BY <1>3, <2>4, <2>5, <2>6, <3>1, <3>2, QueueStreams
  <2>8. PixelsKept(Pending', fb', ideal') /\ ResultsKept(Pending', fb')
    <3>1. ideal' = Painted(ideal, Job(e).kind, Job(e).id) /\ fb' = fb
          /\ PixelsKept(Pending, fb, ideal) /\ ResultsKept(Pending, fb)
          /\ Affected(Job(e).kind) \subseteq 1 .. Len(fb) /\ Job(e).result = Result(ideal, Job(e).kind, Job(e).id)
      BY <1>1, <1>4, <2>1, <2>5 DEF Sequential
    <3> QED
      BY <1>3, <2>4, <2>5, <2>6, <3>1, QueuePixels
  <2>9. ValuesKept'
    <3> SUFFICES ASSUME NEW u \in Threads, NEW q \in Queued', thread'[u].at = "decode", q.id = thread'[u].id
                 PROVE  thread'[u].value = q.result
      BY DEF ValuesKept
    <3>1. thread'[u] = thread[u] /\ Busy(u)
      BY <1>8 DEF Busy
    <3>2. q \in Queued
      BY <1>0, <1>4, <1>6, <1>7, <3>1 DEF Assigned
    <3> QED
      BY <2>1, <3>1, <3>2 DEF Sequential, ValuesKept
  <2> QED
    BY <2>7, <2>8, <2>9 DEF Sequential
<1> QED
  BY <1>12, <1>13, <1>15, <1>16, <1>17, <1>18, <1>19, <1>20 DEF DecodeInv

\* An empty queue asks nothing of the pixels but that they are the sequential ones.
LEMMA NothingPending ==
  ASSUME NEW pixels, NEW reached \in [Lanes -> Nat], workQueue = <<>>
  PROVE  /\ Queued = {} /\ Pending = {} /\ ValuesKept
         /\ StreamsKept({}, reached, reached) /\ PixelsKept({}, pixels, pixels) /\ ResultsKept({}, pixels)
<1>1. Queued = {}
  BY DEF Queued
<1>2. Pending = {}
  BY <1>1 DEF Pending
<1>3. StreamsKept({}, reached, reached)
  BY DEF StreamsKept
<1> QED
  BY <1>1, <1>2, <1>3 DEF ValuesKept, PixelsKept, ResultsKept, Unwritten

LEMMA ResizeKeeps ==
  ASSUME DecodeInv, NEW w \in Widths, Resize(w)
  PROVE  DecodeInv'
<1>0. /\ DecodeTypeOK /\ InOrder /\ Assigned /\ Unhindered /\ DataKept /\ PartialKnown /\ Phases
      /\ Healthy => Sequential
  BY DEF DecodeInv
<1>1. /\ main.at = "idle" /\ main.inUpdate /\ partialEntry = NoEntry
      /\ workQueue = <<>> /\ threadException = FALSE
      /\ fb' = [c \in 1 .. w |-> IF c \in DOMAIN fb THEN fb[c] ELSE Black]
      /\ ideal' = [c \in 1 .. w |-> IF c \in DOMAIN ideal THEN ideal[c] ELSE Black]
      /\ main' = [main EXCEPT !.damage = 1 .. w]
      /\ UNCHANGED <<workQueue, freeBuffers, contents, partialEntry, threadException, thread, stream,
                     sent, bound>>
  BY <1>0 DEF Resize, Reading, Idle, Flushed, DecodeTypeOK
<1>2. w \in Nat \ {0}
  BY FramePathAssumption
<1>3. fb \in Seq(Int) /\ ideal \in Seq(Int) /\ DOMAIN fb = 1 .. Len(fb) /\ DOMAIN ideal = 1 .. Len(ideal)
  BY <1>0 DEF DecodeTypeOK
<1>4. fb' \in Seq(Int) /\ ideal' \in Seq(Int) /\ Len(fb') = w /\ Len(ideal') = w
  <2>1. ASSUME NEW p \in Seq(Int), NEW q, q = [c \in 1 .. w |-> IF c \in DOMAIN p THEN p[c] ELSE Black]
        PROVE  q \in Seq(Int) /\ Len(q) = w
    <3>1. \A c \in 1 .. w : (IF c \in DOMAIN p THEN p[c] ELSE Black) \in Int
      BY DEF Black
    <3> QED
      BY ONLY <1>2, <2>1, <3>1
  <2> QED
    BY <1>1, <1>3, <2>1
<1>5. Healthy /\ Sequential /\ Queued = {} /\ Pending = {}
  BY <1>0, <1>1, NothingPending DEF Healthy, Ending, Queued, Pending
<1>6. main'.at = main.at /\ main'.inUpdate = main.inUpdate /\ DOMAIN main' = DOMAIN main
  BY <1>0, <1>1 DEF DecodeTypeOK
<1>7. Queued' = {} /\ Pending' = {}
  BY <1>1, <1>5 DEF Queued, Pending
<1>8. DecodeTypeOK'
  BY <1>0, <1>1, <1>4, <1>6 DEF DecodeTypeOK
<1>9. InOrder' /\ Assigned' /\ Unhindered' /\ DataKept' /\ PartialKnown'
  BY <1>0, <1>1, <1>5, <1>7 DEF InOrder, Assigned, Unhindered, DataKept, PartialKnown, Busy
<1>10. Phases'
  BY <1>1, <1>2, <1>4, <1>6, <1>7 DEF Phases, Deleted
<1>11. Sequential'
  <2>1. \A c \in 1 .. Len(fb) : fb[c] = ideal[c]
    BY <1>5 DEF Sequential, PixelsKept, Unwritten
  <2>2. fb' = ideal'
    BY <1>0, <1>1, <1>3, <2>1 DEF DecodeTypeOK
  <2>3. PixelsKept({}, fb', ideal') /\ ResultsKept({}, fb') /\ ValuesKept'
    BY <1>7, <2>2 DEF PixelsKept, ResultsKept, ValuesKept, LastWriter
  <2>4. StreamsKept({}, stream', sent')
    BY <1>1, <1>5 DEF Sequential
  <2> QED
    BY <1>7, <2>3, <2>4 DEF Sequential
<1> QED
  BY <1>8, <1>9, <1>10, <1>11 DEF DecodeInv

LEMMA FailKeeps ==
  ASSUME DecodeInv, Fail
  PROVE  DecodeInv'
<1>0. /\ DecodeTypeOK /\ InOrder /\ Assigned /\ Unhindered /\ DataKept /\ PartialKnown /\ Phases
  BY DEF DecodeInv
<1>1. /\ main.at = "idle" /\ threadException' = FALSE
      /\ main' = [main EXCEPT !.at = "closing", !.retry = FALSE]
      /\ UNCHANGED <<workQueue, freeBuffers, contents, partialEntry, thread, stream, fb, ideal, sent, bound>>
  BY DEF Fail, Finished, Idle
<1>2. main'.at = "closing" /\ main'.inUpdate = main.inUpdate /\ DOMAIN main' = DOMAIN main
  BY <1>0, <1>1 DEF DecodeTypeOK
<1>3. Queued' = Queued
  BY <1>1 DEF Queued
<1>4. DecodeTypeOK'
  BY <1>0, <1>1, <1>2 DEF DecodeTypeOK
<1>5. InOrder' /\ Assigned' /\ Unhindered' /\ DataKept'
  BY <1>0, <1>1, <1>3 DEF InOrder, Assigned, Unhindered, DataKept, Busy
<1>6. PartialKnown' /\ Phases'
  BY <1>0, <1>1, <1>2, <1>3 DEF PartialKnown, Phases, Deleted
<1>7. ~Healthy'
  BY <1>2 DEF Healthy, Ending
<1> QED
  BY <1>4, <1>5, <1>6, <1>7 DEF DecodeInv

LEMMA DeleteKeeps ==
  ASSUME DecodeInv, DeleteFramebuffer
  PROVE  DecodeInv'
<1>0. /\ DecodeTypeOK /\ InOrder /\ Assigned /\ Unhindered /\ DataKept /\ PartialKnown /\ Phases
  BY DEF DecodeInv
<1>1. /\ main.at = "closing" /\ workQueue = <<>> /\ threadException' = FALSE /\ fb' = <<>> /\ ideal' = <<>>
      /\ main' = [main EXCEPT !.at = "join"]
      /\ UNCHANGED <<workQueue, freeBuffers, contents, partialEntry, thread, stream, sent, bound>>
  BY DEF DeleteFramebuffer, MayDelete, Flushed
<1>2. main'.at = "join" /\ main'.inUpdate = main.inUpdate /\ DOMAIN main' = DOMAIN main
  BY <1>0, <1>1 DEF DecodeTypeOK
<1>3. Queued' = {} /\ Queued = {}
  BY <1>1 DEF Queued
<1>4. DecodeTypeOK'
  <2>1. fb' \in Seq(Int) /\ ideal' \in Seq(Int) /\ Len(ideal') = Len(fb')
    BY <1>1
  <2> QED
    BY <1>0, <1>1, <1>2, <2>1 DEF DecodeTypeOK
<1>5. InOrder' /\ Assigned' /\ Unhindered' /\ DataKept'
  BY <1>0, <1>1, <1>3 DEF InOrder, Assigned, Unhindered, DataKept, Busy
<1>6. PartialKnown' /\ Phases'
  BY <1>0, <1>1, <1>2, <1>3 DEF PartialKnown, Phases, Deleted
<1>7. ~Healthy'
  BY <1>2 DEF Healthy, Ending
<1> QED
  BY <1>4, <1>5, <1>6, <1>7 DEF DecodeInv

\* A connection begins.
Begun ==
  /\ \E w \in Widths : DecodeInit(Blank(w)) /\ main = Fresh(w)
  /\ bound \in [rects : Nat, updates : Nat, cursors : Nat]

LEMMA Beginning ==
  ASSUME Begun
  PROVE  DecodeInv
<1>0. PICK w \in Widths : DecodeInit(Blank(w)) /\ main = Fresh(w)
  BY DEF Begun
<1> USE <1>0 DEF DecodeInit
<1>1. w \in Nat \ {0}
  BY FramePathAssumption
<1>2. fb \in Seq(Int) /\ Len(fb) = w /\ ideal = fb
  BY <1>1 DEF Blank, Black
<1>3. freeBuffers \in Seq(Buffers) /\ Len(freeBuffers) = BufferCount
      /\ \A i \in 1 .. BufferCount : freeBuffers[i] = i
  <2>1. BufferCount \in Nat
    BY DecodeAssumption
  <2> QED
    BY <2>1 DEF Buffers
<1>4. thread \in [Threads -> ThreadState] /\ \A t \in Threads : thread[t].at = "look"
  BY DEF Looking, ThreadState
<1>5. /\ main.at = "publish" /\ main.inUpdate = FALSE
      /\ {"at", "inUpdate", "retry"} \subseteq DOMAIN main
  BY DEF Fresh
<1>6. Queued = {}
  BY DEF Queued
<1>7. Pending = {}
  BY <1>6 DEF Pending
<1>8. DecodeTypeOK
  <2>1. workQueue \in Seq(Entry) /\ contents \in [Buffers -> Nat]
    OBVIOUS
  <2>2. stream \in [Lanes -> Nat] /\ sent \in [Lanes -> Nat]
    OBVIOUS
  <2>3. ideal \in Seq(Int) /\ Len(ideal) = Len(fb)
    BY <1>2
  <2>4. partialEntry \in Entry \cup {NoEntry} /\ threadException \in BOOLEAN
    OBVIOUS
  <2> QED
    BY <1>2, <1>3, <1>4, <1>5, <2>1, <2>2, <2>3, <2>4 DEF DecodeTypeOK, Begun
<1>9. InOrder /\ Assigned /\ Unhindered /\ DataKept /\ PartialKnown
  BY <1>3, <1>4, <1>6 DEF InOrder, Assigned, Unhindered, DataKept, PartialKnown, Busy
<1>10. Phases
  BY <1>1, <1>2, <1>5, <1>6 DEF Phases, Deleted
<1>11. Sequential
  <2>1. PixelsKept({}, fb, ideal) /\ ResultsKept({}, fb) /\ ValuesKept
    BY <1>2, <1>6 DEF PixelsKept, ResultsKept, ValuesKept, LastWriter
  <2>2. StreamsKept({}, stream, sent)
    BY DEF StreamsKept
  <2> QED
    BY <1>7, <2>1, <2>2 DEF Sequential
<1> QED
  BY <1>8, <1>9, <1>10, <1>11 DEF DecodeInv

LEMMA BeginsAgain == Begun' => DecodeInv'
<1>1. Begun => DecodeInv
  BY Beginning
<1> QED
  BY <1>1, PTL

----------------------------------------------------------------------------
(* Theorems *)

LEMMA InitDecodes == Init => DecodeInv
<1>1. Init => Begun
  BY DEF Init, Begun, Unused
<1> QED
  BY <1>1, Beginning

\* Phases without a decoder at work, as Calm wants them.
LEMMA CalmTo ==
  ASSUME DecodeInv, UNCHANGED <<decodeVars, bound>>, ~Deleted, ~Ending,
         DOMAIN main' = DOMAIN main, main'.inUpdate = FALSE,
         main'.at \in {"idle", "publish", "deliver", "cursor"},
         workQueue = <<>>, partialEntry = NoEntry, threadException = FALSE
  PROVE  DecodeInv'
BY Calm DEF DecodeInv, DecodeTypeOK, Deleted, Ending

LEMMA ProtocolKeeps ==
  ASSUME DecodeInv, Protocol
  PROVE  DecodeInv'
<1>0. DecodeTypeOK /\ Phases
  BY DEF DecodeInv
<1>1. CASE PublishFrame
  <2>1. /\ UNCHANGED <<decodeVars, bound>> /\ main.at = "publish" /\ DOMAIN main' = DOMAIN main
        /\ main'.inUpdate = main.inUpdate /\ main'.at \in {"deliver", "cursor"}
    BY <1>0, <1>1 DEF PublishFrame, DecodeTypeOK
  <2> QED
    BY <1>0, <2>1, CalmTo DEF Phases, Deleted, Ending
<1>2. CASE DeliverToView
  <2>1. /\ UNCHANGED <<decodeVars, bound>> /\ main.at = "deliver" /\ DOMAIN main' = DOMAIN main
        /\ main'.inUpdate = main.inUpdate /\ main'.at \in {"deliver", "cursor"}
    BY <1>0, <1>2 DEF DeliverToView, DecodeTypeOK
  <2> QED
    BY <1>0, <2>1, CalmTo DEF Phases, Deleted, Ending
<1>3. CASE PublishCursor
  <2>1. /\ UNCHANGED <<decodeVars, bound>> /\ main.at = "cursor" /\ DOMAIN main' = DOMAIN main
        /\ main'.inUpdate = main.inUpdate /\ main'.at = "idle"
    BY <1>0, <1>3 DEF PublishCursor, Published, DecodeTypeOK
  <2> QED
    BY <1>0, <2>1, CalmTo DEF Phases, Deleted, Ending
<1>4. CASE Retry
  <2>1. /\ UNCHANGED <<decodeVars, bound>> /\ main.at = "idle" /\ DOMAIN main' = DOMAIN main
        /\ main'.inUpdate = main.inUpdate /\ main'.at = "publish" /\ ~main.inUpdate
    BY <1>0, <1>4 DEF Retry, Idle, DecodeTypeOK
  <2>2. main.inUpdate = FALSE
    BY <1>0, <2>1 DEF DecodeTypeOK
  <2> QED
    BY <1>0, <2>1, <2>2, CalmTo DEF Phases, Deleted, Ending
<1>5. CASE DeleteFramebuffer
  BY <1>5, DeleteKeeps
<1>6. CASE JoinThread
  BY <1>6, StopKeeps DEF JoinThread
<1>7. CASE ResetPublisher
  <2>1. /\ UNCHANGED <<decodeVars, bound>> /\ main.at = "join" /\ DOMAIN main' = DOMAIN main
        /\ main'.at = "closed" /\ main'.inUpdate = main.inUpdate
    BY <1>0, <1>7 DEF ResetPublisher, DecodeTypeOK
  <2> QED
    BY <1>0, <2>1, Calm DEF DecodeTypeOK, Deleted, Ending
<1> QED
  BY <1>1, <1>2, <1>3, <1>4, <1>5, <1>6, <1>7 DEF Protocol

LEMMA ServerKeeps ==
  ASSUME DecodeInv, Server
  PROVE  DecodeInv'
<1>0. DecodeTypeOK /\ Phases
  BY DEF DecodeInv
<1>1. ASSUME UNCHANGED decodeVars, main.at = "idle", main'.at = "idle", DOMAIN main' = DOMAIN main,
             main'.inUpdate = TRUE, bound' \in [rects : Nat, updates : Nat, cursors : Nat],
             bound'.rects = bound.rects
      PROVE  DecodeInv'
  <2>1. Queued' = Queued /\ Pending' = Pending
    BY <1>1 DEF decodeVars, Queued, Pending, Done
  <2>2. DecodeTypeOK'
    BY <1>0, <1>1 DEF DecodeTypeOK, decodeVars
  <2>3. InOrder' /\ Assigned' /\ Unhindered' /\ DataKept'
    BY <1>1, <2>1 DEF DecodeInv, InOrder, Assigned, Unhindered, DataKept, decodeVars, Busy
  <2>4. PartialKnown' /\ Phases'
    BY <1>1, <2>1 DEF DecodeInv, PartialKnown, Phases, Deleted, decodeVars
  <2>5. Healthy' => Sequential'
    BY <1>1, <2>1 DEF DecodeInv, Healthy, Ending, Sequential, ValuesKept, decodeVars
  <2> QED
    BY <2>2, <2>3, <2>4, <2>5 DEF DecodeInv
<1>2. bound \in [rects : Nat, updates : Nat, cursors : Nat]
  BY <1>0 DEF DecodeTypeOK
<1>3. CASE UpdateStart
  <2>1. /\ UNCHANGED decodeVars /\ main.at = "idle" /\ main'.at = "idle" /\ DOMAIN main' = DOMAIN main
        /\ main'.inUpdate = TRUE
    BY <1>0, <1>3 DEF UpdateStart, Idle, DecodeTypeOK
  <2>2. bound.updates + 1 \in Nat /\ bound' = [bound EXCEPT !.updates = bound.updates + 1]
    BY <1>2, <1>3 DEF UpdateStart
  <2>3. bound' \in [rects : Nat, updates : Nat, cursors : Nat] /\ bound'.rects = bound.rects
    BY <1>2, <2>2
  <2> QED
    BY <1>1, <2>1, <2>3
<1>4. CASE SetCursor
  <2>1. /\ UNCHANGED decodeVars /\ main.at = "idle" /\ main'.at = "idle" /\ DOMAIN main' = DOMAIN main
        /\ main'.inUpdate = TRUE
    BY <1>0, <1>4 DEF SetCursor, Reading, Idle, DecodeTypeOK
  <2>2. bound.cursors + 1 \in Nat /\ bound' = [bound EXCEPT !.cursors = bound.cursors + 1]
    BY <1>2, <1>4 DEF SetCursor
  <2>3. bound' \in [rects : Nat, updates : Nat, cursors : Nat] /\ bound'.rects = bound.rects
    BY <1>2, <2>2
  <2> QED
    BY <1>1, <2>1, <2>3
<1>5. CASE RectStart
  BY <1>5, RectStartKeeps
<1>6. CASE RectEnd
  BY <1>6, RectEndKeeps
<1>7. ASSUME NEW w \in Widths, Resize(w) PROVE DecodeInv'
  BY <1>7, ResizeKeeps
<1>8. CASE UpdateEnd
  <2>1. /\ UNCHANGED <<decodeVars, bound>> /\ main.at = "idle" /\ DOMAIN main' = DOMAIN main
        /\ main'.inUpdate = FALSE /\ main'.at = "publish" /\ workQueue = <<>> /\ partialEntry = NoEntry
    BY <1>0, <1>8 DEF UpdateEnd, Reading, Idle, Flushed, DecodeTypeOK
  <2>2. threadException = FALSE
    BY <1>0, <1>8 DEF UpdateEnd, DecodeTypeOK
  <2> QED
    BY <2>1, <2>2, CalmTo DEF Deleted, Ending
<1> QED
  BY <1>3, <1>4, <1>5, <1>6, <1>7, <1>8 DEF Server

LEMMA DecodeStep == DecodeInv /\ [Next]_vars => DecodeInv'
<1> SUFFICES ASSUME DecodeInv, [Next]_vars PROVE DecodeInv'
  OBVIOUS
<1>0. DecodeTypeOK /\ Phases
  BY DEF DecodeInv
<1>1. ASSUME UNCHANGED <<decodeVars, main, bound>> PROVE DecodeInv'
  BY <1>0, <1>1, Calm DEF DecodeTypeOK, Phases, Deleted, Ending
<1>2. CASE UNCHANGED vars
  BY <1>1, <1>2 DEF vars
<1>3. CASE Protocol
  BY <1>3, ProtocolKeeps
<1>4. CASE Server
  BY <1>4, ServerKeeps
<1>5. CASE Fail
  BY <1>5, FailKeeps
<1>6. CASE Close
  <2>1. /\ UNCHANGED <<decodeVars, bound>> /\ main.at = "idle" /\ DOMAIN main' = DOMAIN main
        /\ main'.at = "closing" /\ main'.inUpdate = main.inUpdate
    BY <1>0, <1>6 DEF Close, Finished, Idle, DecodeTypeOK
  <2> QED
    BY <1>0, <2>1, Calm DEF DecodeTypeOK, Deleted, Ending
<1>7. CASE Reconnect
  <2>1. Begun'
    BY <1>0, <1>7 DEF Reconnect, Begun, DecodeInit, DecodeTypeOK
  <2> QED
    BY <2>1, BeginsAgain
<1>8. CASE Decoders
  <2>1. PICK t \in Threads : DecodeThread(t) \/ DecodeFails(t) \/ WakeSpuriously(t)
    BY <1>8 DEF Decoders, DecodeNext
  <2>2. UNCHANGED <<main, bound>>
    BY <1>8 DEF Decoders
  <2> QED
    BY <2>1, <2>2, LookKeeps, DecodeKeeps, ReturnKeeps, FailureKeeps, WakeKeeps DEF DecodeThread
<1>9. CASE ViewsNext
  BY <1>1, <1>9 DEF ViewsNext
<1> QED
  BY <1>2, <1>3, <1>4, <1>5, <1>6, <1>7, <1>8, <1>9 DEF Next

THEOREM DecodingInvariant == Spec => []DecodeInv
BY InitDecodes, DecodeStep, PTL DEF Spec

\* Whatever the interleaving of the decoder threads, a drained queue without a failure leaves
\* the pixels of a sequential decoder (findEntry's rules on overlaps, copies and streams suffice).
THEOREM DecodingIsSequential == Spec => []SequentialResult
<1>1. DecodeInv => SequentialResult
  <2> SUFFICES ASSUME DecodeInv, main.at = "idle", workQueue = <<>>, ~threadException
               PROVE  fb = ideal
    BY DEF SequentialResult, Idle, Flushed
  <2>1. Healthy /\ Sequential
    BY DEF DecodeInv, Healthy, Ending, DecodeTypeOK
  <2>2. Pending = {}
    BY DEF Pending, Queued
  <2>3. \A c \in 1 .. Len(fb) : fb[c] = ideal[c]
    BY <2>1, <2>2 DEF Sequential, PixelsKept, Unwritten
  <2>4. fb \in Seq(Int) /\ ideal \in Seq(Int) /\ Len(ideal) = Len(fb)
    BY DEF DecodeInv, DecodeTypeOK
  <2> QED
    BY <2>3, <2>4
<1> QED
  BY <1>1, DecodingInvariant, PTL

\* CConnection::close() never deletes the framebuffer under a decoder.
THEOREM DeletedAfterDecoders == Spec => []FramebufferOutlivesDecoders
<1>1. DecodeInv => FramebufferOutlivesDecoders
  <2> SUFFICES ASSUME DecodeInv, fb = <<>>, NEW t \in Threads, thread[t].at = "decode"
               PROVE  FALSE
    BY DEF FramebufferOutlivesDecoders
  <2>1. workQueue = <<>>
    BY DEF DecodeInv, Phases
  <2> QED
    BY <2>1 DEF DecodeInv, Assigned, Busy, Queued
<1> QED
  BY <1>1, DecodingInvariant, PTL


----------------------------------------------------------------------------
(* Publishing: the inductive invariant *)

Image == [pixels : Seq(Int), sequence : Nat, size : Nat]
Steps == {"idle", "publish", "deliver", "cursor", "closing", "join", "closed"}

MainType == [at : Steps, inUpdate : BOOLEAN, damage : SUBSET Nat, cursor : Seq(Int),
             cursorChanged : BOOLEAN, retry : BOOLEAN, out : SUBSET Nat, left : SUBSET Views,
             ok : BOOLEAN]
PublisherType == [generation : Nat, size : Nat, sequence : Nat, latest : Image, cursor : Image,
                  skipped : SUBSET Nat, skippedResize : BOOLEAN]
UpdateType == [generation : Nat, frameChanged : BOOLEAN, cursorChanged : BOOLEAN, frame : Image,
               cursor : Image, damage : SUBSET Nat]
ViewType == [open : BOOLEAN, generation : Nat, frame : Image, cursor : Image, shown : Seq(Int)]

PublicationTypeOK ==
  /\ main \in MainType /\ publisher \in PublisherType
  /\ mailbox \in [Views -> UpdateType] /\ view \in [Views -> ViewType]

Columns(image) == 1 .. Len(image.pixels)

\* Damage lies in the picture, and covers what decoders are still to paint.
DamageKnown ==
  /\ publisher.skipped \subseteq Columns(publisher.latest)
  /\ ~Ending => /\ main.damage \subseteq 1 .. Len(fb)
                /\ \A e \in Queued : e.kind.writes \subseteq main.damage

\* The framebuffer differs from the frame that was published last only in damage that is
\* still known, unless the size has changed.
Tracked ==
  ~Ending /\ publisher.skippedResize = FALSE /\ Len(publisher.latest.pixels) = Len(fb) =>
    \A c \in 1 .. Len(fb) :
      c \in main.damage \/ c \in publisher.skipped \/ fb[c] = publisher.latest.pixels[c]

\* A frame's size number tells sizes apart.
Sized == publisher.latest = NoImage \/ publisher.latest.size = publisher.size

Delivering ==
  main.at = "deliver" => /\ main.out \subseteq Columns(publisher.latest)
                         /\ publisher.latest.pixels # <<>>

\* What differs from picture old in picture new is damage.
Covers(damage, old, new) ==
  \A c \in 1 .. Len(new) : c \in damage \/ (c \in 1 .. Len(old) /\ old[c] = new[c])

\* The frame a view has once it has looked into its mailbox.
Held(v) == IF mailbox[v].frameChanged = TRUE THEN mailbox[v].frame ELSE view[v].frame

\* It is the last one, but for the views that are still to be served with a new one.
InTime(v) ==
  IF main.at = "deliver" /\ v \in main.left
  THEN /\ Held(v).size = publisher.latest.size => Len(Held(v).pixels) = Len(publisher.latest.pixels)
       /\ Covers(main.out, Held(v).pixels, publisher.latest.pixels)
  ELSE Held(v) = publisher.latest

ViewKnown(v) ==
  /\ view[v].shown = view[v].frame.pixels
  /\ mailbox[v].damage \subseteq Columns(mailbox[v].frame)
  /\ mailbox[v].frameChanged = TRUE =>
       Covers(mailbox[v].damage, view[v].shown, mailbox[v].frame.pixels)
  /\ InTime(v)

ViewsKnown == \A v \in Views : view[v].open = TRUE => ViewKnown(v)

PublicationInv ==
  /\ PublicationTypeOK /\ DamageKnown /\ Tracked /\ Sized /\ Delivering /\ ViewsKnown

----------------------------------------------------------------------------
(* Damage *)

LEMMA GreatestNumber ==
  ASSUME NEW n \in Nat, NEW S \in SUBSET (1 .. n), S # {}
  PROVE  Max(S) \in S /\ \A y \in S : y <= Max(S)
<1> DEFINE T == {n - x : x \in S}
<1>1. T \in SUBSET Nat /\ T # {}
  <2>1. \A x \in S : n - x \in Nat
    OBVIOUS
  <2>2. PICK x \in S : TRUE
    OBVIOUS
  <2>3. n - x \in T
    OBVIOUS
  <2> QED
    BY <2>1, <2>3
<1>2. Min(T) \in T /\ \A y \in T : Min(T) <= y
  BY <1>1, LeastNumber
<1>3. PICK m \in S : Min(T) = n - m
  BY <1>2
<1>4. \A y \in S : y <= m
  <2> SUFFICES ASSUME NEW y \in S PROVE y <= m
    OBVIOUS
  <2>1. n - m <= n - y
    BY <1>2, <1>3
  <2> QED
    BY <2>1
<1> QED
  BY <1>4 DEF Max

LEMMA UniteFacts ==
  ASSUME NEW n \in Nat, NEW a \in SUBSET (1 .. n), NEW b \in SUBSET (1 .. n)
  PROVE  Unite(a, b) \in SUBSET (1 .. n) /\ a \subseteq Unite(a, b) /\ b \subseteq Unite(a, b)
<1>1. CASE a \cup b = {}
  BY <1>1 DEF Unite
<1>2. CASE a \cup b # {}
  <2> DEFINE S == a \cup b
  <2>1. S \in SUBSET (1 .. n) /\ S \in SUBSET Nat /\ S # {}
    BY <1>2
  <2>2. Unite(a, b) = Min(S) .. Max(S)
    BY <1>2 DEF Unite
  <2> HIDE DEF S
  <2>3. Min(S) \in S /\ \A y \in S : Min(S) <= y
    BY <2>1, LeastNumber
  <2>4. Max(S) \in S /\ \A y \in S : y <= Max(S)
    BY <2>1, GreatestNumber
  <2>5. Min(S) \in 1 .. n /\ Max(S) \in 1 .. n
    BY <2>1, <2>3, <2>4
  <2>6. S \subseteq Unite(a, b)
    BY <2>1, <2>2, <2>3, <2>4, <2>5
  <2>7. Unite(a, b) \subseteq 1 .. n
    BY <2>2, <2>5
  <2> QED
    BY <2>6, <2>7 DEF S
<1> QED
  BY <1>1, <1>2

LEMMA CoversAll ==
  ASSUME NEW old, NEW new \in Seq(Int)
  PROVE  Covers(1 .. Len(new), old, new)
BY DEF Covers

LEMMA CoversNext ==
  ASSUME NEW old, NEW mid, NEW new, NEW a, NEW b, NEW d, Covers(a, old, mid), Covers(b, mid, new),
         Len(mid) = Len(new), a \subseteq d, b \subseteq d
  PROVE  Covers(d, old, new)
BY DEF Covers

LEMMA RepaintedFacts ==
  ASSUME NEW shown \in Seq(Int), NEW update \in UpdateType,
         Covers(update.damage, shown, update.frame.pixels)
  PROVE  Repainted(shown, update) = update.frame.pixels
<1>1. update.frame.pixels \in Seq(Int)
  BY DEF UpdateType, Image
<1>2. DOMAIN update.frame.pixels = 1 .. Len(update.frame.pixels) /\ DOMAIN shown = 1 .. Len(shown)
  BY <1>1
<1> DEFINE pixels == update.frame.pixels
<1>3. \A c \in DOMAIN pixels : pixels[c] = IF c \in update.damage THEN pixels[c]
                                           ELSE IF c \in DOMAIN shown THEN shown[c] ELSE -2
  BY <1>2 DEF Covers
<1>4. Repainted(shown, update) = [c \in DOMAIN pixels |-> pixels[c]]
  BY <1>3 DEF Repainted
<1> QED
  BY <1>1, <1>4

----------------------------------------------------------------------------
(* Records *)

LEMMA NoImageFacts == NoImage \in Image /\ NoImage.pixels = <<>> /\ Len(NoImage.pixels) = 0
                      /\ NoImage.size = 0
BY DEF NoImage, Image

LEMMA ImageFields ==
  ASSUME NEW i \in Image
  PROVE  i.pixels \in Seq(Int) /\ i.size \in Nat /\ Len(i.pixels) \in Nat
BY DEF Image

LEMMA MainFields ==
  ASSUME main \in MainType
  PROVE  /\ main.at \in Steps /\ main.inUpdate \in BOOLEAN /\ main.damage \in SUBSET Nat
         /\ main.cursor \in Seq(Int) /\ main.cursorChanged \in BOOLEAN /\ main.retry \in BOOLEAN
         /\ main.out \in SUBSET Nat /\ main.left \in SUBSET Views /\ main.ok \in BOOLEAN
BY DEF MainType

LEMMA PublisherFields ==
  ASSUME publisher \in PublisherType
  PROVE  /\ publisher.generation \in Nat /\ publisher.size \in Nat /\ publisher.sequence \in Nat
         /\ publisher.latest \in Image /\ publisher.cursor \in Image
         /\ publisher.skipped \in SUBSET Nat /\ publisher.skippedResize \in BOOLEAN
BY DEF PublisherType

LEMMA UpdateFields ==
  ASSUME NEW u \in UpdateType
  PROVE  /\ u.generation \in Nat /\ u.frameChanged \in BOOLEAN /\ u.cursorChanged \in BOOLEAN
         /\ u.frame \in Image /\ u.cursor \in Image /\ u.damage \in SUBSET Nat
BY DEF UpdateType

LEMMA ViewFields ==
  ASSUME NEW w \in ViewType
  PROVE  /\ w.open \in BOOLEAN /\ w.generation \in Nat /\ w.frame \in Image /\ w.cursor \in Image
         /\ w.shown \in Seq(Int)
BY DEF ViewType

LEMMA Empties == EmptyUpdate \in UpdateType /\ NoView \in ViewType
BY NoImageFacts DEF EmptyUpdate, UpdateType, NoView, ViewType

----------------------------------------------------------------------------
(* Steps that leave the publisher alone *)

LEMMA Quietly ==
  ASSUME PublicationInv, UNCHANGED publisherVars, main' \in MainType,
         main.at # "deliver", main'.at # "deliver", DamageKnown', Tracked'
  PROVE  PublicationInv'
<1>1. PublicationTypeOK' /\ Sized' /\ Delivering'
  BY DEF PublicationInv, publisherVars, PublicationTypeOK, Sized, Delivering
<1>2. ViewsKnown'
  BY DEF PublicationInv, publisherVars, ViewsKnown, ViewKnown, InTime, Held
<1> QED
  BY <1>1, <1>2 DEF PublicationInv

\* The picture and its damage stay, and nothing is queued.
LEMMA SamePicture ==
  ASSUME PublicationInv, UNCHANGED <<publisherVars, fb>>, main' \in MainType,
         main.at # "deliver", main'.at # "deliver", main'.damage = main.damage, Ending => Ending',
         \A e \in Queued' : \E f \in Queued : e.kind = f.kind
  PROVE  PublicationInv'
<1>1. DamageKnown'
  <2>1. ~Ending' => \A e \in Queued' : e.kind.writes \subseteq main.damage
    BY DEF PublicationInv, DamageKnown
  <2> QED
    BY <2>1 DEF PublicationInv, DamageKnown, publisherVars
<1>2. Tracked'
  BY DEF PublicationInv, Tracked, publisherVars
<1> QED
  BY <1>1, <1>2, Quietly DEF publisherVars

\* A decoder thread's step has main unchanged, also while frames are delivered.
LEMMA DecodersQuietly ==
  ASSUME PublicationInv, UNCHANGED <<publisherVars, main>>, DamageKnown', Tracked'
  PROVE  PublicationInv'
<1>1. PublicationTypeOK' /\ Sized' /\ Delivering'
  BY DEF PublicationInv, publisherVars, PublicationTypeOK, Sized, Delivering
<1>2. ViewsKnown'
  BY DEF PublicationInv, publisherVars, ViewsKnown, ViewKnown, InTime, Held
<1> QED
  BY <1>1, <1>2 DEF PublicationInv

LEMMA LookPublishes ==
  ASSUME PublicationInv, UNCHANGED <<publisherVars, main, fb>>,
         \A e \in Queued' : \E f \in Queued : e.kind = f.kind
  PROVE  PublicationInv'
<1>1. DamageKnown'
  <2>1. ~Ending => \A e \in Queued' : e.kind.writes \subseteq main.damage
    BY DEF PublicationInv, DamageKnown
  <2> QED
    BY <2>1 DEF PublicationInv, DamageKnown, publisherVars, Ending
<1>2. Tracked'
  BY DEF PublicationInv, Tracked, publisherVars, Ending
<1> QED
  BY <1>1, <1>2, DecodersQuietly DEF publisherVars

LEMMA DecodersPublish ==
  ASSUME DecodeInv, PublicationInv, Decoders
  PROVE  PublicationInv'
<1>0. DecodeTypeOK /\ InOrder /\ Assigned /\ Phases
  BY DEF DecodeInv
<1>1. PICK t \in Threads : Look(t) \/ Decode(t) \/ Return(t) \/ DecodeFails(t) \/ WakeSpuriously(t)
  BY DEF Decoders, DecodeNext, DecodeThread
<1>2. UNCHANGED <<publisherVars, main>>
  BY DEF Decoders
<1>3. ASSUME UNCHANGED <<workQueue, fb>> PROVE PublicationInv'
  BY <1>2, <1>3, LookPublishes DEF Queued
<1>4. CASE Look(t)
  <2>1. fb' = fb
    BY <1>4 DEF Look
  <2>2. CASE workQueue' = workQueue
    BY <1>3, <2>1, <2>2
  <2>3. CASE FindEntry # 0 /\ workQueue' = [workQueue EXCEPT ![FindEntry].active = TRUE]
    <3>1. /\ workQueue \in Seq(Entry) /\ \A i \in 1 .. Len(workQueue) : workQueue[i] \in Entry
          /\ FindEntry \in 1 .. Len(workQueue)
      BY <1>0, <2>3, FindEntryFacts DEF DecodeTypeOK
    <3>2. Len(workQueue') = Len(workQueue) /\ \A i \in 1 .. Len(workQueue) : workQueue'[i].kind = workQueue[i].kind
      BY <2>3, <3>1 DEF Entry
    <3>3. \A e \in Queued' : \E f \in Queued : e.kind = f.kind
      BY <3>2 DEF Queued
    <3> QED
      BY <1>2, <2>1, <3>3, LookPublishes
  <2> QED
    BY <1>4, <2>2, <2>3 DEF Look
<1>5. CASE Return(t)
  <2>1. fb' = fb /\ workQueue' = RemoveAt(workQueue, Position(t)) /\ thread[t].at = "return"
    BY <1>5 DEF Return
  <2>2. workQueue \in Seq(Entry) /\ Position(t) \in 1 .. Len(workQueue)
    BY <1>0, <2>1, PositionFacts DEF DecodeTypeOK, Busy
  <2> DEFINE k == Position(t)
  <2>3. /\ Len(workQueue') = Len(workQueue) - 1 /\ Len(workQueue) \in Nat
        /\ \A i \in 1 .. Len(workQueue) - 1 : workQueue'[i] = IF i < k THEN workQueue[i] ELSE workQueue[i + 1]
    <3> HIDE DEF k
    <3>1. workQueue \in Seq(Entry) /\ k \in 1 .. Len(workQueue) /\ workQueue' = RemoveAt(workQueue, k)
      BY <2>1, <2>2 DEF k
    <3>2. Len(workQueue) \in Nat
      BY <3>1
    <3>3. /\ Len(RemoveAt(workQueue, k)) = Len(workQueue) - 1
          /\ \A i \in 1 .. Len(workQueue) - 1 :
               RemoveAt(workQueue, k)[i] = IF i < k THEN workQueue[i] ELSE workQueue[i + 1]
      BY ONLY <3>1, Removed
    <3> QED
      BY <3>1, <3>2, <3>3
  <2>4. ASSUME NEW e \in Queued' PROVE e \in Queued
    <3>1. PICK i \in 1 .. Len(workQueue) - 1 : e = workQueue'[i]
      BY <2>3 DEF Queued
    <3>2. i \in 1 .. Len(workQueue) /\ i + 1 \in 1 .. Len(workQueue)
      BY <2>3
    <3> QED
      BY <2>3, <3>1, <3>2 DEF Queued
  <2> QED
    BY <1>2, <2>1, <2>4, LookPublishes
<1>6. CASE Decode(t)
  <2> DEFINE e == workQueue[Position(t)]
  <2>1. /\ workQueue' = workQueue /\ thread[t].at = "decode"
        /\ fb' = [c \in DOMAIN fb |-> IF c \in e.kind.writes THEN thread[t].value ELSE fb[c]]
    BY <1>6 DEF Decode
  <2>2. e \in Queued
    BY <1>0, <2>1, PositionFacts DEF Busy
  <2> HIDE DEF e
  <2>3. fb \in Seq(Int) /\ DOMAIN fb = 1 .. Len(fb) /\ Len(fb) \in Nat
    BY <1>0 DEF DecodeTypeOK
  <2>4. Len(fb') = Len(fb) /\ \A c \in 1 .. Len(fb) : c \notin e.kind.writes => fb'[c] = fb[c]
    BY <2>1, <2>3
  <2>5. Queued' = Queued
    BY <2>1 DEF Queued
  <2>6. DamageKnown'
    BY <1>2, <2>4, <2>5 DEF PublicationInv, DamageKnown, publisherVars, Ending
  <2>7. Tracked'
    <3>1. ~Ending => e.kind.writes \subseteq main.damage
      BY <2>2 DEF PublicationInv, DamageKnown
    <3> QED
      BY <1>2, <2>4, <3>1 DEF PublicationInv, Tracked, publisherVars, Ending
  <2> QED
    BY <1>2, <2>6, <2>7, DecodersQuietly
<1>7. CASE DecodeFails(t)
  BY <1>3, <1>7 DEF DecodeFails
<1>8. CASE WakeSpuriously(t)
  BY <1>3, <1>8 DEF WakeSpuriously
<1> QED
  BY <1>1, <1>4, <1>5, <1>6, <1>7, <1>8

----------------------------------------------------------------------------
(* The server's messages and the end of an attempt *)

LEMMA ServerPublishes ==
  ASSUME DecodeInv, PublicationInv, Server
  PROVE  PublicationInv'
<1>0. main \in MainType /\ DecodeTypeOK /\ DamageKnown
  BY DEF PublicationInv, PublicationTypeOK, DecodeInv
<1>1. UNCHANGED publisherVars /\ main.at = "idle"
  BY DEF Server, UpdateStart, RectStart, RectEnd, Resize, SetCursor, UpdateEnd, Reading, Idle
<1>2. ASSUME UNCHANGED <<workQueue, fb>>, main' \in MainType, main'.at \in {"idle", "publish"},
             main'.damage = main.damage
      PROVE  PublicationInv'
  BY <1>1, <1>2, SamePicture DEF Queued, Ending
<1>3. CASE UpdateStart
  <2>1. main' \in MainType /\ main'.at = "idle" /\ main'.damage = main.damage
    BY <1>0, <1>3 DEF UpdateStart, Idle, MainType
  <2> QED
    BY <1>2, <1>3, <2>1 DEF UpdateStart, decodeVars
<1>4. CASE SetCursor
  <2>1. PICK shape \in {<<>>, <<bound.cursors + 1>>} :
          main' = [main EXCEPT !.cursor = shape, !.cursorChanged = TRUE]
    BY <1>4 DEF SetCursor
  <2>2. shape \in Seq(Int)
    <3>1. bound.cursors + 1 \in Int
      BY <1>0 DEF DecodeTypeOK
    <3>2. ASSUME NEW n \in Int PROVE <<n>> \in Seq(Int) /\ <<>> \in Seq(Int)
      OBVIOUS
    <3> QED
      BY <3>1, <3>2
  <2>3. main' \in MainType /\ main'.at = main.at /\ main'.damage = main.damage
    BY <1>0, <2>1, <2>2 DEF MainType
  <2> QED
    BY <1>1, <1>2, <1>4, <2>3 DEF SetCursor, decodeVars
<1>5. CASE UpdateEnd
  <2>1. main' \in MainType /\ main'.at = "publish" /\ main'.damage = main.damage
    BY <1>0, <1>5 DEF UpdateEnd, MainType, Steps
  <2> QED
    BY <1>2, <1>5, <2>1 DEF UpdateEnd, decodeVars
<1>6. CASE RectStart
  BY <1>0, <1>1, <1>2, <1>6 DEF RectStart, BeginRect
<1>7. CASE RectEnd
  <2> DEFINE e == partialEntry
             damage == Unite(main.damage, e.kind.writes)
  <2>1. e # NoEntry /\ workQueue' = Append(workQueue, e) /\ fb' = fb /\ main' = [main EXCEPT !.damage = damage]
    BY <1>7 DEF RectEnd, QueueRect
  <2>2. e \in Entry /\ workQueue \in Seq(Entry) /\ Len(fb) \in Nat /\ Affected(e.kind) \subseteq 1 .. Len(fb)
    BY <1>1, <2>1 DEF DecodeInv, DecodeTypeOK, PartialKnown, Deleted
  <2>3. main.damage \in SUBSET (1 .. Len(fb)) /\ e.kind.writes \in SUBSET (1 .. Len(fb))
    BY <1>0, <1>1, <2>2 DEF DamageKnown, Ending, Affected
  <2> HIDE DEF e
  <2>4. damage \in SUBSET (1 .. Len(fb)) /\ main.damage \subseteq damage /\ e.kind.writes \subseteq damage
    <3> DEFINE n == Len(fb)
               a == main.damage
               b == e.kind.writes
    <3>1. n \in Nat /\ a \in SUBSET (1 .. n) /\ b \in SUBSET (1 .. n)
      BY <2>2, <2>3
    <3> HIDE DEF n, a, b
    <3>2. Unite(a, b) \in SUBSET (1 .. n) /\ a \subseteq Unite(a, b) /\ b \subseteq Unite(a, b)
      BY <3>1, UniteFacts
    <3> QED
      BY <3>2 DEF n, a, b
  <2> HIDE DEF damage
  <2>5. main' \in MainType /\ main'.at = main.at /\ main'.damage = damage
    <3>1. damage \in SUBSET Nat
      BY <2>2, <2>4
    <3> QED
      BY <1>0, <2>1, <3>1 DEF MainType
  <2>6. Queued' = Queued \cup {e}
    <3>1. Len(workQueue') = Len(workQueue) + 1 /\ Len(workQueue) \in Nat
          /\ (\A i \in 1 .. Len(workQueue) : workQueue'[i] = workQueue[i]) /\ workQueue'[Len(workQueue) + 1] = e
      BY <2>1, <2>2
    <3>2. 1 .. Len(workQueue') = (1 .. Len(workQueue)) \cup {Len(workQueue) + 1}
      BY <3>1
    <3> QED
      BY <3>1, <3>2 DEF Queued
  <2>7. DamageKnown'
    BY <1>0, <1>1, <2>1, <2>4, <2>5, <2>6 DEF DamageKnown, publisherVars, Ending
  <2>8. Tracked'
    BY <1>1, <2>1, <2>4, <2>5 DEF PublicationInv, Tracked, publisherVars, Ending
  <2> QED
    BY <1>1, <2>5, <2>7, <2>8, Quietly
<1>8. ASSUME NEW w \in Widths, Resize(w) PROVE PublicationInv'
  <2>1. w \in Nat \ {0}
    BY FramePathAssumption
  <2>2. /\ workQueue' = <<>> /\ main' = [main EXCEPT !.damage = 1 .. w]
        /\ fb' = [c \in 1 .. w |-> IF c \in DOMAIN fb THEN fb[c] ELSE Black]
    BY <1>8 DEF Resize, Flushed
  <2>3. Len(fb') = w
    BY <2>1, <2>2
  <2>4. main' \in MainType /\ main'.at = main.at /\ main'.damage = 1 .. w
    <3>1. 1 .. w \in SUBSET Nat
      BY <2>1
    <3> QED
      BY <1>0, <2>2, <3>1 DEF MainType
  <2>5. DamageKnown'
    <3>1. Queued' = {}
      BY <2>2 DEF Queued
    <3> QED
      BY <1>0, <1>1, <2>3, <2>4, <3>1 DEF DamageKnown, publisherVars
  <2>6. Tracked'
    BY <2>3, <2>4 DEF Tracked
  <2> QED
    BY <1>1, <2>4, <2>5, <2>6, Quietly
<1> QED
  BY <1>3, <1>4, <1>5, <1>6, <1>7, <1>8 DEF Server

LEMMA EndingPublishes ==
  ASSUME PublicationInv, UNCHANGED publisherVars, main.at # "deliver", main' \in MainType, Ending'
  PROVE  PublicationInv'
<1>1. main'.at # "deliver"
  BY DEF Ending
<1>2. DamageKnown' /\ Tracked'
  BY DEF PublicationInv, DamageKnown, Tracked, publisherVars
<1> QED
  BY <1>1, <1>2, Quietly

LEMMA BeginningPublishes ==
  ASSUME PublicationInv, UNCHANGED publisherVars, main.at # "deliver", NEW w \in Widths,
         main' = Fresh(w), fb' = Blank(w), workQueue' = <<>>
  PROVE  PublicationInv'
<1>1. w \in Nat \ {0}
  BY FramePathAssumption
<1>2. main' \in MainType /\ main'.at = "publish" /\ main'.damage = 1 .. w
  <2>1. 1 .. w \in SUBSET Nat
    BY <1>1
  <2> QED
    BY <2>1 DEF Fresh, MainType, Steps
<1>3. Len(fb') = w
  BY <1>1 DEF Blank
<1>4. DamageKnown' /\ Tracked'
  BY <1>2, <1>3 DEF PublicationInv, DamageKnown, Tracked, publisherVars, Queued
<1> QED
  BY <1>2, <1>4, Quietly

----------------------------------------------------------------------------
(* Publication *)

LEMMA PublishFramePublishes ==
  ASSUME DecodeInv, PublicationInv, PublishFrame
  PROVE  PublicationInv'
<1>0. /\ PublicationTypeOK /\ DamageKnown /\ Tracked /\ Sized /\ ViewsKnown
      /\ main \in MainType /\ publisher \in PublisherType
  BY DEF PublicationInv, PublicationTypeOK
<1> DEFINE p == Remembered(fb, main.damage)
           n == Len(fb)
           latest == publisher.latest
           resize == publisher.skippedResize = TRUE \/ Len(latest.pixels) # n
<1>1. /\ main.at = "publish" /\ UNCHANGED <<fb, workQueue, mailbox, view>>
      /\ \/ /\ main.damage = {}
            /\ main' = [main EXCEPT !.at = "cursor", !.ok = TRUE] /\ UNCHANGED publisher
         \/ /\ HasRoom(fb) /\ publisher' = WithFrame(p, fb)
            /\ main' = [main EXCEPT !.at = "deliver", !.ok = TRUE, !.damage = {}, !.left = Open,
                                    !.out = FrameDamage(p, fb)]
         \/ /\ publisher' = p /\ main' = [main EXCEPT !.at = "cursor", !.ok = FALSE]
  BY DEF PublishFrame, decodeVars
<1>2. fb \in Seq(Int) /\ n \in Nat /\ fb # <<>> /\ n > 0 /\ workQueue = <<>> /\ Queued = {}
  <2>1. fb \in Seq(Int) /\ fb # <<>> /\ workQueue = <<>>
    BY <1>1 DEF DecodeInv, DecodeTypeOK, Phases, Deleted
  <2> QED
    BY <2>1, EmptySeq DEF Queued
<1>3. /\ publisher.size \in Nat /\ publisher.sequence \in Nat /\ latest \in Image
      /\ publisher.skipped \in SUBSET Nat /\ publisher.skippedResize \in BOOLEAN
      /\ latest.pixels \in Seq(Int) /\ Len(latest.pixels) \in Nat /\ latest.size \in Nat
  BY <1>0, PublisherFields, ImageFields
<1>4. main.damage \in SUBSET (1 .. n) /\ publisher.skipped \in SUBSET (1 .. Len(latest.pixels))
  BY <1>0, <1>1 DEF DamageKnown, Ending, Columns
<1> DEFINE skipped == IF resize THEN publisher.skipped ELSE Unite(publisher.skipped, main.damage)
<1>5. p = [publisher EXCEPT !.skippedResize = resize, !.skipped = skipped]
  BY <1>3 DEF Remembered, Resized
<1>6. ~resize => skipped \in SUBSET (1 .. n) /\ publisher.skipped \subseteq skipped /\ main.damage \subseteq skipped
  <2>1. ASSUME ~resize PROVE publisher.skipped \in SUBSET (1 .. n) /\ skipped = Unite(publisher.skipped, main.damage)
    BY <1>4, <2>1
  <2> DEFINE a == publisher.skipped
             b == main.damage
  <2> HIDE DEF n, a, b, resize
  <2>2. ASSUME ~resize
        PROVE  Unite(a, b) \in SUBSET (1 .. n) /\ a \subseteq Unite(a, b) /\ b \subseteq Unite(a, b)
    <3>1. n \in Nat /\ a \in SUBSET (1 .. n) /\ b \in SUBSET (1 .. n)
      BY <1>2, <1>4, <2>1, <2>2 DEF a, b
    <3> QED
      BY <3>1, UniteFacts
  <2> QED
    BY <2>1, <2>2 DEF a, b
<1>7. skipped \in SUBSET Nat /\ (resize => skipped = publisher.skipped) /\ resize \in BOOLEAN
  BY <1>2, <1>3, <1>6
<1> HIDE DEF resize, skipped
<1>8. /\ p \in PublisherType /\ p.latest = latest /\ p.size = publisher.size /\ p.sequence = publisher.sequence
      /\ p.skipped = skipped /\ p.skippedResize = resize
  BY <1>0, <1>5, <1>7 DEF PublisherType
<1> HIDE DEF p, latest, n
<1>9. CASE main.damage = {} /\ main' = [main EXCEPT !.at = "cursor", !.ok = TRUE] /\ UNCHANGED publisher
  <2>1. main' \in MainType /\ main'.at = "cursor" /\ main'.damage = main.damage
    BY <1>0, <1>9 DEF MainType, Steps
  <2> QED
    BY <1>1, <1>9, <2>1, SamePicture DEF publisherVars, Queued, Ending
<1>10. CASE publisher' = p /\ main' = [main EXCEPT !.at = "cursor", !.ok = FALSE]
  <2>1. main' \in MainType /\ main'.at = "cursor" /\ main'.damage = main.damage
    BY <1>0, <1>10 DEF MainType, Steps
  <2>2. PublicationTypeOK' /\ Sized' /\ Delivering'
    BY <1>0, <1>1, <1>8, <1>10, <2>1 DEF PublicationTypeOK, Sized, Delivering, latest
  <2>3. DamageKnown'
    <3>1. skipped \subseteq 1 .. Len(latest.pixels)
      BY <1>4, <1>6, <1>7 DEF resize
    <3>2. Queued' = {}
      BY <1>1, <1>2 DEF Queued
    <3> QED
      BY <1>0, <1>1, <1>4, <1>8, <1>10, <2>1, <3>1, <3>2 DEF DamageKnown, Columns, latest, n
  <2>4. Tracked'
    <3> SUFFICES ASSUME ~resize, Len(latest.pixels) = n, NEW c \in 1 .. n
                 PROVE  c \in main.damage \/ c \in skipped \/ fb[c] = latest.pixels[c]
      BY <1>1, <1>8, <1>10, <2>1 DEF Tracked, latest, n
    <3>1. publisher.skippedResize = FALSE
      BY <1>3 DEF resize
    <3> QED
      BY <1>0, <1>1, <1>6, <3>1 DEF Tracked, Ending, latest, n
  <2>5. ViewsKnown'
    BY <1>0, <1>1, <1>8, <1>10, <2>1 DEF ViewsKnown, ViewKnown, InTime, Held, latest
  <2> QED
    BY <2>2, <2>3, <2>4, <2>5 DEF PublicationInv
<1>11. CASE /\ publisher' = WithFrame(p, fb)
            /\ main' = [main EXCEPT !.at = "deliver", !.ok = TRUE, !.damage = {}, !.left = Open,
                                    !.out = FrameDamage(p, fb)]
  <2> DEFINE size == IF Len(latest.pixels) # n THEN publisher.size + 1 ELSE publisher.size
             image == [pixels |-> fb, sequence |-> publisher.sequence + 1, size |-> size]
             out == IF resize THEN 1 .. n ELSE skipped
  <2>1. size \in Nat /\ publisher.sequence + 1 \in Nat
    BY <1>3
  <2>2. publisher' = [p EXCEPT !.size = size, !.sequence = publisher.sequence + 1, !.latest = image,
                               !.skipped = {}, !.skippedResize = FALSE]
    BY <1>8, <1>11 DEF WithFrame, Resized, latest, n
  <2>3. FrameDamage(p, fb) = out
    BY <1>2, <1>8 DEF FrameDamage, Whole, n
  <2>4. out \in SUBSET (1 .. n) /\ out \in SUBSET Nat
    BY <1>2, <1>6
  <2>5. Len(latest.pixels) # n => latest.size # size
    <3>1. publisher.size + 1 # 0 /\ publisher.size + 1 # publisher.size
      BY <1>3
    <3> QED
      BY <1>0, <3>1, NoImageFacts DEF Sized, latest
  <2>6. Covers(out, latest.pixels, fb)
    <3>1. CASE resize
      BY <1>2, <3>1, CoversAll DEF n
    <3>2. CASE ~resize
      <4>1. publisher.skippedResize = FALSE /\ Len(latest.pixels) = n
        BY <1>3, <3>2 DEF resize
      <4>2. \A c \in 1 .. n : c \in skipped \/ fb[c] = latest.pixels[c]
        BY <1>0, <1>1, <1>6, <3>2, <4>1 DEF Tracked, Ending, latest, n
      <4> QED
        BY <3>2, <4>1, <4>2 DEF Covers, n
    <3> QED
      BY <3>1, <3>2
  <2> HIDE DEF size, out
  <2>7. image \in Image /\ image.pixels = fb /\ image.size = size
    BY <1>2, <2>1 DEF Image
  <2> HIDE DEF image
  <2>8. /\ publisher' \in PublisherType /\ publisher'.latest = image /\ publisher'.size = size
        /\ publisher'.skipped = {} /\ publisher'.skippedResize = FALSE
    BY <1>8, <2>1, <2>2, <2>7 DEF PublisherType
  <2>9. /\ main' \in MainType /\ main'.at = "deliver" /\ main'.damage = {} /\ main'.out = out
        /\ main'.left = Open
    <3>1. Open \in SUBSET Views
      BY DEF Open
    <3> QED
      BY <1>0, <1>11, <2>3, <2>4, <3>1 DEF MainType, Steps
  <2>10. PublicationTypeOK'
    BY <1>0, <1>1, <2>8, <2>9 DEF PublicationTypeOK
  <2>11. DamageKnown'
    BY <1>1, <1>2, <2>8, <2>9 DEF DamageKnown, Queued
  <2>12. Tracked'
    BY <1>1, <2>7, <2>8 DEF Tracked
  <2>13. Sized' /\ Delivering'
    BY <1>2, <2>4, <2>7, <2>8, <2>9 DEF Sized, Delivering, Columns, n
  <2>14. ViewsKnown'
    <3> SUFFICES ASSUME NEW v \in Views, view[v].open = TRUE PROVE ViewKnown(v)'
      BY <1>1 DEF ViewsKnown
    <3>1. ViewKnown(v) /\ Held(v) = latest
      BY <1>0, <1>1 DEF ViewsKnown, ViewKnown, InTime, latest
    <3>2. Held(v)' = latest
      BY <1>1, <3>1 DEF Held
    <3>3. v \in Open
      BY DEF Open
    <3>4. InTime(v)'
      BY <2>5, <2>6, <2>7, <2>8, <2>9, <3>2, <3>3 DEF InTime, n
    <3> QED
      BY <1>1, <3>1, <3>4 DEF ViewKnown
  <2> QED
    BY <2>10, <2>11, <2>12, <2>13, <2>14 DEF PublicationInv
<1> QED
  BY <1>1, <1>9, <1>10, <1>11

\* What a view's mailbox holds after a delivery covers what both deliveries brought.
LEMMA DeliveryCovers ==
  ASSUME PublicationInv, main.at = "deliver", NEW v \in main.left, view[v].open = TRUE,
         NEW u, u = Delivered(mailbox[v], main.out)
  PROVE  /\ u \in UpdateType /\ u.frameChanged = TRUE /\ u.frame = publisher.latest
         /\ u.damage \subseteq Columns(publisher.latest)
         /\ Covers(u.damage, view[v].shown, publisher.latest.pixels)
<1> DEFINE old == mailbox[v]
           latest == publisher.latest
           out == main.out
           n == Len(latest.pixels)
           shown == view[v].shown
<1>0. /\ main \in MainType /\ publisher \in PublisherType /\ mailbox \in [Views -> UpdateType]
      /\ view \in [Views -> ViewType] /\ v \in Views
  BY MainFields DEF PublicationInv, PublicationTypeOK
<1>1. /\ old \in UpdateType /\ latest \in Image /\ publisher.generation \in Nat /\ latest.pixels \in Seq(Int)
      /\ n \in Nat /\ view[v].frame \in Image /\ old.frame \in Image /\ old.frameChanged \in BOOLEAN
      /\ Len(old.frame.pixels) \in Nat
  BY <1>0, PublisherFields, ImageFields, UpdateFields, ViewFields
<1>2. out \in SUBSET (1 .. n) /\ Whole(latest.pixels) = 1 .. n
  BY <1>1 DEF PublicationInv, Delivering, Columns, Whole
<1>3. /\ shown = view[v].frame.pixels /\ old.damage \subseteq 1 .. Len(old.frame.pixels)
      /\ old.frameChanged = TRUE => Covers(old.damage, shown, old.frame.pixels)
  BY <1>0 DEF PublicationInv, ViewsKnown, ViewKnown, Columns
<1>4. /\ Held(v).size = latest.size => Len(Held(v).pixels) = n
      /\ Covers(out, Held(v).pixels, latest.pixels)
  BY <1>0 DEF PublicationInv, ViewsKnown, ViewKnown, InTime
<1> DEFINE pending == old.frameChanged = TRUE /\ old.frame # NoImage
           total == IF ~pending THEN out
                    ELSE IF old.frame.size = latest.size THEN Unite(old.damage, out)
                    ELSE 1 .. n
<1>5. u = [old EXCEPT !.generation = publisher.generation, !.frameChanged = TRUE, !.frame = latest,
                      !.damage = total]
  BY <1>1, <1>2 DEF Delivered
<1>6. total \in SUBSET (1 .. n) /\ Covers(total, shown, latest.pixels)
  <2>1. CASE old.frameChanged = FALSE
    BY <1>2, <1>3, <1>4, <2>1 DEF Held
  <2>2. CASE old.frameChanged = TRUE /\ old.frame = NoImage
    <3>1. Covers(out, <<>>, latest.pixels) /\ Len(<<>>) = 0
      BY <1>4, <2>2, NoImageFacts DEF Held
    <3>2. \A c \in 1 .. n : c \in out
      BY <3>1 DEF Covers
    <3> QED
      BY <1>2, <2>2, <3>2 DEF Covers
  <2>3. CASE pending /\ old.frame.size = latest.size
    <3>1. Len(old.frame.pixels) = n /\ Covers(out, old.frame.pixels, latest.pixels)
      BY <1>4, <2>3 DEF Held
    <3>2. total = Unite(old.damage, out) /\ old.damage \in SUBSET (1 .. n)
      BY <1>3, <2>3, <3>1
    <3> DEFINE a == old.damage
    <3>3. Unite(a, out) \in SUBSET (1 .. n) /\ a \subseteq Unite(a, out) /\ out \subseteq Unite(a, out)
      <4>1. n \in Nat /\ a \in SUBSET (1 .. n) /\ out \in SUBSET (1 .. n)
        BY <1>1, <1>2, <3>2
      <4> HIDE DEF n, a, out
      <4> QED
        BY <4>1, UniteFacts
    <3>4. Covers(a, shown, old.frame.pixels)
      BY <1>3, <2>3
    <3> DEFINE mid == old.frame.pixels
               new == latest.pixels
               d == Unite(a, out)
    <3>5. Covers(a, shown, mid) /\ Covers(out, mid, new) /\ Len(mid) = Len(new) /\ a \subseteq d /\ out \subseteq d
      BY <3>1, <3>3, <3>4
    <3>6. Covers(d, shown, new)
      <4> HIDE DEF mid, new, d, a, out, shown, total, pending
      <4> QED
        BY <3>5, CoversNext
    <3> QED
      BY <3>2, <3>3, <3>6
  <2>4. CASE pending /\ old.frame.size # latest.size
    BY <1>1, <2>4, CoversAll
  <2> QED
    BY <1>1, <2>1, <2>2, <2>3, <2>4
<1>7. total \in SUBSET Nat
  BY <1>1, <1>6
<1> HIDE DEF total
<1>8. u \in UpdateType /\ u.frameChanged = TRUE /\ u.frame = latest /\ u.damage = total
  BY <1>1, <1>5, <1>7 DEF UpdateType
<1> QED
  BY <1>6, <1>8 DEF Columns

LEMMA DeliverToViewPublishes ==
  ASSUME PublicationInv, DeliverToView
  PROVE  PublicationInv'
<1>0. /\ PublicationTypeOK /\ DamageKnown /\ Tracked /\ Sized /\ Delivering /\ ViewsKnown
      /\ main \in MainType /\ publisher \in PublisherType /\ mailbox \in [Views -> UpdateType]
  BY DEF PublicationInv, PublicationTypeOK
<1>1. main.at = "deliver" /\ UNCHANGED <<fb, workQueue, publisher, view>>
  BY DEF DeliverToView, decodeVars
<1>2. ASSUME main'.at \in {"deliver", "cursor"}, main'.damage = main.damage
      PROVE  DamageKnown' /\ Tracked' /\ Sized'
  BY <1>0, <1>1, <1>2 DEF DamageKnown, Tracked, Sized, Ending, Queued, Columns
<1>3. CASE main.left = {} /\ main' = [main EXCEPT !.at = "cursor", !.out = {}] /\ UNCHANGED mailbox
  <2>1. main' \in MainType /\ main'.at = "cursor" /\ main'.damage = main.damage
    BY <1>0, <1>3 DEF MainType, Steps
  <2>2. PublicationTypeOK' /\ Delivering'
    BY <1>0, <1>1, <1>3, <2>1 DEF PublicationTypeOK, Delivering
  <2>3. ViewsKnown'
    BY <1>0, <1>1, <1>3, <2>1 DEF ViewsKnown, ViewKnown, InTime, Held
  <2> QED
    BY <1>2, <2>1, <2>2, <2>3 DEF PublicationInv
<1>4. ASSUME NEW v \in main.left, DeliverFrame(v, main.out), main' = [main EXCEPT !.left = @ \ {v}]
      PROVE  PublicationInv'
  <2>0. v \in Views
    BY <1>0, MainFields
  <2>1. /\ main' \in MainType /\ main'.at = "deliver" /\ main'.damage = main.damage
        /\ main'.out = main.out /\ main'.left = main.left \ {v}
    BY <1>0, <1>1, <1>4 DEF MainType
  <2>2. ASSUME NEW w \in Views, w # v, view[w].open = TRUE PROVE ViewKnown(w)'
    <3>1. mailbox'[w] = mailbox[w] /\ (w \in main'.left <=> w \in main.left)
      BY <1>0, <1>4, <2>1, <2>2 DEF DeliverFrame
    <3>2. ViewKnown(w)
      BY <1>0, <2>2 DEF ViewsKnown
    <3> QED
      BY <1>1, <2>1, <3>1, <3>2 DEF ViewKnown, InTime, Held
  <2>3. CASE v \notin Open
    <3>1. mailbox' = mailbox
      BY <1>0, <1>4, <2>3 DEF DeliverFrame
    <3>2. view[v].open # TRUE
      BY <2>0, <2>3 DEF Open
    <3>3. PublicationTypeOK' /\ Delivering'
      BY <1>0, <1>1, <2>1, <3>1 DEF PublicationTypeOK, Delivering
    <3>4. ViewsKnown'
      BY <1>1, <2>2, <3>2 DEF ViewsKnown
    <3> QED
      BY <1>2, <2>1, <3>3, <3>4 DEF PublicationInv
  <2>4. CASE v \in Open
    <3> DEFINE u == Delivered(mailbox[v], main.out)
    <3>1. view[v].open = TRUE
      <4>1. view[v].open \in BOOLEAN
        BY <1>0, <2>0, ViewFields DEF PublicationTypeOK
      <4> QED
        BY <2>4, <4>1 DEF Open
    <3>2. mailbox' = [mailbox EXCEPT ![v] = u]
      BY <1>4, <2>4 DEF DeliverFrame
    <3>3. /\ u \in UpdateType /\ u.frameChanged = TRUE /\ u.frame = publisher.latest
          /\ u.damage \subseteq Columns(publisher.latest)
          /\ Covers(u.damage, view[v].shown, publisher.latest.pixels)
      BY <1>1, <3>1, DeliveryCovers
    <3> HIDE DEF u
    <3>4. mailbox' \in [Views -> UpdateType] /\ mailbox'[v] = u
      BY <1>0, <2>0, <3>2, <3>3
    <3>5. PublicationTypeOK' /\ Delivering'
      BY <1>0, <1>1, <2>1, <3>4 DEF PublicationTypeOK, Delivering, Columns
    <3>6. ViewKnown(v)'
      <4>1. ViewKnown(v)
        BY <1>0, <2>0, <3>1 DEF ViewsKnown
      <4>2. Held(v)' = publisher.latest
        BY <3>3, <3>4 DEF Held
      <4> QED
        BY <1>1, <2>1, <3>3, <3>4, <4>1, <4>2 DEF ViewKnown, InTime
    <3>7. ViewsKnown'
      BY <1>1, <2>2, <3>6 DEF ViewsKnown
    <3> QED
      BY <1>2, <2>1, <3>5, <3>7 DEF PublicationInv
  <2> QED
    BY <2>3, <2>4
<1> QED
  BY <1>3, <1>4 DEF DeliverToView

\* A step that touches only the cursor's part of the mailboxes and of the publisher.
LEMMA CursorOnly ==
  ASSUME PublicationInv, main.at = "cursor", main' \in MainType, main'.at = "idle",
         main'.damage = main.damage, UNCHANGED <<fb, workQueue, view>>,
         publisher' \in PublisherType, publisher'.latest = publisher.latest,
         publisher'.size = publisher.size, publisher'.skipped = publisher.skipped,
         publisher'.skippedResize = publisher.skippedResize,
         mailbox' \in [Views -> UpdateType],
         \A v \in Views : /\ mailbox'[v].frameChanged = mailbox[v].frameChanged
                          /\ mailbox'[v].frame = mailbox[v].frame
                          /\ mailbox'[v].damage = mailbox[v].damage
  PROVE  PublicationInv'
<1>1. PublicationTypeOK' /\ Sized' /\ Delivering'
  BY DEF PublicationInv, PublicationTypeOK, Sized, Delivering
<1>2. DamageKnown' /\ Tracked'
  BY DEF PublicationInv, DamageKnown, Tracked, Ending, Queued, Columns
<1>3. ViewsKnown'
  <2> SUFFICES ASSUME NEW v \in Views, view[v].open = TRUE PROVE ViewKnown(v)'
    BY DEF ViewsKnown
  <2>1. ViewKnown(v)
    BY DEF PublicationInv, ViewsKnown
  <2>2. Held(v)' = Held(v)
    BY DEF Held
  <2>3. InTime(v)'
    BY <2>1, <2>2 DEF ViewKnown, InTime
  <2> QED
    BY <2>1, <2>3 DEF ViewKnown, Columns
<1> QED
  BY <1>1, <1>2, <1>3 DEF PublicationInv

LEMMA PublishCursorPublishes ==
  ASSUME PublicationInv, PublishCursor
  PROVE  PublicationInv'
<1>0. /\ main \in MainType /\ publisher \in PublisherType /\ mailbox \in [Views -> UpdateType]
  BY DEF PublicationInv, PublicationTypeOK
<1> DEFINE hidden == main.cursor = <<>>
           shown == main.cursorChanged /\ (hidden \/ HasRoom(main.cursor))
<1>1. /\ main.at = "cursor" /\ UNCHANGED <<fb, workQueue, view>>
      /\ publisher' = IF ~shown THEN publisher
                      ELSE IF hidden THEN [publisher EXCEPT !.cursor = NoImage]
                      ELSE WithCursor(main.cursor)
      /\ IF shown THEN DeliverCursor(publisher'.cursor) ELSE UNCHANGED mailbox
      /\ main' = Published([main EXCEPT !.cursorChanged = @ /\ ~shown],
                           main.ok /\ (main.cursorChanged => shown))
  BY DEF PublishCursor, decodeVars
<1>2. main' \in MainType /\ main'.at = "idle" /\ main'.damage = main.damage
  <2> DEFINE changed == main.cursorChanged /\ ~shown
             ok == ~(main.ok /\ (main.cursorChanged => shown))
  <2>1. changed \in BOOLEAN /\ ok \in BOOLEAN
    OBVIOUS
  <2>2. main' = [[main EXCEPT !.cursorChanged = changed] EXCEPT !.at = "idle", !.ok = TRUE, !.retry = ok]
    BY <1>1 DEF Published
  <2> HIDE DEF changed, ok
  <2> QED
    BY <1>0, <2>1, <2>2 DEF MainType, Steps
<1> HIDE DEF shown
<1>3. CASE ~shown
  BY <1>0, <1>1, <1>2, <1>3, CursorOnly
<1>4. CASE shown
  <2>1. /\ publisher' \in PublisherType /\ publisher'.latest = publisher.latest
        /\ publisher'.size = publisher.size /\ publisher'.skipped = publisher.skipped
        /\ publisher'.skippedResize = publisher.skippedResize
    <3>1. CASE hidden
      <4>1. publisher' = [publisher EXCEPT !.cursor = NoImage]
        BY <1>1, <1>4, <3>1
      <4> QED
        BY <1>0, <4>1, NoImageFacts DEF PublisherType
    <3>2. CASE ~hidden
      <4> DEFINE next == publisher.sequence + 1
                 image == [pixels |-> main.cursor, sequence |-> next, size |-> 0]
      <4>1. publisher' = [publisher EXCEPT !.sequence = next, !.cursor = image]
        BY <1>1, <1>4, <3>2 DEF WithCursor
      <4>2. next \in Nat
        BY <1>0, PublisherFields
      <4> HIDE DEF next
      <4>3. image \in Image
        BY <1>0, <4>2, MainFields DEF Image
      <4> HIDE DEF image
      <4> QED
        BY <1>0, <4>1, <4>2, <4>3 DEF PublisherType
    <3> QED
      BY <3>1, <3>2
  <2> DEFINE cursor == publisher'.cursor
             told(v) == [mailbox[v] EXCEPT !.generation = publisher.generation,
                                           !.cursorChanged = TRUE, !.cursor = cursor]
  <2>2. cursor \in Image /\ publisher.generation \in Nat
    BY <1>0, <2>1 DEF PublisherType
  <2>3. mailbox' = [v \in Views |-> IF v \notin Open THEN mailbox[v] ELSE told(v)]
    BY <1>1, <1>4 DEF DeliverCursor
  <2> HIDE DEF cursor
  <2>4. ASSUME NEW v \in Views
        PROVE  /\ told(v) \in UpdateType /\ told(v).frameChanged = mailbox[v].frameChanged
               /\ told(v).frame = mailbox[v].frame /\ told(v).damage = mailbox[v].damage
    BY <1>0, <2>2 DEF UpdateType
  <2> HIDE DEF told
  <2>5. /\ mailbox' \in [Views -> UpdateType]
        /\ \A v \in Views : /\ mailbox'[v].frameChanged = mailbox[v].frameChanged
                            /\ mailbox'[v].frame = mailbox[v].frame
                            /\ mailbox'[v].damage = mailbox[v].damage
    BY <1>0, <2>3, <2>4
  <2> QED
    BY <1>1, <1>2, <2>1, <2>5, CursorOnly
<1> QED
  BY <1>3, <1>4

LEMMA ResetPublishes ==
  ASSUME PublicationInv, ResetPublisher
  PROVE  PublicationInv'
<1>0. /\ main \in MainType /\ publisher \in PublisherType /\ mailbox \in [Views -> UpdateType]
      /\ view \in [Views -> ViewType]
  BY DEF PublicationInv, PublicationTypeOK
<1> DEFINE next == publisher.generation + 1
           cleared == [EmptyUpdate EXCEPT !.generation = next, !.frameChanged = TRUE,
                                          !.cursorChanged = TRUE]
<1>1. /\ UNCHANGED view /\ main' = [main EXCEPT !.at = "closed"]
      /\ publisher' = [publisher EXCEPT !.generation = next, !.latest = NoImage, !.cursor = NoImage,
                                        !.skipped = {}, !.skippedResize = FALSE]
      /\ mailbox' = [v \in Views |-> IF v \notin Open THEN mailbox[v] ELSE cleared]
  BY DEF ResetPublisher, Reset
<1>2. next \in Nat
  BY <1>0, PublisherFields
<1> HIDE DEF next
<1>3. /\ cleared \in UpdateType /\ cleared.frameChanged = TRUE /\ cleared.frame = NoImage
      /\ cleared.damage = {}
  BY <1>2, NoImageFacts DEF UpdateType, EmptyUpdate
<1> HIDE DEF cleared
<1>4. /\ publisher' \in PublisherType /\ publisher'.latest = NoImage /\ publisher'.skipped = {}
      /\ main' \in MainType /\ main'.at = "closed"
  BY <1>0, <1>1, <1>2, NoImageFacts DEF PublisherType, MainType, Steps
<1>5. mailbox' \in [Views -> UpdateType]
  BY <1>0, <1>1, <1>3
<1>6. PublicationTypeOK' /\ Sized' /\ Delivering' /\ DamageKnown' /\ Tracked'
  BY <1>0, <1>1, <1>4, <1>5 DEF PublicationTypeOK, Sized, Delivering, DamageKnown, Tracked, Ending
<1>7. ViewsKnown'
  <2> SUFFICES ASSUME NEW v \in Views, view[v].open = TRUE PROVE ViewKnown(v)'
    BY <1>1 DEF ViewsKnown
  <2>1. mailbox'[v] = cleared
    BY <1>1 DEF Open
  <2>2. view[v].shown = view[v].frame.pixels
    BY DEF PublicationInv, ViewsKnown, ViewKnown
  <2>3. Covers(cleared.damage, view[v].shown, NoImage.pixels)
    BY NoImageFacts DEF Covers
  <2> QED
    BY <1>1, <1>3, <1>4, <2>1, <2>2, <2>3 DEF ViewKnown, InTime, Held
<1> QED
  BY <1>6, <1>7 DEF PublicationInv

LEMMA ProtocolPublishes ==
  ASSUME DecodeInv, PublicationInv, Protocol
  PROVE  PublicationInv'
<1>0. main \in MainType
  BY DEF PublicationInv, PublicationTypeOK
<1>1. CASE Retry
  <2>1. main' \in MainType /\ main'.at = "publish" /\ main'.damage = main.damage /\ main.at = "idle"
    BY <1>0, <1>1 DEF Retry, Idle, MainType, Steps
  <2> QED
    BY <1>1, <2>1, SamePicture DEF Retry, decodeVars, Queued, Ending
<1>2. CASE DeleteFramebuffer
  <2>1. main' \in MainType /\ main'.at = "join" /\ main.at = "closing"
    BY <1>0, <1>2 DEF DeleteFramebuffer, MainType, Steps
  <2> QED
    BY <1>2, <2>1, EndingPublishes DEF DeleteFramebuffer, Ending
<1>3. CASE JoinThread
  BY <1>3, LookPublishes DEF JoinThread, StopThread, Queued
<1> QED
  BY <1>1, <1>2, <1>3, PublishFramePublishes, DeliverToViewPublishes, PublishCursorPublishes,
     ResetPublishes DEF Protocol

LEMMA ViewsPublish ==
  ASSUME PublicationInv, ViewsNext
  PROVE  PublicationInv'
<1>0. /\ publisher \in PublisherType /\ mailbox \in [Views -> UpdateType] /\ view \in [Views -> ViewType]
      /\ main \in MainType /\ DamageKnown /\ Tracked /\ Sized /\ Delivering /\ ViewsKnown
  BY DEF PublicationInv, PublicationTypeOK
<1>1. UNCHANGED <<fb, workQueue, main>>
  BY DEF ViewsNext, decodeVars
<1>2. ASSUME NEW v \in Views, UNCHANGED publisher, NEW u \in UpdateType, NEW w \in ViewType,
             mailbox' = [mailbox EXCEPT ![v] = u], view' = [view EXCEPT ![v] = w],
             w.open = TRUE => ViewKnown(v)'
      PROVE  PublicationInv'
  <2>1. mailbox' \in [Views -> UpdateType] /\ view' \in [Views -> ViewType]
    BY <1>0, <1>2
  <2>2. PublicationTypeOK' /\ Sized' /\ Delivering' /\ DamageKnown' /\ Tracked'
    BY <1>0, <1>1, <1>2, <2>1 DEF PublicationTypeOK, Sized, Delivering, DamageKnown, Tracked, Ending,
       Queued, Columns
  <2>3. ViewsKnown'
    <3> SUFFICES ASSUME NEW x \in Views, view'[x].open = TRUE PROVE ViewKnown(x)'
      BY DEF ViewsKnown
    <3>1. CASE x = v
      BY <1>0, <1>2, <3>1
    <3>2. CASE x # v
      <4>1. mailbox'[x] = mailbox[x] /\ view'[x] = view[x]
        BY <1>0, <1>2, <3>2
      <4>2. ViewKnown(x)
        BY <1>0, <4>1 DEF ViewsKnown
      <4> QED
        BY <1>1, <1>2, <4>1, <4>2 DEF ViewKnown, InTime, Held, Columns
    <3> QED
      BY <3>1, <3>2
  <2> QED
    BY <2>2, <2>3 DEF PublicationInv
<1>3. ASSUME NEW v \in Views, AttachView(v) PROVE PublicationInv'
  <2> DEFINE latest == publisher.latest
             u == [generation |-> publisher.generation, frameChanged |-> TRUE, cursorChanged |-> TRUE,
                   frame |-> latest, cursor |-> publisher.cursor, damage |-> Whole(latest.pixels)]
             w == [NoView EXCEPT !.open = TRUE]
  <2>1. /\ UNCHANGED publisher /\ mailbox' = [mailbox EXCEPT ![v] = u] /\ view' = [view EXCEPT ![v] = w]
        /\ main.at # "deliver"
    BY <1>3 DEF AttachView, Subscribe, Idle
  <2>2. latest \in Image /\ latest.pixels \in Seq(Int) /\ Whole(latest.pixels) = 1 .. Len(latest.pixels)
        /\ publisher.generation \in Nat /\ publisher.cursor \in Image
    BY <1>0, PublisherFields, ImageFields DEF Whole
  <2> HIDE DEF latest
  <2>3. 1 .. Len(latest.pixels) \in SUBSET Nat
    BY <2>2
  <2>4. u \in UpdateType /\ u.frameChanged = TRUE /\ u.frame = latest /\ u.damage = 1 .. Len(latest.pixels)
    BY <2>2, <2>3 DEF UpdateType
  <2>5. w \in ViewType /\ w.shown = w.frame.pixels
    <3>1. NoView.shown = NoView.frame.pixels
      BY NoImageFacts DEF NoView
    <3> QED
      BY <3>1, Empties DEF ViewType
  <2> HIDE DEF u, w
  <2>6. mailbox'[v] = u /\ view'[v] = w
    BY <1>0, <2>1
  <2>7. Covers(1 .. Len(latest.pixels), w.shown, latest.pixels)
    BY <2>2, CoversAll
  <2>8. ViewKnown(v)'
    BY <1>1, <2>1, <2>4, <2>5, <2>6, <2>7 DEF ViewKnown, InTime, Held, Columns, latest
  <2> QED
    BY <1>2, <2>1, <2>4, <2>5, <2>8
<1>4. ASSUME NEW v \in Views, TakeUpdate(v) PROVE PublicationInv'
  <2> DEFINE old == mailbox[v]
             s == view[v]
             frame == IF old.frameChanged THEN old.frame ELSE s.frame
             shown == IF old.frameChanged THEN Repainted(s.shown, old) ELSE s.shown
             cursor == IF old.cursorChanged THEN old.cursor ELSE s.cursor
             w == [s EXCEPT !.generation = old.generation, !.frame = frame, !.shown = shown,
                            !.cursor = cursor]
  <2>1. /\ UNCHANGED publisher /\ mailbox' = [mailbox EXCEPT ![v] = EmptyUpdate]
        /\ view' = [view EXCEPT ![v].generation = old.generation, ![v].frame = frame,
                                ![v].shown = shown, ![v].cursor = cursor]
        /\ v \in Open
    BY <1>4 DEF TakeUpdate, Take
  <2>2. /\ old \in UpdateType /\ s \in ViewType /\ old.frameChanged \in BOOLEAN /\ old.frame \in Image
        /\ old.cursor \in Image /\ old.generation \in Nat /\ s.frame \in Image /\ s.cursor \in Image
        /\ s.shown \in Seq(Int) /\ s.open \in BOOLEAN
    BY <1>0, UpdateFields, ViewFields
  <2>3. s.open = TRUE /\ ViewKnown(v)
    BY <1>0, <2>1, <2>2 DEF Open, ViewsKnown
  <2>4. view' = [view EXCEPT ![v] = w]
    BY <1>0, <2>1
  <2>5. shown = frame.pixels /\ frame \in Image /\ cursor \in Image /\ shown \in Seq(Int)
    <3>1. CASE old.frameChanged = TRUE
      <4>1. Repainted(s.shown, old) = old.frame.pixels
        BY <2>2, <2>3, <3>1, RepaintedFacts DEF ViewKnown
      <4> QED
        BY <2>2, <3>1, <4>1, ImageFields
    <3>2. CASE old.frameChanged = FALSE
      BY <2>2, <2>3, <3>2 DEF ViewKnown
    <3> QED
      BY <2>2, <3>1, <3>2
  <2>6. frame = Held(v)
    BY <2>2 DEF Held
  <2> HIDE DEF frame, shown, cursor
  <2>7. w \in ViewType /\ w.frame = frame /\ w.shown = shown
    BY <2>2, <2>5 DEF ViewType
  <2> HIDE DEF w, s
  <2>8. mailbox'[v] = EmptyUpdate /\ view'[v] = w
    BY <1>0, <2>1, <2>4
  <2>9. EmptyUpdate.frameChanged = FALSE /\ EmptyUpdate.damage = {}
    BY DEF EmptyUpdate
  <2>10. Held(v)' = Held(v)
    BY <2>6, <2>7, <2>8, <2>9 DEF Held
  <2>11. InTime(v)'
    BY <1>1, <2>1, <2>3, <2>10 DEF ViewKnown, InTime
  <2>12. ViewKnown(v)'
    BY <2>5, <2>7, <2>8, <2>9, <2>11 DEF ViewKnown
  <2> QED
    BY <1>2, <2>1, <2>4, <2>7, <2>12, Empties
<1>5. ASSUME NEW v \in Views, DetachView(v) PROVE PublicationInv'
  <2>1. /\ UNCHANGED publisher /\ mailbox' = [mailbox EXCEPT ![v] = EmptyUpdate]
        /\ view' = [view EXCEPT ![v] = NoView]
    BY <1>5 DEF DetachView, Detach
  <2>2. NoView.open = FALSE
    BY DEF NoView
  <2> QED
    BY <1>2, <2>1, <2>2, Empties
<1> QED
  BY <1>3, <1>4, <1>5 DEF ViewsNext

----------------------------------------------------------------------------
(* The theorems *)

LEMMA InitPublishes == Init => PublicationInv
<1> SUFFICES ASSUME Init PROVE PublicationInv
  OBVIOUS
<1>1. PICK w \in Widths : DecodeInit(Blank(w)) /\ main = Fresh(w)
  BY DEF Init
<1>2. w \in Nat \ {0} /\ 1 .. w \in SUBSET Nat
  BY FramePathAssumption
<1>3. fb = Blank(w) /\ workQueue = <<>>
  BY <1>1 DEF DecodeInit
<1>4. /\ publisher = [generation |-> 1, size |-> 0, sequence |-> 0, latest |-> NoImage,
                      cursor |-> NoImage, skipped |-> {}, skippedResize |-> FALSE]
      /\ mailbox = [v \in Views |-> EmptyUpdate] /\ view = [v \in Views |-> NoView]
  BY DEF Init, PublisherInit
<1>5. main \in MainType /\ main.at = "publish" /\ main.damage = 1 .. w
  BY <1>1, <1>2 DEF Fresh, MainType, Steps
<1>6. /\ publisher \in PublisherType /\ publisher.latest = NoImage /\ publisher.skipped = {}
  BY <1>4, NoImageFacts DEF PublisherType
<1>7. PublicationTypeOK
  BY <1>4, <1>5, <1>6, Empties DEF PublicationTypeOK
<1>8. Len(fb) = w
  BY <1>2, <1>3 DEF Blank
<1>9. DamageKnown /\ Tracked /\ Sized /\ Delivering
  BY <1>3, <1>5, <1>6, <1>8 DEF DamageKnown, Tracked, Sized, Delivering, Queued
<1>10. ViewsKnown
  BY <1>4 DEF ViewsKnown, NoView
<1> QED
  BY <1>7, <1>9, <1>10 DEF PublicationInv

LEMMA PublicationStep == DecodeInv /\ PublicationInv /\ [Next]_vars => PublicationInv'
<1> SUFFICES ASSUME DecodeInv, PublicationInv, [Next]_vars PROVE PublicationInv'
  OBVIOUS
<1>0. main \in MainType
  BY DEF PublicationInv, PublicationTypeOK
<1>1. ASSUME main.at = "idle", main' = Finished PROVE main' \in MainType /\ Ending' /\ main.at # "deliver"
  BY <1>0, <1>1 DEF Finished, MainType, Steps, Ending
<1>2. CASE Fail
  BY <1>1, <1>2, EndingPublishes DEF Fail, Idle
<1>3. CASE Close
  BY <1>1, <1>3, EndingPublishes DEF Close, Idle
<1>4. CASE Reconnect
  BY <1>4, BeginningPublishes DEF Reconnect
<1>5. CASE UNCHANGED vars
  BY <1>5, LookPublishes DEF vars, decodeVars, Queued
<1> QED
  BY <1>2, <1>3, <1>4, <1>5, ProtocolPublishes, ServerPublishes, DecodersPublish, ViewsPublish DEF Next

\* What the publisher and the views know of the picture is consistent whatever the order of
\* publications, failed copies, deliveries and takes (publishFrame(), frameUpdate(), take()).
THEOREM PublicationInvariant == Spec => []PublicationInv
BY InitPublishes, PublicationStep, DecodingInvariant, PTL DEF Spec

\* A view that repaints the damage only shows the frame it holds: damage that was skipped for
\* lack of memory or replaced in a mailbox is never lost (Impl::publishFrame, frameUpdate).
THEOREM DamageIsComplete == Spec => []DamageComplete
<1>1. PublicationInv => DamageComplete
  <2> SUFFICES ASSUME PublicationInv, NEW v \in Open PROVE view[v].shown = view[v].frame.pixels
    BY DEF DamageComplete
  <2>1. v \in Views /\ view[v].open = TRUE
    <3>1. v \in Views /\ view[v].open
      BY DEF Open
    <3> QED
      BY <3>1, ViewFields DEF PublicationInv, PublicationTypeOK
  <2> QED
    BY <2>1 DEF PublicationInv, ViewsKnown, ViewKnown
<1> QED
  BY <1>1, PublicationInvariant, PTL

\* Only the picture that whole updates give is published, at the end of an update or from the
\* retry timer (ProtocolSession's publish()).
THEOREM PublicationIsWhole == Spec => PublishedWhole
<1> DEFINE WholeStep == publisher'.latest \notin {publisher.latest, NoImage}
                       => ~main.inUpdate /\ publisher'.latest.pixels = ideal
<1>1. DecodeInv /\ PublicationInv /\ [Next]_vars => [WholeStep]_vars
  <2> SUFFICES ASSUME DecodeInv, PublicationInv, Next,
                      publisher'.latest \notin {publisher.latest, NoImage}
               PROVE  ~main.inUpdate /\ publisher'.latest.pixels = ideal
    BY DEF vars
  <2>0. publisher \in PublisherType
    BY DEF PublicationInv, PublicationTypeOK
  <2>1. PublishFrame
    <3>1. publisher' # publisher
      OBVIOUS
    <3>2. ~PublishCursor
      <4> SUFFICES ASSUME PublishCursor PROVE publisher'.latest = publisher.latest
        OBVIOUS
      <4> QED
        BY <2>0 DEF PublishCursor, WithCursor, PublisherType
    <3>3. ~ResetPublisher
      <4> SUFFICES ASSUME ResetPublisher PROVE publisher'.latest = NoImage
        OBVIOUS
      <4> QED
        BY <2>0 DEF ResetPublisher, Reset, PublisherType
    <3> QED
      BY <3>1, <3>2, <3>3 DEF Next, Protocol, Server, Decoders, ViewsNext, Fail, Close, Reconnect,
         DeliverToView, Retry, DeleteFramebuffer, JoinThread, UpdateStart, RectStart, RectEnd, Resize,
         SetCursor, UpdateEnd, AttachView, TakeUpdate, DetachView, Subscribe, Take, Detach, publisherVars
  <2>2. main.at = "publish"
    BY <2>1 DEF PublishFrame
  <2>3. main.inUpdate = FALSE /\ workQueue = <<>> /\ threadException = FALSE
    BY <2>2 DEF DecodeInv, Phases
  <2>4. publisher'.latest.pixels = fb
    <3> DEFINE p == Remembered(fb, main.damage)
    <3>1. publisher' = p \/ publisher' = WithFrame(p, fb)
      BY <2>1 DEF PublishFrame
    <3>2. p.latest = publisher.latest /\ DOMAIN p = DOMAIN publisher
      BY <2>0 DEF Remembered, PublisherType
    <3>3. "latest" \in DOMAIN publisher
      BY <2>0 DEF PublisherType
    <3> HIDE DEF p
    <3>4. publisher' = WithFrame(p, fb)
      BY <3>1, <3>2
    <3> DEFINE size == IF Resized(fb) THEN p.size + 1 ELSE p.size
               sequence == p.sequence + 1
               image == [pixels |-> fb, sequence |-> sequence, size |-> size]
    <3>5. publisher' = [p EXCEPT !.size = size, !.sequence = sequence, !.latest = image,
                                 !.skipped = {}, !.skippedResize = FALSE]
      BY <3>4 DEF WithFrame
    <3> HIDE DEF size, sequence
    <3>6. image.pixels = fb
      OBVIOUS
    <3> HIDE DEF image
    <3>7. publisher'.latest = image
      BY <3>2, <3>3, <3>5
    <3> QED
      BY <3>6, <3>7
  <2>5. Healthy /\ Sequential
    BY <2>2, <2>3 DEF DecodeInv, Healthy, Ending
  <2>6. Pending = {}
    BY <2>3 DEF Pending, Queued
  <2>7. \A c \in 1 .. Len(fb) : fb[c] = ideal[c]
    BY <2>5, <2>6 DEF Sequential, PixelsKept, Unwritten
  <2>8. fb \in Seq(Int) /\ ideal \in Seq(Int) /\ Len(ideal) = Len(fb)
    BY DEF DecodeInv, DecodeTypeOK
  <2>9. fb = ideal
    BY <2>7, <2>8
  <2> QED
    BY <2>3, <2>4, <2>9
<1> QED
  BY <1>1, DecodingInvariant, PublicationInvariant, PTL DEF Spec, PublishedWhole

----------------------------------------------------------------------------
(* Notifications *)

Decodable == {i \in 1 .. Len(workQueue) : Available(i)}
Lookers == {t \in Threads : thread[t].at = "look"}

\* Only the destructor stops threads, when the queue is empty for good.
StopsKnown == \A t \in Threads : thread[t].stop = TRUE => Deleted

NotifyInv == StopsKnown /\ WorkersSuffice

\* The sets that are counted are finite.
LEMMA Countable ==
  ASSUME DecodeTypeOK
  PROVE  /\ IsFiniteSet(Decodable) /\ IsFiniteSet(Lookers)
         /\ Cardinality(Decodable) \in Nat /\ Cardinality(Lookers) \in Nat
<1>1. Len(workQueue) \in Nat /\ IsFiniteSet(1 .. Len(workQueue))
  BY FS_Interval DEF DecodeTypeOK
<1>2. IsFiniteSet(Decodable)
  BY <1>1, FS_Subset DEF Decodable
<1>3. IsFiniteSet(Lookers)
  BY DecodeAssumption, FS_Subset DEF Lookers
<1> QED
  BY <1>2, <1>3, FS_CardinalityType

LEMMA CountableNext ==
  ASSUME DecodeTypeOK'
  PROVE  /\ IsFiniteSet(Decodable') /\ IsFiniteSet(Lookers')
         /\ Cardinality(Decodable') \in Nat /\ Cardinality(Lookers') \in Nat
<1>1. Len(workQueue') \in Nat /\ IsFiniteSet(1 .. Len(workQueue'))
  BY FS_Interval DEF DecodeTypeOK
<1>2. IsFiniteSet(Decodable')
  BY <1>1, FS_Subset DEF Decodable
<1>3. IsFiniteSet(Lookers')
  BY DecodeAssumption, FS_Subset DEF Lookers
<1> QED
  BY <1>2, <1>3, FS_CardinalityType

LEMMA SufficeMeans ==
  /\ WorkersSuffice <=> Asleep = {} \/ Cardinality(Decodable) <= Cardinality(Lookers)
  /\ WorkersSuffice' <=> Asleep' = {} \/ Cardinality(Decodable') <= Cardinality(Lookers')
BY DEF WorkersSuffice, Asleep, Decodable, Lookers

\* The queue stays and so do those who look and sleep.
LEMMA SameQueue ==
  ASSUME NotifyInv, workQueue' = workQueue, Lookers' = Lookers, Asleep' = Asleep
  PROVE  WorkersSuffice'
<1>1. Decodable' = Decodable
  BY DEF Decodable, Available
<1> QED
  BY <1>1, SufficeMeans DEF NotifyInv

LEMMA AllAwake ==
  ASSUME Asleep' = {}
  PROVE  WorkersSuffice'
BY SufficeMeans

\* A thread that takes an entry leaves the others as available as they were.
LEMMA LookNotified ==
  ASSUME DecodeInv, DecodeInv', NotifyInv, NEW t \in Threads, Look(t), UNCHANGED main
  PROVE  NotifyInv'
<1>0. DecodeTypeOK /\ DecodeTypeOK' /\ Phases /\ thread \in [Threads -> ThreadState]
  BY DEF DecodeInv, DecodeTypeOK
<1>1. StopsKnown'
  BY <1>0 DEF Look, NotifyInv, StopsKnown, Deleted, ThreadState
<1>2. CASE thread[t].stop
  <2>1. workQueue = <<>> /\ workQueue' = workQueue
    BY <1>0, <1>2 DEF Look, NotifyInv, StopsKnown, Phases, ThreadState
  <2>2. Decodable' = {}
    BY <2>1 DEF Decodable
  <2> QED
    BY <1>0, <1>1, <2>2, CountableNext, FS_EmptySet, SufficeMeans DEF NotifyInv
<1>3. CASE ~thread[t].stop /\ FindEntry = 0
  <2>1. Decodable = {} /\ workQueue' = workQueue
    <3> DEFINE found == {i \in 1 .. Len(workQueue) : Available(i)}
    <3>1. found \in SUBSET Nat
      BY <1>0 DEF DecodeTypeOK
    <3>2. ASSUME found # {} PROVE FALSE
      <4>1. FindEntry = Min(found)
        BY <3>2 DEF FindEntry
      <4>2. found \in SUBSET (1 .. Len(workQueue))
        OBVIOUS
      <4> HIDE DEF found
      <4>3. Min(found) \in found
        BY <3>1, <3>2, LeastNumber
      <4> QED
        BY <1>0, <1>3, <4>1, <4>2, <4>3 DEF DecodeTypeOK
    <3> QED
      BY <1>3, <3>2 DEF Look, Decodable
  <2>2. Decodable' = {}
    BY <2>1 DEF Decodable, Available
  <2> QED
    BY <1>0, <1>1, <2>2, CountableNext, FS_EmptySet, SufficeMeans DEF NotifyInv
<1>4. CASE ~thread[t].stop /\ FindEntry # 0
  <2> DEFINE k == FindEntry
  <2>1. k \in 1 .. Len(workQueue) /\ Available(k)
    BY <1>0, <1>4, FindEntryFacts
  <2>2. /\ workQueue' = [workQueue EXCEPT ![k].active = TRUE] /\ thread[t].at = "look"
        /\ Lookers' = Lookers \ {t} /\ Asleep' = Asleep
    BY <1>0, <1>4 DEF Look, Lookers, Asleep, ThreadState
  <2> HIDE DEF k
  <2>3. Decodable' = Decodable \ {k}
    <3>1. /\ Len(workQueue') = Len(workQueue) /\ workQueue'[k].active = TRUE
          /\ \A i \in 1 .. Len(workQueue) :
               /\ workQueue'[i].kind = workQueue[i].kind
               /\ i # k => workQueue'[i] = workQueue[i]
      <4>1. workQueue \in Seq(Entry) /\ workQueue[k] \in Entry
        BY <1>0, <2>1 DEF DecodeTypeOK
      <4> DEFINE e == [workQueue[k] EXCEPT !.active = TRUE]
      <4>2. e.active = TRUE /\ e.kind = workQueue[k].kind
        BY <4>1 DEF Entry
      <4>3. workQueue' = [workQueue EXCEPT ![k] = e]
        BY <2>2
      <4> HIDE DEF e
      <4> QED
        BY <2>1, <4>1, <4>2, <4>3
    <3>2. ASSUME NEW i \in 1 .. Len(workQueue) PROVE Available(i)' <=> Available(i) /\ i # k
      <4>1. \A j \in 1 .. i - 1 : workQueue'[j].kind = workQueue[j].kind
        BY <1>0, <3>1 DEF DecodeTypeOK
      <4>2. CASE i = k
        BY <3>1, <4>2 DEF Available
      <4>3. CASE i # k
        BY <3>1, <4>1, <4>3 DEF Available
      <4> QED
        BY <4>2, <4>3
    <3> QED
      BY <3>1, <3>2 DEF Decodable
  <2>4. /\ Cardinality(Decodable') = Cardinality(Decodable) - 1
        /\ Cardinality(Lookers') = Cardinality(Lookers) - 1
    <3>1. k \in Decodable /\ t \in Lookers
      BY <2>1, <2>2 DEF Decodable, Lookers
    <3> QED
      BY <1>0, <2>2, <2>3, <3>1, Countable, FS_RemoveElement
  <2> QED
    BY <1>0, <1>1, <2>2, <2>4, Countable, SufficeMeans DEF NotifyInv
<1> QED
  BY <1>2, <1>3, <1>4

\* The thread that returns looks itself, and wakes all if it leaves more than one entry.
LEMMA ReturnNotified ==
  ASSUME DecodeInv, DecodeInv', NotifyInv, NEW t \in Threads, Return(t), UNCHANGED main
  PROVE  NotifyInv'
<1>0. /\ DecodeTypeOK /\ DecodeTypeOK' /\ thread \in [Threads -> ThreadState] /\ InOrder /\ Assigned
      /\ workQueue \in Seq(Entry)
  BY DEF DecodeInv, DecodeTypeOK
<1>1. StopsKnown'
  BY <1>0 DEF Return, NotifyInv, StopsKnown, Deleted, ThreadState
<1>2. CASE WakesAll
  <2>1. Asleep' = {}
    BY <1>0, <1>2 DEF Return, Asleep, ThreadState
  <2> QED
    BY <1>1, <2>1, AllAwake DEF NotifyInv
<1>3. CASE ~WakesAll
  <2>1. Position(t) \in 1 .. Len(workQueue)
    BY <1>0, PositionFacts DEF Return, Busy
  <2>2. Len(workQueue') = Len(workQueue) - 1
    BY <1>0, <2>1, Removed DEF Return
  <2>3. Len(workQueue) \in Nat /\ ~(Len(workQueue) > 2)
    BY <1>0, <1>3 DEF WakesAll
  <2>4. Decodable' \subseteq {1}
    BY <2>2, <2>3 DEF Decodable
  <2>5. {t} \subseteq Lookers'
    BY <1>0 DEF Return, Lookers, ThreadState
  <2>6. Cardinality(Decodable') <= 1
    <3>1. IsFiniteSet({1}) /\ Cardinality({1}) = 1
      BY FS_Singleton
    <3> QED
      BY <2>4, <3>1, FS_Subset
  <2>7. 1 <= Cardinality(Lookers')
    <3>1. Cardinality({t}) = 1
      BY FS_Singleton
    <3>2. IsFiniteSet(Lookers') /\ {t} \in SUBSET Lookers'
      BY <1>0, <2>5, CountableNext
    <3> QED
      BY <3>1, <3>2, FS_Subset
  <2>8. Cardinality(Decodable') <= Cardinality(Lookers')
    BY <1>0, <2>6, <2>7, CountableNext
  <2> QED
    BY <1>1, <2>8, SufficeMeans DEF NotifyInv
<1> QED
  BY <1>2, <1>3

\* A rectangle more, a thread more that looks, unless none sleeps.
LEMMA RectEndNotified ==
  ASSUME DecodeInv, DecodeInv', NotifyInv, RectEnd
  PROVE  NotifyInv'
<1>0. /\ DecodeTypeOK /\ DecodeTypeOK' /\ thread \in [Threads -> ThreadState]
      /\ workQueue \in Seq(Entry) /\ partialEntry \in Entry
  BY DEF DecodeInv, DecodeTypeOK, RectEnd, QueueRect
<1>1. main'.at = main.at
  BY <1>0 DEF RectEnd, DecodeTypeOK
<1>2. Len(workQueue) \in Nat
  BY <1>0
<1> DEFINE n == Len(workQueue) + 1
<1>3. Decodable' \subseteq Decodable \cup {n}
  <2>1. Len(workQueue') = n /\ \A i \in 1 .. Len(workQueue) : workQueue'[i] = workQueue[i]
    BY <1>0 DEF RectEnd, QueueRect
  <2>2. ASSUME NEW i \in 1 .. Len(workQueue) PROVE Available(i)' <=> Available(i)
    <3>1. workQueue'[i] = workQueue[i] /\ \A j \in 1 .. i - 1 : workQueue'[j] = workQueue[j]
      BY <1>2, <2>1
    <3> QED
      BY <3>1 DEF Available
  <2> QED
    BY <1>2, <2>1, <2>2 DEF Decodable
<1>4. n \notin Decodable
  BY <1>2 DEF Decodable
<1>5. Cardinality(Decodable') <= Cardinality(Decodable) + 1
  <2>1. /\ Cardinality(Decodable \cup {n}) = Cardinality(Decodable) + 1
        /\ IsFiniteSet(Decodable \cup {n})
    BY <1>0, <1>4, Countable, FS_AddElement
  <2> QED
    BY <1>3, <2>1, FS_Subset
<1>6. CASE Asleep = {}
  <2>1. thread' = thread
    BY <1>6 DEF RectEnd, QueueRect
  <2>2. Asleep' = {}
    BY <1>6, <2>1 DEF Asleep
  <2> QED
    BY <1>1, <2>1, <2>2, AllAwake DEF NotifyInv, StopsKnown, Deleted
<1>7. CASE Asleep # {}
  <2>1. PICK u \in Asleep : Wake({u})
    BY <1>7 DEF RectEnd, QueueRect
  <2>2. Lookers' = Lookers \cup {u} /\ u \notin Lookers
    BY <1>0, <2>1 DEF Wake, Asleep, Lookers, ThreadState
  <2>3. Cardinality(Lookers') = Cardinality(Lookers) + 1
    BY <1>0, <2>2, Countable, FS_AddElement
  <2>4. StopsKnown'
    BY <1>0, <1>1, <2>1 DEF Wake, NotifyInv, StopsKnown, Deleted, ThreadState
  <2>5. Cardinality(Decodable) <= Cardinality(Lookers)
    BY <1>7, SufficeMeans DEF NotifyInv
  <2>6. Cardinality(Decodable') <= Cardinality(Lookers')
    BY <1>0, <1>5, <2>3, <2>5, Countable, CountableNext
  <2> QED
    BY <2>4, <2>6, SufficeMeans DEF NotifyInv
<1> QED
  BY <1>6, <1>7

\* A decoder at work neither looks nor sleeps; a spurious wake-up adds one that looks.
LEMMA OthersNotified ==
  ASSUME DecodeInv, DecodeInv', NotifyInv, NEW t \in Threads,
         Decode(t) \/ DecodeFails(t) \/ WakeSpuriously(t), UNCHANGED main
  PROVE  NotifyInv'
<1>0. DecodeTypeOK /\ DecodeTypeOK' /\ thread \in [Threads -> ThreadState] /\ workQueue' = workQueue
  BY DEF DecodeInv, DecodeTypeOK, Decode, DecodeFails, WakeSpuriously
<1>1. StopsKnown'
  BY <1>0 DEF Decode, DecodeFails, WakeSpuriously, Wake, NotifyInv, StopsKnown, Deleted, ThreadState
<1>2. CASE Decode(t) \/ DecodeFails(t)
  <2>1. Lookers' = Lookers /\ Asleep' = Asleep
    BY <1>0, <1>2 DEF Decode, DecodeFails, Lookers, Asleep, ThreadState
  <2> QED
    BY <1>0, <1>1, <2>1, SameQueue DEF NotifyInv
<1>3. CASE WakeSpuriously(t)
  <2>1. Lookers' = Lookers \cup {t} /\ t \notin Lookers /\ t \in Asleep
    BY <1>0, <1>3 DEF WakeSpuriously, Wake, Lookers, Asleep, ThreadState
  <2>2. Cardinality(Lookers') = Cardinality(Lookers) + 1
    BY <1>0, <2>1, Countable, FS_AddElement
  <2>3. Decodable' = Decodable
    BY <1>0 DEF Decodable, Available
  <2> QED
    BY <1>0, <1>1, <2>1, <2>2, <2>3, Countable, SufficeMeans DEF NotifyInv
<1> QED
  BY <1>2, <1>3

LEMMA NotifyStep == DecodeInv /\ DecodeInv' /\ NotifyInv /\ [Next]_vars => NotifyInv'
<1> SUFFICES ASSUME DecodeInv, DecodeInv', NotifyInv, [Next]_vars PROVE NotifyInv'
  OBVIOUS
<1>0. DecodeTypeOK /\ thread \in [Threads -> ThreadState]
  BY DEF DecodeInv, DecodeTypeOK
<1>1. ASSUME workQueue' = workQueue, thread' = thread, Deleted => Deleted' PROVE NotifyInv'
  <2>1. Lookers' = Lookers /\ Asleep' = Asleep
    BY <1>1 DEF Lookers, Asleep
  <2>2. StopsKnown'
    BY <1>1 DEF NotifyInv, StopsKnown
  <2> QED
    BY <1>1, <2>1, <2>2, SameQueue DEF NotifyInv
<1>2. CASE RectEnd
  BY <1>2, RectEndNotified
<1>3. CASE Decoders
  <2>1. PICK t \in Threads : DecodeThread(t) \/ DecodeFails(t) \/ WakeSpuriously(t)
    BY <1>3 DEF Decoders, DecodeNext
  <2>2. UNCHANGED main
    BY <1>3 DEF Decoders
  <2> QED
    BY <2>1, <2>2, LookNotified, ReturnNotified, OthersNotified DEF DecodeThread
<1>4. CASE JoinThread
  <2>1. Asleep' = {}
    BY <1>0, <1>4 DEF JoinThread, StopThread, Asleep, ThreadState
  <2>2. StopsKnown'
    BY <1>4 DEF JoinThread, StopsKnown, Deleted
  <2> QED
    BY <2>1, <2>2, AllAwake DEF NotifyInv
<1>5. CASE Reconnect
  <2>1. thread' = [t \in Threads |-> Looking]
    BY <1>5 DEF Reconnect
  <2>2. Asleep' = {} /\ StopsKnown'
    BY <2>1 DEF Asleep, StopsKnown, Looking
  <2> QED
    BY <2>2, AllAwake DEF NotifyInv
<1>6. CASE Fail \/ Close \/ DeleteFramebuffer \/ ResetPublisher
  <2>1. workQueue' = workQueue /\ thread' = thread
    BY <1>6 DEF Fail, Close, DeleteFramebuffer, ResetPublisher, decodeVars
  <2>2. Deleted => Deleted'
    BY <1>0, <1>6 DEF Fail, Close, Idle, DeleteFramebuffer, ResetPublisher, Deleted, DecodeTypeOK
  <2> QED
    BY <1>1, <2>1, <2>2
<1>7. CASE PublishFrame \/ DeliverToView \/ PublishCursor \/ Retry
  <2>1. workQueue' = workQueue /\ thread' = thread
    BY <1>7 DEF PublishFrame, DeliverToView, PublishCursor, Retry, decodeVars
  <2>2. ~Deleted
    BY <1>7 DEF PublishFrame, DeliverToView, PublishCursor, Retry, Idle, Deleted
  <2> QED
    BY <1>1, <2>1, <2>2
<1>8. CASE UpdateStart \/ RectStart \/ (\E w \in Widths : Resize(w)) \/ SetCursor \/ UpdateEnd
  <2>1. workQueue' = workQueue /\ thread' = thread
    BY <1>8 DEF UpdateStart, RectStart, BeginRect, Resize, SetCursor, UpdateEnd, decodeVars
  <2>2. ~Deleted
    BY <1>8 DEF UpdateStart, RectStart, Resize, SetCursor, UpdateEnd, Reading, Idle, Deleted
  <2> QED
    BY <1>1, <2>1, <2>2
<1>9. CASE ViewsNext \/ UNCHANGED vars
  <2>1. workQueue' = workQueue /\ thread' = thread /\ main' = main
    BY <1>9 DEF ViewsNext, vars, decodeVars
  <2> QED
    BY <1>1, <2>1 DEF Deleted
<1> QED
  BY <1>2, <1>3, <1>4, <1>5, <1>6, <1>7, <1>8, <1>9 DEF Next, Protocol, Server

\* For every number of threads: whenever a thread sleeps, at least as many threads are about
\* to look as there are rectangles that could be decoded (decodeRect(), worker()).
THEOREM NotificationsSuffice == Spec => []WorkersSuffice
<1>1. Init => NotifyInv
  <2> SUFFICES ASSUME Init PROVE NotifyInv
    OBVIOUS
  <2>1. thread = [t \in Threads |-> Looking]
    BY DEF Init, DecodeInit
  <2>2. Asleep = {} /\ StopsKnown
    BY <2>1 DEF Asleep, StopsKnown, Looking
  <2> QED
    BY <2>2, SufficeMeans DEF NotifyInv
<1>2. NotifyInv => WorkersSuffice
  BY DEF NotifyInv
<1> QED
  BY <1>1, <1>2, NotifyStep, DecodingInvariant, PTL DEF Spec
=============================================================================

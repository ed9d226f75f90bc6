---------------------- MODULE ReverseConnectionsProofs ----------------------
(***************************************************************************)
(* Proofs about ReverseConnections, for every number of peers, hosts and   *)
(* sessions and every capacity.                                            *)
(***************************************************************************)
EXTENDS ReverseConnections, FiniteSetTheorems, SequenceTheorems, WellFoundedInduction, TLAPS

----------------------------------------------------------------------------
(* The inductive invariant: the runtime *)

RuntimeType == [jobs : Seq(Jobs), admitted : Nat, stopping : BOOLEAN]
JobType == [thread : Threads, finished : BOOLEAN, cancelled : BOOLEAN, results : Nat]
CoordinatorType == [at : {"scan", "asleep", "join", "release", "settle", "done"}, retired : Seq(Jobs)]
ShutdownType == [at : {"idle", "cancel", "notify", "ended"}, active : Seq(Jobs)]

Types ==
  /\ runtime \in RuntimeType /\ job \in [Jobs -> JobType]
  /\ coordinator \in CoordinatorType /\ shutdown \in ShutdownType

Distinct(q) == \A i, k \in 1 .. Len(q) : i # k => q[i] # q[k]
In(x, q) == \E i \in 1 .. Len(q) : q[i] = x

Listed(j) == In(j, runtime.jobs)
Retiring == coordinator.at \in {"join", "release", "settle"}
Leaving(j) == Retiring /\ Head(coordinator.retired) = j

\* A session is on the list, then with the coordinator, then has its result; the coordinator
\* goes on from join() only when the thread has exited.
JobKnown(j) ==
  /\ job[j].finished = TRUE <=> job[j].thread \in {"marked", "exited"}
  /\ job[j].thread = "none" => job[j].results = 0
  /\ Listed(j) => ~Leaving(j)
  /\ Listed(j) \/ Leaving(j) => job[j].thread # "none" /\ job[j].results = 0
  /\ job[j].thread # "none" => \/ Listed(j) \/ Leaving(j)
                               \/ job[j].thread = "exited" /\ job[j].results = 1
  /\ Leaving(j) => /\ job[j].finished = TRUE
                   /\ coordinator.at # "join" => job[j].thread = "exited"

\* A slot is taken for every session on the list and for the one being joined.
Slots == Len(runtime.jobs) + (IF coordinator.at \in {"join", "release"} THEN 1 ELSE 0)
SlotsKnown ==
  /\ runtime.admitted = Slots /\ runtime.admitted <= RuntimeCapacity
  /\ coordinator.at = "done" => runtime.stopping = TRUE /\ runtime.admitted = 0

RuntimeInv ==
  /\ Types /\ SlotsKnown /\ Distinct(runtime.jobs)
  /\ Retiring => coordinator.retired # <<>>
  /\ \A j \in Jobs : JobKnown(j)

----------------------------------------------------------------------------
(* The inductive invariant: the listener *)

States == {"Starting", "Listening", "Stopping", "Closed", "Failed"}
Holders == {"nobody", "listener", "host", "session", "closed"}
ListenerType == [pending : Seq(Peers), nextId : 0 .. MaxPeers, stopping : BOOLEAN,
                 failure : {"None", "EventOverflow", "Source"}, state : States, sequence : Nat,
                 queue : Seq(Event)]
HostType == [then : {"", "start", "cancel"}, peer : 0 .. MaxPeers]

ListenerTypes ==
  /\ listener \in ListenerType /\ taken \in Seq(Event)
  /\ host \in [Hosts \cup Closers -> HostType] /\ holder \in [Peers -> Holders]

Parked(p) == In(p, listener.pending)
Is(i, p, kinds) == Published[i].peer = p /\ Published[i].kind \in kinds
Happened(p, kinds) == \E i \in 1 .. Len(Published) : Is(i, p, kinds)

\* A peer's outcome is final: what is told about it agrees with who owns it.
PeerKnown(p) ==
  /\ \A i, k \in 1 .. Len(Published) : Is(i, p, Outcomes) /\ Is(k, p, Outcomes) => i = k
  /\ \A i \in 1 .. Len(Published) : Is(i, p, Outcomes) =>
       \E k \in 1 .. Len(Published) : Is(k, p, {"Incoming"}) /\ k < i
  /\ Happened(p, Outcomes) => holder[p] \notin {"nobody", "listener"}
  /\ holder[p] \in {"host", "session"} => Happened(p, {"Accepted"})
  /\ Happened(p, {"Rejected", "Expired"}) => holder[p] = "closed" /\ job[p].thread = "none"
  /\ holder[p] \in {"nobody", "listener", "host"} => job[p].thread = "none"
  /\ Parked(p) => /\ holder[p] = "listener"
                  /\ listener.stopping = FALSE => Happened(p, {"Incoming"})
  /\ p > listener.nextId => holder[p] = "nobody"
  /\ holder[p] = "listener" => Parked(p) \/ thread.at = "dispose"

\* A host that is to start a session owns the peer, alone.
Starting(h) == host[h].then = "start"
HostsKnown ==
  /\ \A h \in Hosts \cup Closers :
       Starting(h) => host[h].peer \in Peers /\ holder[host[h].peer] = "host"
  /\ \A h, k \in Hosts \cup Closers :
       Starting(h) /\ Starting(k) /\ h # k => host[h].peer # host[k].peer

Stopped == thread.at \in {"dispose", "done"}
Normal(i) == Published[i].state \in {"Starting", "Listening"}
Latest == Len(Published)

\* Where the stream stands: no terminal event, the reserved Stopping, or both.
StreamKnown ==
  /\ ~Stopped => /\ listener.state \in {"Starting", "Listening"}
                 /\ \A i \in 1 .. Latest : Normal(i)
                 /\ Len(listener.queue) <= EventCapacity /\ listener.sequence <= MaxSequence - 2
  /\ thread.at = "dispose" =>
       /\ Latest >= 1 /\ \A i \in 1 .. Latest - 1 : Normal(i)
       /\ Published[Latest].state = "Stopping" /\ Published[Latest].kind = "State"
       /\ Len(listener.queue) <= EventCapacity + 1 /\ listener.sequence <= MaxSequence - 1
  /\ thread.at = "done" =>
       /\ Latest >= 2 /\ \A i \in 1 .. Latest - 2 : Normal(i)
       /\ Published[Latest - 1].state = "Stopping" /\ Published[Latest - 1].kind = "State"
       /\ Published[Latest].state \in {"Closed", "Failed"}
       /\ Len(listener.queue) <= EventCapacity + 2 /\ listener.sequence <= MaxSequence

WorkerKnown ==
  /\ Distinct(listener.pending)
  /\ Stopped => listener.stopping = TRUE /\ listener.pending = <<>>
  /\ thread.at = "arrived" => listener.nextId < MaxPeers

ListenerInv ==
  /\ ListenerTypes /\ StreamKnown /\ WorkerKnown /\ HostsKnown /\ \A p \in Peers : PeerKnown(p)

ReverseInv == RuntimeInv /\ ListenerInv

----------------------------------------------------------------------------
(* Numbers and sequences *)

LEMMA LeastNumber ==
  ASSUME NEW S \in SUBSET Nat, S # {}
  PROVE  Min(S) \in S /\ \A y \in S : Min(S) <= y
<1>1. OpToRel(<, Nat) = {pair \in Nat \X Nat : pair[1] < pair[2]}
  BY DEF OpToRel
<1>2. IsWellFoundedOn(OpToRel(<, Nat), Nat)
  BY NatLessThanWellFounded
<1>3. PICK x \in S : \A y \in S : ~(<<y, x>> \in OpToRel(<, Nat))
  BY <1>2, WFMin
<1>4. ASSUME NEW y \in S PROVE x <= y
  <2>1. ~(<<y, x>> \in {pair \in Nat \X Nat : pair[1] < pair[2]})
    BY <1>1, <1>3
  <2> QED
    BY <2>1
<1> QED
  BY <1>4 DEF Min

LEMMA Removed ==
  ASSUME NEW S, NEW q \in Seq(S), NEW k \in 1 .. Len(q)
  PROVE  /\ RemoveAt(q, k) \in Seq(S) /\ Len(RemoveAt(q, k)) = Len(q) - 1
         /\ \A i \in 1 .. Len(q) - 1 : RemoveAt(q, k)[i] = IF i < k THEN q[i] ELSE q[i + 1]
<1> DEFINE head == SubSeq(q, 1, k - 1)
           tail == SubSeq(q, k + 1, Len(q))
<1>1. /\ head \in Seq(S) /\ Len(head) = k - 1 /\ \A i \in 1 .. k - 1 : head[i] = q[i]
      /\ tail \in Seq(S) /\ Len(tail) = Len(q) - k /\ \A i \in 1 .. Len(q) - k : tail[i] = q[k + i]
  OBVIOUS
<1>2. RemoveAt(q, k) = head \o tail
  BY DEF RemoveAt
<1> HIDE DEF head, tail
<1>3. /\ head \o tail \in Seq(S) /\ Len(head \o tail) = Len(q) - 1
      /\ \A i \in 1 .. Len(q) - 1 : (head \o tail)[i] = IF i <= k - 1 THEN head[i] ELSE tail[i - (k - 1)]
  <2>1. /\ head \o tail \in Seq(S) /\ Len(head \o tail) = Len(head) + Len(tail)
        /\ \A i \in 1 .. Len(head) + Len(tail) :
             (head \o tail)[i] = IF i <= Len(head) THEN head[i] ELSE tail[i - Len(head)]
    BY <1>1, ConcatProperties
  <2> QED
    BY <1>1, <2>1
<1>4. ASSUME NEW i \in 1 .. Len(q) - 1
      PROVE  (head \o tail)[i] = IF i < k THEN q[i] ELSE q[i + 1]
  <2>1. CASE i < k
    BY <1>1, <1>3, <2>1
  <2>2. CASE ~(i < k)
    <3>1. i - (k - 1) \in 1 .. Len(q) - k /\ k + (i - (k - 1)) = i + 1
      BY <2>2
    <3> QED
      BY <1>1, <1>3, <2>2, <3>1
  <2> QED
    BY <2>1, <2>2
<1> QED
  BY <1>2, <1>3, <1>4

\* Without the element at position k the others stay, once each.
LEMMA RemovedElements ==
  ASSUME NEW S, NEW q \in Seq(S), NEW k \in 1 .. Len(q), Distinct(q), NEW r, r = RemoveAt(q, k)
  PROVE  /\ r \in Seq(S) /\ Len(r) = Len(q) - 1 /\ Distinct(r)
         /\ \A x : In(x, r) <=> In(x, q) /\ x # q[k]
<1>1. /\ r \in Seq(S) /\ Len(r) = Len(q) - 1 /\ Len(q) \in Nat
      /\ \A i \in 1 .. Len(q) - 1 : r[i] = IF i < k THEN q[i] ELSE q[i + 1]
  BY Removed
<1>2. \A i \in 1 .. Len(r) : r[i] = (IF i < k THEN q[i] ELSE q[i + 1]) /\ i \in 1 .. Len(q) /\ i + 1 \in 1 .. Len(q)
  BY <1>1
<1>3. Distinct(r)
  <2> SUFFICES ASSUME NEW i \in 1 .. Len(r), NEW j \in 1 .. Len(r), i # j PROVE r[i] # r[j]
    BY DEF Distinct
  <2> DEFINE f(n) == IF n < k THEN n ELSE n + 1
  <2>1. r[i] = q[f(i)] /\ r[j] = q[f(j)] /\ f(i) \in 1 .. Len(q) /\ f(j) \in 1 .. Len(q)
    BY <1>2
  <2>2. f(i) # f(j)
    OBVIOUS
  <2> QED
    BY <2>1, <2>2 DEF Distinct
<1>4. ASSUME NEW x PROVE In(x, r) <=> In(x, q) /\ x # q[k]
  <2>1. ASSUME In(x, r) PROVE In(x, q) /\ x # q[k]
    <3>1. PICK i \in 1 .. Len(r) : r[i] = x
      BY <2>1 DEF In
    <3>2. CASE i < k
      BY <1>2, <3>1, <3>2 DEF In, Distinct
    <3>3. CASE ~(i < k)
      <4>1. x = q[i + 1] /\ i + 1 \in 1 .. Len(q) /\ i + 1 # k
        BY <1>2, <3>1, <3>3
      <4> QED
        BY <4>1 DEF In, Distinct
    <3> QED
      BY <3>2, <3>3
  <2>2. ASSUME In(x, q), x # q[k] PROVE In(x, r)
    <3>1. PICK i \in 1 .. Len(q) : q[i] = x
      BY <2>2 DEF In
    <3>2. CASE i < k
      <4>1. i \in 1 .. Len(r) /\ r[i] = x
        BY <1>1, <3>1, <3>2
      <4> QED
        BY <4>1 DEF In
    <3>3. CASE i > k
      <4>1. i - 1 \in 1 .. Len(r) /\ ~(i - 1 < k) /\ (i - 1) + 1 = i
        BY <1>1, <3>3
      <4>2. r[i - 1] = q[(i - 1) + 1]
        BY <1>2, <4>1
      <4>3. r[i - 1] = x
        BY <3>1, <4>1, <4>2
      <4> QED
        BY <4>1, <4>3 DEF In
    <3> QED
      BY <2>2, <3>1, <3>2, <3>3
  <2> QED
    BY <2>1, <2>2
<1> QED
  BY <1>1, <1>3, <1>4

LEMMA AppendedElements ==
  ASSUME NEW S, NEW q \in Seq(S), NEW x \in S, NEW r, r = Append(q, x)
  PROVE  /\ r \in Seq(S) /\ Len(r) = Len(q) + 1 /\ Len(q) \in Nat
         /\ (\A i \in 1 .. Len(q) : r[i] = q[i]) /\ r[Len(q) + 1] = x
         /\ \A y : In(y, r) <=> In(y, q) \/ y = x
         /\ Distinct(q) /\ ~In(x, q) => Distinct(r)
<1>1. /\ r \in Seq(S) /\ Len(r) = Len(q) + 1 /\ Len(q) \in Nat
      /\ (\A i \in 1 .. Len(q) : r[i] = q[i]) /\ r[Len(q) + 1] = x
  OBVIOUS
<1>2. \A i : i \in 1 .. Len(r) <=> i \in 1 .. Len(q) \/ i = Len(q) + 1
  BY <1>1
<1>3. ASSUME NEW y PROVE In(y, r) <=> In(y, q) \/ y = x
  BY <1>1, <1>2 DEF In
<1>4. ASSUME Distinct(q), ~In(x, q) PROVE Distinct(r)
  BY <1>1, <1>2, <1>4 DEF Distinct, In
<1> QED
  BY <1>1, <1>3, <1>4

\* A sequence has no more elements than places.
LEMMA ElementsBound ==
  ASSUME NEW S, NEW q \in Seq(S)
  PROVE  LET T == {q[i] : i \in 1 .. Len(q)} IN IsFiniteSet(T) /\ Cardinality(T) \in Nat /\ Cardinality(T) <= Len(q)
<1> DEFINE n == Len(q)
           T == {q[i] : i \in 1 .. n}
<1>1. n \in Nat /\ q \in [1 .. n -> T]
  OBVIOUS
<1>2. q \in Surjection(1 .. n, T)
  BY <1>1 DEF Surjection
<1>3. IsFiniteSet(1 .. n) /\ Cardinality(1 .. n) = n
  <2>1. 1 \in Int /\ n \in Int /\ n - 1 + 1 = n /\ (1 > n => n = 0)
    BY <1>1
  <2> HIDE DEF n
  <2>2. IsFiniteSet(1 .. n) /\ Cardinality(1 .. n) = IF 1 > n THEN 0 ELSE n - 1 + 1
    BY <2>1, FS_Interval
  <2> QED
    BY <2>1, <2>2
<1> HIDE DEF T, n
<1>4. IsFiniteSet(T) /\ Cardinality(T) <= Cardinality(1 .. n)
  BY <1>2, <1>3, FS_Surjection
<1>5. Cardinality(T) \in Nat
  BY <1>4, FS_CardinalityType
<1> QED
  BY <1>3, <1>4, <1>5 DEF T, n

----------------------------------------------------------------------------
(* Steps of the runtime *)

LEMMA JobFields ==
  ASSUME job \in [Jobs -> JobType], NEW j \in Jobs
  PROVE  /\ job[j] \in JobType /\ job[j].thread \in Threads /\ job[j].finished \in BOOLEAN
         /\ job[j].cancelled \in BOOLEAN /\ job[j].results \in Nat
BY DEF JobType

LEMMA RuntimeFields ==
  ASSUME runtime \in RuntimeType
  PROVE  /\ runtime.jobs \in Seq(Jobs) /\ runtime.admitted \in Nat /\ runtime.stopping \in BOOLEAN
         /\ Len(runtime.jobs) \in Nat
BY DEF RuntimeType

LEMMA CapacityType == RuntimeCapacity \in Nat
BY RuntimeAssumption

LEMMA SlotsValue ==
  ASSUME runtime \in RuntimeType
  PROVE  /\ coordinator.at \in {"join", "release"} => Slots = Len(runtime.jobs) + 1
         /\ coordinator.at \notin {"join", "release"} => Slots = Len(runtime.jobs)
<1>1. Len(runtime.jobs) \in Nat
  BY RuntimeFields
<1>2. ASSUME coordinator.at \in {"join", "release"} PROVE Slots = Len(runtime.jobs) + 1
  BY <1>2 DEF Slots
<1>3. ASSUME coordinator.at \notin {"join", "release"} PROVE Slots = Len(runtime.jobs)
  <2>1. Slots = Len(runtime.jobs) + 0
    BY <1>3 DEF Slots
  <2> QED
    BY <1>1, <2>1
<1> QED
  BY <1>2, <1>3

LEMMA CoordinatorFields ==
  ASSUME coordinator \in CoordinatorType
  PROVE  /\ coordinator.at \in {"scan", "asleep", "join", "release", "settle", "done"}
         /\ coordinator.retired \in Seq(Jobs)
BY DEF CoordinatorType

\* The coordinator between scans: woken, asleep or gone.
LEMMA CoordinatorIdles ==
  ASSUME RuntimeInv, UNCHANGED <<runtime, job>>, shutdown' \in ShutdownType,
         coordinator' \in CoordinatorType, ~Retiring, ~Retiring',
         coordinator'.at = "done" => runtime.stopping = TRUE /\ runtime.admitted = 0
  PROVE  RuntimeInv'
<1>1. Types' /\ (Distinct(runtime.jobs))'
  BY DEF RuntimeInv, Types
<1>2. SlotsKnown'
  BY DEF RuntimeInv, SlotsKnown, Slots, Retiring
<1>3. \A j \in Jobs : JobKnown(j)'
  BY DEF RuntimeInv, JobKnown, Listed, Leaving
<1> QED
  BY <1>1, <1>2, <1>3 DEF RuntimeInv

LEMMA WokenFacts ==
  ASSUME coordinator \in CoordinatorType, NEW c, c = Woken(coordinator)
  PROVE  c = coordinator \/ (coordinator.at = "asleep" /\ c \in CoordinatorType /\ c.at = "scan")
BY DEF Woken, CoordinatorType

LEMMA ScanSteps ==
  ASSUME RuntimeInv, Scan
  PROVE  RuntimeInv'
<1>0. /\ Types /\ SlotsKnown /\ Distinct(runtime.jobs) /\ (\A j \in Jobs : JobKnown(j))
      /\ runtime \in RuntimeType /\ coordinator \in CoordinatorType /\ job \in [Jobs -> JobType]
      /\ shutdown \in ShutdownType
  BY DEF RuntimeInv, Types
<1>1. coordinator.at = "scan" /\ UNCHANGED <<job, shutdown>> /\ ~Retiring
  BY DEF Scan, Retiring
<1>2. runtime.jobs \in Seq(Jobs) /\ runtime.admitted \in Nat /\ Len(runtime.jobs) \in Nat
  BY <1>0, RuntimeFields
<1> DEFINE I == {i \in 1 .. Len(runtime.jobs) : job[runtime.jobs[i]].finished}
<1>3. Ready = IF I # {} THEN Min(I) ELSE 0
  BY DEF Ready, SelectInSeq
<1>4. CASE Ready # 0
  <2> DEFINE k == Ready
             j == runtime.jobs[k]
             rest == RemoveAt(runtime.jobs, k)
  <2>1. k \in 1 .. Len(runtime.jobs) /\ job[runtime.jobs[k]].finished
    <3>1. I \in SUBSET Nat /\ I # {} /\ k = Min(I)
      BY <1>2, <1>3, <1>4
    <3> HIDE DEF I, k
    <3>2. k \in I
      BY <3>1, LeastNumber
    <3> QED
      BY <3>2 DEF I
  <2>2. /\ runtime' = [runtime EXCEPT !.jobs = rest]
        /\ coordinator' = [at |-> "join", retired |-> <<j>>]
    BY <1>4 DEF Scan
  <2> HIDE DEF k
  <2>3. j \in Jobs /\ job[j].finished = TRUE /\ In(j, runtime.jobs)
    <3>1. j \in Jobs /\ In(j, runtime.jobs)
      BY <1>2, <2>1 DEF In
    <3> QED
      BY <1>0, <2>1, <3>1, JobFields
  <2>4. /\ rest \in Seq(Jobs) /\ Len(rest) = Len(runtime.jobs) - 1 /\ Distinct(rest)
        /\ \A x : In(x, rest) <=> In(x, runtime.jobs) /\ x # j
    <3> DEFINE q == runtime.jobs
    <3>1. q \in Seq(Jobs) /\ k \in 1 .. Len(q) /\ Distinct(q)
      BY <1>0, <1>2, <2>1
    <3> HIDE DEF q
    <3>2. /\ RemoveAt(q, k) \in Seq(Jobs) /\ Len(RemoveAt(q, k)) = Len(q) - 1 /\ Distinct(RemoveAt(q, k))
          /\ \A x : In(x, RemoveAt(q, k)) <=> In(x, q) /\ x # q[k]
      BY <3>1, RemovedElements
    <3> QED
      BY <3>2 DEF q
  <2> HIDE DEF rest, j
  <2>5. /\ runtime' \in RuntimeType /\ runtime'.jobs = rest /\ runtime'.admitted = runtime.admitted
        /\ runtime'.stopping = runtime.stopping
    BY <1>0, <2>2, <2>4 DEF RuntimeType
  <2>6. /\ coordinator' \in CoordinatorType /\ coordinator'.at = "join"
        /\ Head(coordinator'.retired) = j /\ coordinator'.retired # <<>>
    <3>1. <<j>> \in Seq(Jobs) /\ Head(<<j>>) = j /\ <<j>> # <<>>
      BY <2>3
    <3> QED
      BY <2>2, <3>1 DEF CoordinatorType
  <2>7. Types' /\ (Distinct(runtime.jobs))' /\ Retiring'
    BY <1>0, <1>1, <2>4, <2>5, <2>6 DEF Types, Retiring
  <2>8. SlotsKnown'
    <3>1. Slots = Len(runtime.jobs)
      BY <1>0, <1>1, SlotsValue
    <3>2. Slots' = Len(rest) + 1
      BY <2>5, <2>6 DEF Slots
    <3>3. Slots' = Slots
      BY <1>2, <2>4, <3>1, <3>2
    <3> QED
      BY <1>0, <2>5, <2>6, <3>3 DEF SlotsKnown
  <2>9. ASSUME NEW x \in Jobs PROVE JobKnown(x)'
    <3>1. (Listed(x)' <=> Listed(x) /\ x # j) /\ (Leaving(x)' <=> x = j) /\ ~Leaving(x)
      BY <1>1, <2>4, <2>5, <2>6, <2>7 DEF Listed, Leaving
    <3>2. Listed(j) /\ JobKnown(x) /\ JobKnown(j)
      BY <1>0, <2>3 DEF Listed
    <3> QED
      BY <1>1, <2>3, <2>6, <3>1, <3>2 DEF JobKnown
  <2> QED
    BY <2>6, <2>7, <2>8, <2>9 DEF RuntimeInv
<1>5. CASE Ready = 0
  <2> DEFINE next == IF MayLeave THEN "done" ELSE "asleep"
  <2>1. coordinator' = [coordinator EXCEPT !.at = next] /\ UNCHANGED runtime
    BY <1>5 DEF Scan
  <2>2. coordinator' \in CoordinatorType /\ coordinator'.at \in {"done", "asleep"}
        /\ (coordinator'.at = "done" => MayLeave)
    BY <1>0, <2>1 DEF CoordinatorType
  <2>3. MayLeave => runtime.stopping = TRUE /\ runtime.admitted = 0
    BY <1>0, RuntimeFields DEF MayLeave
  <2> QED
    BY <1>0, <1>1, <2>1, <2>2, <2>3, CoordinatorIdles DEF Retiring
<1> QED
  BY <1>4, <1>5

LEMMA RuntimeSteps ==
  ASSUME RuntimeInv, RuntimeNext
  PROVE  RuntimeInv'
<1>0. /\ Types /\ SlotsKnown /\ Distinct(runtime.jobs) /\ (\A j \in Jobs : JobKnown(j))
      /\ runtime \in RuntimeType /\ coordinator \in CoordinatorType /\ job \in [Jobs -> JobType]
      /\ shutdown \in ShutdownType /\ (Retiring => coordinator.retired # <<>>)
  BY DEF RuntimeInv, Types
<1>1. runtime.jobs \in Seq(Jobs) /\ runtime.admitted \in Nat /\ Len(runtime.jobs) \in Nat
  BY <1>0, RuntimeFields
<1>2. ASSUME NEW j \in Jobs, NotifyFinished(j) PROVE RuntimeInv'
  <2>1. /\ job[j].thread = "marked" /\ job' = [job EXCEPT ![j].thread = "exited"]
        /\ coordinator' = Woken(coordinator) /\ UNCHANGED <<runtime, shutdown>>
    BY <1>2 DEF NotifyFinished
  <2>2. \/ coordinator' = coordinator
        \/ coordinator.at = "asleep" /\ coordinator' \in CoordinatorType /\ coordinator'.at = "scan"
    BY <1>0, <2>1, WokenFacts
  <2>3. /\ job' \in [Jobs -> JobType] /\ job'[j].thread = "exited" /\ job'[j].finished = job[j].finished
        /\ job'[j].results = job[j].results /\ \A x \in Jobs \ {j} : job'[x] = job[x]
    BY <1>0, <2>1 DEF JobType, Threads
  <2>4. Types' /\ (Distinct(runtime.jobs))' /\ SlotsKnown' /\ (Retiring' => coordinator'.retired # <<>>)
    BY <1>0, <2>1, <2>2, <2>3 DEF Types, SlotsKnown, Slots, Retiring
  <2>5. ASSUME NEW x \in Jobs PROVE JobKnown(x)'
    <3>1. (Listed(x)' <=> Listed(x)) /\ (Leaving(x)' <=> Leaving(x))
          /\ (Leaving(x) => coordinator' = coordinator)
      BY <2>1, <2>2 DEF Listed, Leaving, Retiring
    <3>2. JobKnown(x)
      BY <1>0
    <3>3. CASE x = j
      BY <2>1, <2>3, <3>1, <3>2, <3>3 DEF JobKnown
    <3>4. CASE x # j
      BY <2>3, <3>1, <3>2, <3>4 DEF JobKnown
    <3> QED
      BY <3>3, <3>4
  <2> QED
    BY <2>4, <2>5 DEF RuntimeInv
<1>3. CASE Spurious
  <2>1. /\ coordinator.at = "asleep" /\ coordinator' \in CoordinatorType /\ coordinator'.at = "scan"
        /\ UNCHANGED <<runtime, job, shutdown>>
    BY <1>0, <1>3 DEF Spurious, CoordinatorType
  <2> QED
    BY <1>0, <2>1, CoordinatorIdles DEF Retiring
<1>4. CASE Join
  <2>1. /\ coordinator.at = "join" /\ job[Head(coordinator.retired)].thread = "exited"
        /\ coordinator' \in CoordinatorType /\ coordinator'.at = "release"
        /\ coordinator'.retired = coordinator.retired /\ UNCHANGED <<runtime, job, shutdown>>
    BY <1>0, <1>4 DEF Join, CoordinatorType
  <2>2. Types' /\ (Distinct(runtime.jobs))' /\ SlotsKnown' /\ (Retiring' => coordinator'.retired # <<>>)
    BY <1>0, <2>1 DEF Types, SlotsKnown, Slots, Retiring
  <2>3. \A j \in Jobs : JobKnown(j)'
    BY <1>0, <2>1 DEF JobKnown, Listed, Leaving, Retiring
  <2> QED
    BY <2>2, <2>3 DEF RuntimeInv
<1>5. CASE Release
  <2> DEFINE next == runtime.admitted - 1
  <2>1. /\ coordinator.at = "release" /\ coordinator' \in CoordinatorType /\ coordinator'.at = "settle"
        /\ coordinator'.retired = coordinator.retired /\ UNCHANGED <<job, shutdown>>
        /\ runtime' = [runtime EXCEPT !.admitted = next]
    BY <1>0, <1>5 DEF Release, CoordinatorType
  <2>2. next = Len(runtime.jobs) /\ next \in Nat /\ next <= RuntimeCapacity
    <3>1. runtime.admitted = Len(runtime.jobs) + 1 /\ runtime.admitted <= RuntimeCapacity
      BY <1>0, <2>1, SlotsValue DEF SlotsKnown
    <3> QED
      BY <1>1, <3>1, CapacityType
  <2> HIDE DEF next
  <2>3. runtime' \in RuntimeType /\ runtime'.jobs = runtime.jobs /\ runtime'.admitted = next
    BY <1>0, <2>1, <2>2 DEF RuntimeType
  <2>4. Types' /\ (Distinct(runtime.jobs))' /\ SlotsKnown' /\ (Retiring' => coordinator'.retired # <<>>)
    BY <1>0, <1>1, <2>1, <2>2, <2>3 DEF Types, SlotsKnown, Slots, Retiring
  <2>5. \A j \in Jobs : JobKnown(j)'
    BY <1>0, <2>1, <2>3 DEF JobKnown, Listed, Leaving, Retiring
  <2> QED
    BY <2>4, <2>5 DEF RuntimeInv
<1>6. CASE Settle
  <2> DEFINE j == Head(coordinator.retired)
             next == job[j].results + 1
  <2>1. /\ coordinator.at = "settle" /\ Retiring /\ coordinator' = [at |-> "scan", retired |-> <<>>]
        /\ job' = [job EXCEPT ![j].results = next] /\ UNCHANGED <<runtime, shutdown>>
    BY <1>6 DEF Settle, Retiring
  <2>2. j \in Jobs /\ Leaving(j)
    <3>1. coordinator.retired \in Seq(Jobs) /\ coordinator.retired # <<>>
      BY <1>0, <2>1, CoordinatorFields
    <3> QED
      BY <2>1, <3>1 DEF Leaving
  <2>3. JobKnown(j) /\ job[j].thread = "exited" /\ job[j].results = 0 /\ ~Listed(j)
    BY <1>0, <2>1, <2>2 DEF JobKnown
  <2>4. next = 1
    BY <2>3
  <2> HIDE DEF j, next
  <2>5. /\ job' \in [Jobs -> JobType] /\ job'[j].thread = job[j].thread /\ job'[j].finished = job[j].finished
        /\ job'[j].results = next /\ \A x \in Jobs \ {j} : job'[x] = job[x]
    <3>1. next \in Nat
      BY <2>4
    <3> QED
      BY <1>0, <2>1, <2>2, <3>1 DEF JobType
  <2>6. coordinator' \in CoordinatorType /\ coordinator'.at = "scan"
    BY <2>1 DEF CoordinatorType
  <2>7. Types' /\ (Distinct(runtime.jobs))' /\ SlotsKnown' /\ ~Retiring'
    BY <1>0, <2>1, <2>5, <2>6 DEF Types, SlotsKnown, Slots, Retiring
  <2>8. ASSUME NEW x \in Jobs PROVE JobKnown(x)'
    <3>1. (Listed(x)' <=> Listed(x)) /\ ~Leaving(x)' /\ (Leaving(x) <=> x = j) /\ JobKnown(x)
      BY <1>0, <2>1, <2>7 DEF Listed, Leaving, j
    <3>2. CASE x = j
      BY <2>3, <2>4, <2>5, <3>1, <3>2 DEF JobKnown
    <3>3. CASE x # j
      BY <2>5, <3>1, <3>3 DEF JobKnown
    <3> QED
      BY <3>2, <3>3
  <2> QED
    BY <2>7, <2>8 DEF RuntimeInv
<1>7. CASE BeginShutdown
  <2>1. /\ UNCHANGED <<job, coordinator>> /\ runtime' \in RuntimeType /\ runtime'.jobs = runtime.jobs
        /\ runtime'.admitted = runtime.admitted /\ runtime'.stopping = TRUE
        /\ shutdown' = [at |-> "cancel", active |-> runtime.jobs]
    BY <1>0, <1>7 DEF BeginShutdown, RuntimeType
  <2>2. shutdown' \in ShutdownType
    BY <1>1, <2>1 DEF ShutdownType
  <2>3. Types' /\ (Distinct(runtime.jobs))' /\ SlotsKnown' /\ (Retiring' => coordinator'.retired # <<>>)
    BY <1>0, <2>1, <2>2 DEF Types, SlotsKnown, Slots, Retiring
  <2>4. \A j \in Jobs : JobKnown(j)'
    BY <1>0, <2>1 DEF JobKnown, Listed, Leaving, Retiring
  <2> QED
    BY <2>3, <2>4 DEF RuntimeInv
<1>8. CASE CancelActive
  <2>1. UNCHANGED <<runtime, coordinator>>
    BY <1>8 DEF CancelActive
  <2>2. /\ job' \in [Jobs -> JobType] /\ shutdown' \in ShutdownType
        /\ \A x \in Jobs : /\ job'[x].thread = job[x].thread /\ job'[x].finished = job[x].finished
                           /\ job'[x].results = job[x].results
    <3>1. CASE shutdown.active = <<>>
      BY <1>0, <1>8, <3>1 DEF CancelActive, ShutdownType
    <3>2. CASE shutdown.active # <<>>
      <4> DEFINE j == Head(shutdown.active)
      <4>1. shutdown.active \in Seq(Jobs)
        BY <1>0 DEF ShutdownType
      <4>2. j \in Jobs /\ Tail(shutdown.active) \in Seq(Jobs)
        BY <3>2, <4>1
      <4>3. job' = [job EXCEPT ![j].cancelled = TRUE] /\ shutdown' = [shutdown EXCEPT !.active = Tail(@)]
        BY <1>8, <3>2 DEF CancelActive
      <4> HIDE DEF j
      <4> QED
        BY <1>0, <4>2, <4>3 DEF ShutdownType, JobType
    <3> QED
      BY <3>1, <3>2
  <2>3. Types' /\ (Distinct(runtime.jobs))' /\ SlotsKnown' /\ (Retiring' => coordinator'.retired # <<>>)
    BY <1>0, <2>1, <2>2 DEF Types, SlotsKnown, Slots, Retiring
  <2>4. \A j \in Jobs : JobKnown(j)'
    BY <1>0, <2>1, <2>2 DEF JobKnown, Listed, Leaving, Retiring
  <2> QED
    BY <2>3, <2>4 DEF RuntimeInv
<1>9. CASE EndShutdown
  <2>1. /\ UNCHANGED <<runtime, job>> /\ shutdown' \in ShutdownType /\ coordinator' = Woken(coordinator)
    BY <1>0, <1>9 DEF EndShutdown, ShutdownType
  <2>2. CASE coordinator' = coordinator
    BY <1>0, <2>1, <2>2 DEF RuntimeInv, Types, SlotsKnown, Slots, JobKnown, Listed, Leaving, Retiring
  <2>3. CASE coordinator.at = "asleep" /\ coordinator' \in CoordinatorType /\ coordinator'.at = "scan"
    BY <2>1, <2>3, CoordinatorIdles DEF Retiring
  <2> QED
    BY <1>0, <2>1, <2>2, <2>3, WokenFacts
<1> QED
  BY <1>2, <1>3, <1>4, <1>5, <1>6, <1>7, <1>8, <1>9, ScanSteps DEF RuntimeNext, Reap, Shut

LEMMA AdmitSteps ==
  ASSUME RuntimeInv, NEW j \in Jobs, Admit(j)
  PROVE  /\ RuntimeInv' /\ job'[j].thread = "running" /\ job[j].thread = "none"
         /\ \A x \in Jobs \ {j} : job'[x] = job[x]
<1>0. /\ Types /\ SlotsKnown /\ Distinct(runtime.jobs) /\ (\A x \in Jobs : JobKnown(x))
      /\ runtime \in RuntimeType /\ coordinator \in CoordinatorType /\ job \in [Jobs -> JobType]
      /\ shutdown \in ShutdownType /\ (Retiring => coordinator.retired # <<>>)
  BY DEF RuntimeInv, Types
<1>1. runtime.jobs \in Seq(Jobs) /\ runtime.admitted \in Nat /\ Len(runtime.jobs) \in Nat
      /\ runtime.stopping \in BOOLEAN
  BY <1>0, RuntimeFields
<1> DEFINE list == Append(runtime.jobs, j)
           next == runtime.admitted + 1
<1>2. /\ job[j].thread = "none" /\ runtime.stopping = FALSE /\ runtime.admitted # RuntimeCapacity
      /\ runtime' = [runtime EXCEPT !.jobs = list, !.admitted = next]
      /\ job' = [job EXCEPT ![j].thread = "running"] /\ UNCHANGED <<coordinator, shutdown>>
  BY <1>1 DEF Admit, Refused
<1>3. ~Listed(j) /\ ~Leaving(j) /\ job[j].results = 0 /\ job[j].finished = FALSE
  <2>1. JobKnown(j) /\ job[j].finished \in BOOLEAN
    BY <1>0, JobFields
  <2> QED
    BY <1>2, <2>1 DEF JobKnown
<1>4. /\ list \in Seq(Jobs) /\ Len(list) = Len(runtime.jobs) + 1 /\ Distinct(list)
      /\ \A y : In(y, list) <=> In(y, runtime.jobs) \/ y = j
  <2> DEFINE q == runtime.jobs
  <2>1. q \in Seq(Jobs) /\ Distinct(q) /\ ~In(j, q)
    BY <1>0, <1>1, <1>3 DEF Listed
  <2> HIDE DEF q
  <2>2. /\ Append(q, j) \in Seq(Jobs) /\ Len(Append(q, j)) = Len(q) + 1 /\ Distinct(Append(q, j))
        /\ \A y : In(y, Append(q, j)) <=> In(y, q) \/ y = j
    BY <2>1, AppendedElements
  <2> QED
    BY <2>2 DEF q
<1>5. next \in Nat /\ next <= RuntimeCapacity /\ next = runtime.admitted + 1
  <2>1. runtime.admitted <= RuntimeCapacity
    BY <1>0 DEF SlotsKnown
  <2> QED
    BY <1>1, <1>2, <2>1, CapacityType
<1> HIDE DEF list, next
<1>6. /\ runtime' \in RuntimeType /\ runtime'.jobs = list /\ runtime'.admitted = next
      /\ runtime'.stopping = runtime.stopping
  BY <1>0, <1>2, <1>4, <1>5 DEF RuntimeType
<1>7. /\ job' \in [Jobs -> JobType] /\ job'[j].thread = "running" /\ job'[j].finished = job[j].finished
      /\ job'[j].results = job[j].results /\ \A x \in Jobs \ {j} : job'[x] = job[x]
  BY <1>0, <1>2 DEF JobType, Threads
<1>8. Types' /\ (Distinct(runtime.jobs))' /\ (Retiring' => coordinator'.retired # <<>>)
  BY <1>0, <1>2, <1>4, <1>6, <1>7 DEF Types, Retiring
<1>9. SlotsKnown'
  <2>1. coordinator.at # "done"
    BY <1>0, <1>2 DEF SlotsKnown
  <2>2. /\ coordinator.at \in {"join", "release"} => Slots' = Len(list) + 1
        /\ coordinator.at \notin {"join", "release"} => Slots' = Len(list)
    BY <1>2, <1>4, <1>6 DEF Slots
  <2>3. Slots' = Slots + 1
    BY <1>0, <1>1, <1>4, <2>2, SlotsValue
  <2> QED
    BY <1>0, <1>2, <1>5, <1>6, <2>1, <2>3 DEF SlotsKnown
<1>10. ASSUME NEW x \in Jobs PROVE JobKnown(x)'
  <2>1. (Listed(x)' <=> Listed(x) \/ x = j) /\ (Leaving(x)' <=> Leaving(x)) /\ JobKnown(x)
    BY <1>0, <1>2, <1>4, <1>6 DEF Listed, Leaving, Retiring
  <2>2. CASE x = j
    BY <1>3, <1>7, <2>1, <2>2 DEF JobKnown
  <2>3. CASE x # j
    BY <1>2, <1>7, <2>1, <2>3 DEF JobKnown
  <2> QED
    BY <2>2, <2>3
<1> QED
  BY <1>2, <1>7, <1>8, <1>9, <1>10 DEF RuntimeInv

LEMMA FinishSteps ==
  ASSUME RuntimeInv, NEW j \in Jobs, Finish(j)
  PROVE  /\ RuntimeInv' /\ job'[j].thread = "marked" /\ job[j].thread = "running"
         /\ \A x \in Jobs \ {j} : job'[x] = job[x]
<1>0. /\ Types /\ SlotsKnown /\ Distinct(runtime.jobs) /\ (\A x \in Jobs : JobKnown(x))
      /\ job \in [Jobs -> JobType] /\ (Retiring => coordinator.retired # <<>>)
  BY DEF RuntimeInv, Types
<1>1. /\ job[j].thread = "running" /\ UNCHANGED <<runtime, coordinator, shutdown>>
      /\ job' = [job EXCEPT ![j].thread = "marked", ![j].finished = TRUE]
  BY DEF Finish
<1>2. /\ job' \in [Jobs -> JobType] /\ job'[j].thread = "marked" /\ job'[j].finished = TRUE
      /\ job'[j].results = job[j].results /\ \A x \in Jobs \ {j} : job'[x] = job[x]
  BY <1>0, <1>1 DEF JobType, Threads
<1>3. Types' /\ (Distinct(runtime.jobs))' /\ SlotsKnown' /\ (Retiring' => coordinator'.retired # <<>>)
  BY <1>0, <1>1, <1>2 DEF Types, SlotsKnown, Slots, Retiring
<1>4. ASSUME NEW x \in Jobs PROVE JobKnown(x)'
  <2>1. (Listed(x)' <=> Listed(x)) /\ (Leaving(x)' <=> Leaving(x)) /\ JobKnown(x)
    BY <1>0, <1>1 DEF Listed, Leaving, Retiring
  <2>2. CASE x = j
    BY <1>1, <1>2, <2>1, <2>2 DEF JobKnown
  <2>3. CASE x # j
    BY <1>1, <1>2, <2>1, <2>3 DEF JobKnown
  <2> QED
    BY <2>2, <2>3
<1> QED
  BY <1>1, <1>2, <1>3, <1>4 DEF RuntimeInv

----------------------------------------------------------------------------
(* The event stream *)

Grows(e) ==
  /\ Len(Published') = Len(Published) + 1
  /\ \A i \in 1 .. Len(Published) : Published'[i] = Published[i]
  /\ Published'[Len(Published) + 1] = e

LEMMA Numbers == EventCapacity \in Nat /\ MaxSequence \in Nat /\ MaxPeers \in Nat /\ MaxSequence > 3
                 /\ EventCapacity >= 4
BY ListenerAssumption

LEMMA ListenerFields ==
  ASSUME NEW l \in ListenerType
  PROVE  /\ l.pending \in Seq(Peers) /\ l.nextId \in 0 .. MaxPeers /\ l.stopping \in BOOLEAN
         /\ l.failure \in {"None", "EventOverflow", "Source"} /\ l.state \in States
         /\ l.sequence \in Nat /\ l.queue \in Seq(Event) /\ Len(l.queue) \in Nat
BY DEF ListenerType

LEMMA PublishedType ==
  ASSUME ListenerTypes
  PROVE  Published \in Seq(Event) /\ Len(Published) \in Nat
<1> DEFINE q == listener.queue
<1>1. taken \in Seq(Event) /\ q \in Seq(Event)
  BY ListenerFields DEF ListenerTypes
<1> HIDE DEF q
<1>2. taken \o q \in Seq(Event)
  BY <1>1, ConcatProperties
<1>3. Published \in Seq(Event)
  BY <1>2 DEF Published, q
<1> QED
  BY <1>3

LEMMA PublishedGrows ==
  ASSUME ListenerTypes, taken' = taken, NEW e \in Event, listener'.queue = Append(listener.queue, e)
  PROVE  Grows(e) /\ Len(listener'.queue) = Len(listener.queue) + 1
<1> DEFINE q == listener.queue
           r == Append(q, e)
           n == Len(taken)
<1>1. taken \in Seq(Event) /\ q \in Seq(Event) /\ n \in Nat /\ Len(q) \in Nat
  BY ListenerFields DEF ListenerTypes
<1>2. r \in Seq(Event) /\ Len(r) = Len(q) + 1 /\ (\A i \in 1 .. Len(q) : r[i] = q[i]) /\ r[Len(q) + 1] = e
  BY <1>1
<1>3. Published = taken \o q /\ Published' = taken \o r
  BY DEF Published
<1> HIDE DEF q, r
<1>4. /\ Len(taken \o q) = n + Len(q)
      /\ \A i \in 1 .. n + Len(q) : (taken \o q)[i] = IF i <= n THEN taken[i] ELSE q[i - n]
  BY <1>1, ConcatProperties
<1>5. /\ Len(taken \o r) = n + Len(r)
      /\ \A i \in 1 .. n + Len(r) : (taken \o r)[i] = IF i <= n THEN taken[i] ELSE r[i - n]
  BY <1>1, <1>2, ConcatProperties
<1>6. Len(Published) = n + Len(q) /\ Len(Published') = Len(Published) + 1
  BY <1>1, <1>2, <1>3, <1>4, <1>5
<1>7. ASSUME NEW i \in 1 .. Len(Published) PROVE Published'[i] = Published[i]
  <2>1. i \in 1 .. n + Len(q) /\ i \in 1 .. n + Len(r) /\ (~(i <= n) => i - n \in 1 .. Len(q))
    BY <1>1, <1>2, <1>6
  <2> QED
    BY <1>2, <1>3, <1>4, <1>5, <2>1
<1>8. Published'[Len(Published) + 1] = e
  <2> DEFINE k == Len(Published) + 1
  <2>1. k \in 1 .. n + Len(r) /\ ~(k <= n) /\ k - n = Len(q) + 1
    BY <1>1, <1>2, <1>6
  <2> QED
    BY <1>2, <1>3, <1>5, <2>1
<1> QED
  BY <1>2, <1>6, <1>7, <1>8 DEF Grows, q, r

\* Taking an event moves it, and tells nothing new.
LEMMA PublishedKept ==
  ASSUME ListenerTypes, listener.queue # <<>>, taken' = Append(taken, Head(listener.queue)),
         listener'.queue = Tail(listener.queue)
  PROVE  Published' = Published /\ Len(listener'.queue) <= Len(listener.queue)
<1> DEFINE q == listener.queue
           n == Len(taken)
           t == Append(taken, Head(q))
           r == Tail(q)
<1>1. taken \in Seq(Event) /\ q \in Seq(Event) /\ q # <<>> /\ n \in Nat
  BY ListenerFields DEF ListenerTypes
<1> HIDE DEF q
<1>2. Len(q) \in Nat /\ Len(q) >= 1 /\ Head(q) = q[1] /\ Head(q) \in Event
  BY <1>1, EmptySeq
<1>3. r \in Seq(Event) /\ Len(r) = Len(q) - 1 /\ \A i \in 1 .. Len(q) - 1 : r[i] = q[i + 1]
  BY <1>1, <1>2
<1>4. t \in Seq(Event) /\ Len(t) = n + 1 /\ (\A i \in 1 .. n : t[i] = taken[i]) /\ t[n + 1] = q[1]
  BY <1>1, <1>2
<1>5. Published = taken \o q /\ Published' = t \o r
  BY DEF Published, q
<1> HIDE DEF r, t
<1>6. /\ taken \o q \in Seq(Event) /\ Len(taken \o q) = n + Len(q)
      /\ \A i \in 1 .. n + Len(q) : (taken \o q)[i] = IF i <= n THEN taken[i] ELSE q[i - n]
  BY <1>1, ConcatProperties
<1>7. /\ t \o r \in Seq(Event) /\ Len(t \o r) = Len(t) + Len(r)
      /\ \A i \in 1 .. Len(t) + Len(r) : (t \o r)[i] = IF i <= Len(t) THEN t[i] ELSE r[i - Len(t)]
  BY <1>3, <1>4, ConcatProperties
<1>8. Len(t) + Len(r) = n + Len(q)
  BY <1>1, <1>2, <1>3, <1>4
<1>9. ASSUME NEW i \in 1 .. n + Len(q) PROVE (t \o r)[i] = (taken \o q)[i]
  <2>1. CASE i <= n
    BY <1>1, <1>4, <1>6, <1>7, <1>8, <2>1
  <2>2. CASE i = n + 1
    <3>1. i - n = 1 /\ ~(i <= n) /\ i <= Len(t)
      BY <1>1, <1>4, <2>2
    <3> QED
      BY <1>4, <1>6, <1>7, <1>8, <2>2, <3>1
  <2>3. CASE i > n + 1
    <3>1. ~(i <= Len(t)) /\ i - Len(t) \in 1 .. Len(q) - 1 /\ (i - Len(t)) + 1 = i - n /\ ~(i <= n)
      BY <1>1, <1>2, <1>4, <2>3
    <3>2. (t \o r)[i] = r[i - Len(t)] /\ (taken \o q)[i] = q[i - n]
      BY <1>6, <1>7, <1>8, <3>1
    <3> QED
      BY <1>3, <3>1, <3>2
  <2>4. i <= n \/ i = n + 1 \/ i > n + 1
    BY <1>1, <1>2
  <2> QED
    BY ONLY <2>1, <2>2, <2>3, <2>4
<1>10. t \o r = taken \o q
  BY <1>6, <1>7, <1>8, <1>9, SeqEqual
<1>11. Published' = Published
  BY <1>5, <1>10
<1>12. listener'.queue = r /\ listener.queue = q /\ Len(r) <= Len(q)
  BY <1>2, <1>3 DEF q, r
<1> QED
  BY <1>11, <1>12

----------------------------------------------------------------------------
(* What is published *)

EventKinds == {"State", "Incoming"} \cup Outcomes
EventOf(l, kind, p) == [kind |-> kind, peer |-> p, state |-> l.state]

LEMMA PublishFacts ==
  ASSUME NEW l \in ListenerType, NEW kind \in EventKinds, NEW p \in 0 .. MaxPeers,
         NEW r, r = Publish(l, kind, p)
  PROVE  /\ r \in ListenerType /\ r.pending = l.pending /\ r.nextId = l.nextId
         /\ r.stopping = l.stopping /\ r.state = l.state /\ r.sequence = l.sequence + 1
         /\ r.queue = Append(l.queue, EventOf(l, kind, p)) /\ EventOf(l, kind, p) \in Event
<1> DEFINE e == EventOf(l, kind, p)
           next == l.sequence + 1
           q == Append(l.queue, e)
<1>1. e \in Event
  BY ListenerFields DEF EventOf, Event, EventKinds, States
<1>2. next \in Nat /\ q \in Seq(Event)
  <2> HIDE DEF e
  <2> QED
    BY <1>1, ListenerFields
<1>3. r = [l EXCEPT !.sequence = next, !.queue = q]
  BY DEF Publish, EventOf
<1> HIDE DEF e, next, q
<1>4. r \in ListenerType /\ r.pending = l.pending /\ r.nextId = l.nextId
      /\ r.stopping = l.stopping /\ r.state = l.state /\ r.sequence = next /\ r.queue = q
  BY <1>2, <1>3 DEF ListenerType
<1> QED
  BY <1>1, <1>4 DEF e, next, q

LEMMA OverflowFacts ==
  ASSUME NEW l \in ListenerType, NEW r, r = Overflow(l)
  PROVE  /\ r \in ListenerType /\ r.pending = l.pending /\ r.nextId = l.nextId /\ r.stopping = TRUE
         /\ r.state = l.state /\ r.sequence = l.sequence /\ r.queue = l.queue
BY DEF Overflow, ListenerType

----------------------------------------------------------------------------
(* What a step means to the stream, the hosts and a peer *)

LEMMA StreamSame ==
  ASSUME ListenerTypes, listener' \in ListenerType, StreamKnown, Published' = Published,
         thread'.at = "dispose" <=> thread.at = "dispose", thread'.at = "done" <=> thread.at = "done",
         ~Stopped => listener'.state \in {"Starting", "Listening"},
         Len(listener'.queue) <= Len(listener.queue), listener'.sequence = listener.sequence
  PROVE  StreamKnown'
<1>1. /\ Len(listener'.queue) \in Nat /\ Len(listener.queue) \in Nat
      /\ \A n \in Nat : Len(listener.queue) <= n => Len(listener'.queue) <= n
  BY ListenerFields DEF ListenerTypes
<1>2. EventCapacity \in Nat /\ EventCapacity + 1 \in Nat /\ EventCapacity + 2 \in Nat
  BY Numbers
<1>3. Latest' = Latest /\ (Stopped' <=> Stopped) /\ \A i : Normal(i)' <=> Normal(i)
  BY DEF Latest, Stopped, Normal
<1> QED
  BY <1>1, <1>2, <1>3 DEF StreamKnown

LEMMA StreamGrows ==
  ASSUME ListenerTypes, StreamKnown, ~Stopped, ~Stopped', NEW e \in Event, Grows(e),
         e.state \in {"Starting", "Listening"}, listener'.state \in {"Starting", "Listening"},
         Len(listener'.queue) <= EventCapacity, listener'.sequence <= MaxSequence - 2
  PROVE  StreamKnown'
<1>1. Len(Published) \in Nat
  BY PublishedType
<1>2. \A i \in 1 .. Len(Published) + 1 : i \in 1 .. Len(Published) \/ i = Len(Published) + 1
  BY <1>1
<1>3. \A i \in 1 .. Latest' : Normal(i)'
  BY <1>1, <1>2 DEF StreamKnown, Grows, Latest, Normal
<1> QED
  BY <1>3 DEF StreamKnown, Stopped

\* Nothing is told about peer q, and its owner stays.
LEMMA OtherPeer ==
  ASSUME ListenerTypes, NEW q \in Peers, PeerKnown(q),
         Published' = Published \/ \E e \in Event : Grows(e) /\ e.peer # q,
         holder'[q] = holder[q], Parked(q)' <=> Parked(q),
         listener'.stopping = FALSE => listener.stopping = FALSE,
         q > listener'.nextId => q > listener.nextId,
         job'[q].thread = "none" <=> job[q].thread = "none",
         thread.at = "dispose" => thread'.at = "dispose"
  PROVE  PeerKnown(q)'
<1> DEFINE P == Published
           Q == Published'
<1>1. /\ \A i \in 1 .. Len(P) : i \in 1 .. Len(Q) /\ Q[i] = P[i]
      /\ \A i \in 1 .. Len(Q) : Q[i].peer = q => i \in 1 .. Len(P)
  <2>1. Len(P) \in Nat
    BY PublishedType
  <2>2. CASE \E e \in Event : Grows(e) /\ e.peer # q
    <3>1. PICK e \in Event : Grows(e) /\ e.peer # q
      BY <2>2
    <3>2. \A i \in 1 .. Len(P) + 1 : i \in 1 .. Len(P) \/ i = Len(P) + 1
      BY <2>1
    <3> QED
      BY <2>1, <3>1, <3>2 DEF Grows
  <2> QED
    BY <2>1, <2>2
<1> HIDE DEF P, Q
<1>2. ASSUME NEW kinds PROVE Happened(q, kinds)' <=> Happened(q, kinds)
  BY <1>1 DEF Happened, Is, P, Q
<1>3. \A i, k \in 1 .. Len(Published') : Is(i, q, Outcomes)' /\ Is(k, q, Outcomes)' => i = k
  BY <1>1 DEF PeerKnown, Is, P, Q
<1>4. \A i \in 1 .. Len(Published') : Is(i, q, Outcomes)' =>
        \E k \in 1 .. Len(Published') : Is(k, q, {"Incoming"})' /\ k < i
  BY <1>1 DEF PeerKnown, Is, P, Q
<1> QED
  BY <1>2, <1>3, <1>4 DEF PeerKnown

\* A parked peer gets its outcome, and its owner.
LEMMA DecidedPeer ==
  ASSUME ListenerTypes, NEW p \in Peers, PeerKnown(p), Parked(p), listener.stopping = FALSE,
         NEW e \in Event, Grows(e), e.peer = p, e.kind \in Outcomes,
         e.kind = "Accepted" => holder'[p] = "host", e.kind # "Accepted" => holder'[p] = "closed",
         ~Parked(p)', listener'.nextId = listener.nextId, job'[p].thread = job[p].thread
  PROVE  PeerKnown(p)'
<1> DEFINE n == Len(Published)
<1>0. n \in Nat
  BY PublishedType
<1>1. /\ holder[p] = "listener" /\ Happened(p, {"Incoming"}) /\ ~Happened(p, Outcomes)
      /\ job[p].thread = "none" /\ ~(p > listener.nextId)
  BY DEF PeerKnown
<1>2. /\ \A i \in 1 .. n : i \in 1 .. n + 1 /\ Published'[i] = Published[i]
      /\ Len(Published') = n + 1 /\ Published'[n + 1] = e
      /\ \A i \in 1 .. n + 1 : i \in 1 .. n \/ i = n + 1
  BY <1>0 DEF Grows
<1>3. ASSUME NEW kinds, kinds \subseteq Outcomes PROVE Happened(p, kinds)' <=> e.kind \in kinds
  <2>1. ~Happened(p, kinds)
    BY <1>1, <1>3 DEF Happened, Is
  <2>2. n + 1 \in 1 .. Len(Published')
    BY <1>0, <1>2
  <2> QED
    BY <1>2, <2>1, <2>2 DEF Happened, Is
<1>4. \A i \in 1 .. Len(Published') : Is(i, p, Outcomes)' => i = n + 1
  BY <1>1, <1>2 DEF Happened, Is
<1>5. PICK k \in 1 .. n : Is(k, p, {"Incoming"})
  BY <1>1 DEF Happened
<1>6. k \in 1 .. Len(Published') /\ Is(k, p, {"Incoming"})' /\ k < n + 1
  BY <1>0, <1>2 , <1>5 DEF Is
<1>7. \A i, j \in 1 .. Len(Published') : Is(i, p, Outcomes)' /\ Is(j, p, Outcomes)' => i = j
  BY <1>4
<1>8. \A i \in 1 .. Len(Published') : Is(i, p, Outcomes)' =>
        \E j \in 1 .. Len(Published') : Is(j, p, {"Incoming"})' /\ j < i
  BY <1>4, <1>6
<1>9. /\ Happened(p, {"Accepted"})' <=> e.kind = "Accepted"
      /\ Happened(p, {"Rejected", "Expired"})' => e.kind # "Accepted"
  BY <1>3 DEF Outcomes
<1> QED
  BY <1>1, <1>7, <1>8, <1>9 DEF PeerKnown, Outcomes

\* A peer without an outcome goes without one: it is closed.
LEMMA DroppedPeer ==
  ASSUME NEW p \in Peers, PeerKnown(p), Published' = Published, holder'[p] = "closed",
         holder[p] # "nobody", Happened(p, {"Rejected", "Expired"}) => job'[p].thread = "none",
         ~Parked(p)', listener'.nextId = listener.nextId
  PROVE  PeerKnown(p)'
<1>1. \A kinds : Happened(p, kinds)' <=> Happened(p, kinds)
  BY DEF Happened, Is
<1>2. \A i, kinds : Is(i, p, kinds)' <=> Is(i, p, kinds)
  BY DEF Is
<1> QED
  BY <1>1, <1>2 DEF PeerKnown

\* A new peer is parked and announced, unless the stream is full: then the listener stops.
LEMMA NewPeer ==
  ASSUME ListenerTypes, NEW p \in Peers, PeerKnown(p), holder[p] = "nobody",
         \/ Published' = Published /\ listener'.stopping = TRUE
         \/ \E e \in Event : Grows(e) /\ e.peer = p /\ e.kind = "Incoming",
         holder'[p] = "listener", Parked(p)', listener'.nextId = p, job'[p].thread = job[p].thread
  PROVE  PeerKnown(p)'
<1> DEFINE n == Len(Published)
<1>0. n \in Nat /\ p \in Nat
  BY PublishedType, Numbers DEF Peers
<1>1. ~Happened(p, Outcomes) /\ job[p].thread = "none"
  BY DEF PeerKnown
<1>2. ~Happened(p, Outcomes)' /\ (listener'.stopping = FALSE => Happened(p, {"Incoming"})')
  <2>1. CASE Published' = Published /\ listener'.stopping = TRUE
    BY <1>1, <2>1 DEF Happened, Is
  <2>2. CASE \E e \in Event : Grows(e) /\ e.peer = p /\ e.kind = "Incoming"
    <3>1. PICK e \in Event : Grows(e) /\ e.peer = p /\ e.kind = "Incoming"
      BY <2>2
    <3>2. /\ \A i \in 1 .. n : Published'[i] = Published[i]
          /\ Len(Published') = n + 1 /\ Published'[n + 1] = e /\ n + 1 \in 1 .. n + 1
          /\ \A i \in 1 .. n + 1 : i \in 1 .. n \/ i = n + 1
      BY <1>0, <3>1 DEF Grows
    <3>3. "Incoming" \notin Outcomes
      BY DEF Outcomes
    <3>4. ~Happened(p, Outcomes)'
      BY <1>1, <3>1, <3>2, <3>3 DEF Happened, Is
    <3>5. Happened(p, {"Incoming"})'
      BY <3>1, <3>2 DEF Happened, Is
    <3> QED
      BY <3>4, <3>5
  <2> QED
    BY <2>1, <2>2
<1>3. ~Happened(p, {"Rejected", "Expired"})'
  BY <1>2 DEF Happened, Is, Outcomes
<1>4. \A i \in 1 .. Len(Published') : ~Is(i, p, Outcomes)'
  BY <1>2 DEF Happened
<1> QED
  BY <1>0, <1>1, <1>2, <1>3, <1>4 DEF PeerKnown

\* Steps that decide nothing about peers and tell nothing.
LEMMA QuietStep ==
  ASSUME ListenerInv, ListenerTypes', Published' = Published, HostsKnown', UNCHANGED holder,
         listener'.pending = listener.pending, listener'.nextId = listener.nextId,
         listener'.stopping = FALSE => listener.stopping = FALSE,
         ~Stopped => listener'.state \in {"Starting", "Listening"},
         Len(listener'.queue) <= Len(listener.queue), listener'.sequence = listener.sequence,
         \A p \in Peers : job'[p].thread = "none" <=> job[p].thread = "none",
         thread'.at = "dispose" <=> thread.at = "dispose", thread'.at = "done" <=> thread.at = "done",
         thread'.at = "arrived" => listener.nextId < MaxPeers
  PROVE  ListenerInv'
<1>0. ListenerTypes /\ StreamKnown /\ WorkerKnown /\ \A p \in Peers : PeerKnown(p)
  BY DEF ListenerInv
<1>1. listener' \in ListenerType /\ listener \in ListenerType
  BY <1>0 DEF ListenerTypes
<1>2. StreamKnown'
  BY <1>0, <1>1, StreamSame
<1>3. listener'.stopping \in BOOLEAN /\ listener.stopping \in BOOLEAN
  BY <1>1, ListenerFields
<1>4. WorkerKnown'
  BY <1>0, <1>3 DEF WorkerKnown, Stopped
<1>5. \A p \in Peers : PeerKnown(p)'
  BY <1>0, OtherPeer DEF Parked
<1> QED
  BY <1>2, <1>4, <1>5 DEF ListenerInv

LEMMA UnparkedFacts ==
  ASSUME NEW l \in ListenerType, Distinct(l.pending), NEW p \in Peers, In(p, l.pending),
         NEW r, r = Unparked(l, p)
  PROVE  /\ r \in ListenerType /\ Distinct(r.pending)
         /\ \A x : In(x, r.pending) <=> In(x, l.pending) /\ x # p
         /\ r.nextId = l.nextId /\ r.stopping = l.stopping /\ r.state = l.state
         /\ r.sequence = l.sequence /\ r.queue = l.queue
<1> DEFINE q == l.pending
           I == {i \in 1 .. Len(q) : q[i] = p}
           k == Min(I)
           rest == RemoveAt(q, k)
<1>1. q \in Seq(Peers) /\ Len(q) \in Nat
  BY ListenerFields
<1>2. I # {} /\ I \in SUBSET Nat /\ (\E i \in 1 .. Len(q) : q[i] = p)
  BY <1>1 DEF In
<1>3. RemoveFirst(q, p) = rest
  BY <1>2 DEF RemoveFirst, SelectInSeq
<1>4. r = [l EXCEPT !.pending = rest]
  BY <1>3 DEF Unparked
<1> HIDE DEF rest, k, I, q
<1>5. k \in 1 .. Len(q) /\ q[k] = p
  <2>1. k \in I
    BY <1>2, LeastNumber DEF k
  <2> QED
    BY <2>1 DEF I
<1>6. /\ rest \in Seq(Peers) /\ Distinct(rest) /\ \A x : In(x, rest) <=> In(x, q) /\ x # p
  <2>1. Distinct(q)
    BY DEF q
  <2> QED
    BY <1>1, <1>5, <2>1, RemovedElements DEF rest
<1>7. /\ r \in ListenerType /\ r.pending = rest
      /\ r.nextId = l.nextId /\ r.stopping = l.stopping /\ r.state = l.state
      /\ r.sequence = l.sequence /\ r.queue = l.queue
  BY <1>4, <1>6 DEF ListenerType
<1> QED
  BY <1>6, <1>7 DEF q

\* A host goes on, or another way, without starting a session.
LEMMA HostSettles ==
  ASSUME ListenerTypes, HostsKnown, NEW h \in Hosts \cup Closers, NEW x \in HostType, x.then # "start",
         host' = [host EXCEPT ![h] = x],
         \A k \in Hosts \cup Closers : k # h /\ Starting(k) => holder'[host[k].peer] = "host"
  PROVE  HostsKnown' /\ host' \in [Hosts \cup Closers -> HostType]
<1>1. host \in [Hosts \cup Closers -> HostType]
  BY DEF ListenerTypes
<1>2. host' \in [Hosts \cup Closers -> HostType] /\ host'[h] = x
      /\ \A k \in Hosts \cup Closers : k # h => host'[k] = host[k]
  BY <1>1
<1> QED
  BY <1>2 DEF HostsKnown, Starting

\* A parked peer is decided: unparked, told and handed over.
LEMMA DecideStep ==
  ASSUME ListenerInv, NEW p \in Peers, Parked(p), listener.stopping = FALSE, ~Stopped, ~Stopped',
         NEW kind \in Outcomes, ~NoRoom(listener), listener' = Publish(Unparked(listener, p), kind, p),
         UNCHANGED <<taken, job>>, NEW x \in {"host", "closed"}, kind = "Accepted" <=> x = "host",
         holder' = [holder EXCEPT ![p] = x], HostsKnown', host' \in [Hosts \cup Closers -> HostType],
         thread'.at = "arrived" => thread.at = "arrived"
  PROVE  ListenerInv'
<1>0. /\ ListenerTypes /\ StreamKnown /\ WorkerKnown /\ (\A q \in Peers : PeerKnown(q))
      /\ listener \in ListenerType /\ Distinct(listener.pending) /\ holder \in [Peers -> Holders]
      /\ taken \in Seq(Event)
  BY DEF ListenerInv, ListenerTypes, WorkerKnown
<1> DEFINE r == Unparked(listener, p)
           e == EventOf(r, kind, p)
<1>1. /\ r \in ListenerType /\ Distinct(r.pending)
      /\ \A y : In(y, r.pending) <=> In(y, listener.pending) /\ y # p
      /\ r.nextId = listener.nextId /\ r.stopping = listener.stopping /\ r.state = listener.state
      /\ r.sequence = listener.sequence /\ r.queue = listener.queue
  BY <1>0, UnparkedFacts DEF Parked
<1>2. p \in 0 .. MaxPeers /\ kind \in EventKinds /\ p # 0
  BY Numbers DEF Peers, EventKinds
<1>3. listener' = Publish(r, kind, p)
  OBVIOUS
<1> HIDE DEF r
<1>4. /\ listener' \in ListenerType /\ listener'.pending = r.pending /\ listener'.nextId = r.nextId
      /\ listener'.stopping = r.stopping /\ listener'.state = r.state
      /\ listener'.sequence = r.sequence + 1
      /\ listener'.queue = Append(r.queue, e) /\ e \in Event
  BY <1>1, <1>2, <1>3, PublishFacts
<1>5. e.peer = p /\ e.kind = kind /\ e.state = r.state
  BY DEF EventOf
<1> HIDE DEF e
<1>6. Grows(e) /\ Len(listener'.queue) = Len(listener.queue) + 1
  BY <1>0, <1>1, <1>4, PublishedGrows
<1>7. holder' \in [Peers -> Holders] /\ holder'[p] = x /\ \A q \in Peers : q # p => holder'[q] = holder[q]
  BY <1>0 DEF Holders
<1>8. ListenerTypes'
  BY <1>0, <1>4, <1>7 DEF ListenerTypes
<1>9. StreamKnown'
  <2>1. /\ Len(listener.queue) \in Nat /\ listener.sequence \in Nat
        /\ ~(Len(listener.queue) >= EventCapacity) /\ ~(listener.sequence >= MaxSequence - 2)
    BY <1>0, ListenerFields DEF NoRoom
  <2>2. Len(listener'.queue) <= EventCapacity /\ listener'.sequence <= MaxSequence - 2
    BY <1>1, <1>4, <1>6, <2>1, Numbers
  <2>3. listener.state \in {"Starting", "Listening"}
    BY <1>0 DEF StreamKnown
  <2> QED
    BY <1>0, <1>1, <1>4, <1>5, <1>6, <2>2, <2>3, StreamGrows
<1>10. WorkerKnown'
  BY <1>0, <1>1, <1>4 DEF WorkerKnown
<1>11. ASSUME NEW q \in Peers PROVE PeerKnown(q)'
  <2>1. Parked(q)' <=> Parked(q) /\ q # p
    BY <1>1, <1>4 DEF Parked
  <2>2. CASE q = p
    <3>1. ~Parked(p)'
      BY <2>1, <2>2
    <3>2. PeerKnown(p)'
      BY <1>0, <1>1, <1>4, <1>5, <1>6, <1>7, <3>1, DecidedPeer
    <3> QED
      BY <2>2, <3>2
  <2>3. CASE q # p
    BY <1>0, <1>1, <1>4, <1>5, <1>6, <1>7, <2>1, <2>3, OtherPeer DEF Stopped
  <2> QED
    BY <2>2, <2>3
<1> QED
  BY <1>8, <1>9, <1>10, <1>11 DEF ListenerInv

----------------------------------------------------------------------------
(* Steps of the listener *)

LEMMA RousedFacts ==
  ASSUME NEW t, t = Roused(thread)
  PROVE  t.at = thread.at \/ (thread.at = "full" /\ t.at = "loop")
BY DEF Roused

LEMMA ConsumeSteps ==
  ASSUME ListenerInv, NEW h \in Hosts, NEW p \in Peers, NEW accept \in BOOLEAN, Consume(h, p, accept),
         UNCHANGED job
  PROVE  ListenerInv'
<1>0. /\ ListenerTypes /\ HostsKnown /\ WorkerKnown /\ listener \in ListenerType
      /\ host \in [Hosts \cup Closers -> HostType] /\ holder \in [Peers -> Holders]
      /\ PeerKnown(p)
  BY DEF ListenerInv, ListenerTypes
<1>1. /\ host[h].then = "" /\ ~listener.stopping /\ p \in ToSet(listener.pending)
      /\ thread' = Roused(thread) /\ UNCHANGED taken
  BY DEF Consume, Free
<1>2. listener.stopping = FALSE /\ Parked(p) /\ ~Stopped
  <2>1. listener.stopping \in BOOLEAN /\ listener.pending \in Seq(Peers)
    BY <1>0, ListenerFields
  <2>2. DOMAIN listener.pending = 1 .. Len(listener.pending)
    BY <2>1
  <2>3. Parked(p)
    BY <1>1, <2>2 DEF ToSet, Parked, In
  <2>4. listener.stopping = FALSE
    BY <1>1, <2>1
  <2> QED
    BY <1>0, <2>3, <2>4 DEF WorkerKnown
<1>3. /\ thread'.at = "arrived" => thread.at = "arrived"
      /\ thread'.at \notin {"dispose", "done"} /\ thread.at \notin {"dispose", "done"}
  BY <1>1, <1>2, RousedFacts DEF Stopped
<1>4. holder[p] = "listener"
  BY <1>0, <1>2 DEF PeerKnown
<1>5. CASE NoRoom(listener)
  <2>1. listener' = Overflow(listener) /\ UNCHANGED <<host, holder>>
    BY <1>5 DEF Consume
  <2>2. /\ listener' \in ListenerType /\ listener'.pending = listener.pending
        /\ listener'.nextId = listener.nextId /\ listener'.stopping = TRUE
        /\ listener'.state = listener.state /\ listener'.sequence = listener.sequence
        /\ listener'.queue = listener.queue
    BY <1>0, <2>1, OverflowFacts
  <2>3. ListenerTypes' /\ HostsKnown' /\ Published' = Published
    BY <1>0, <1>1, <2>1, <2>2 DEF ListenerTypes, HostsKnown, Starting, Published
  <2>4. listener.state \in {"Starting", "Listening"} /\ Len(listener.queue) \in Nat
    BY <1>0, <1>2, ListenerFields DEF ListenerInv, StreamKnown
  <2>5. thread'.at = "arrived" => listener.nextId < MaxPeers
    BY <1>0, <1>3 DEF WorkerKnown
  <2>6. Len(listener'.queue) <= Len(listener.queue)
    BY <2>2, <2>4
  <2>7. /\ thread'.at = "dispose" <=> thread.at = "dispose"
        /\ thread'.at = "done" <=> thread.at = "done"
    BY <1>3
  <2> QED
    BY <2>1, <2>2, <2>3, <2>4, <2>5, <2>6, <2>7, QuietStep
<1>6. CASE ~NoRoom(listener)
  <2> DEFINE kind == Outcome(p, accept)
  <2>1. kind \in Outcomes
    BY DEF Outcome, Outcomes
  <2>2. ~NoRoom(Unparked(listener, p))
    <3>1. Distinct(listener.pending) /\ In(p, listener.pending)
      BY <1>0, <1>2 DEF WorkerKnown, Parked
    <3> DEFINE r == Unparked(listener, p)
    <3>2. r.sequence = listener.sequence /\ r.queue = listener.queue
      BY <1>0, <3>1, UnparkedFacts
    <3> QED
      BY <1>6, <3>2 DEF NoRoom
  <2>3. listener' = Publish(Unparked(listener, p), kind, p)
    BY <1>6, <2>2 DEF Consume, Emit
  <2> HIDE DEF kind
  <2>4. ASSUME NEW k \in Hosts \cup Closers, k # h, Starting(k)
        PROVE  host[k].peer \in Peers /\ host[k].peer # p /\ holder[host[k].peer] = "host"
    BY <1>0, <1>4, <2>4 DEF HostsKnown
  <2>5. CASE kind = "Accepted"
    <3> DEFINE x == [then |-> "start", peer |-> p]
    <3>1. host' = [host EXCEPT ![h] = x] /\ holder' = [holder EXCEPT ![p] = "host"]
      BY <1>6, <2>5 DEF Consume, kind
    <3>2. x \in HostType /\ x.peer = p
      BY Numbers DEF HostType, Peers
    <3> HIDE DEF x
    <3>3. host' \in [Hosts \cup Closers -> HostType] /\ host'[h] = x
          /\ \A k \in Hosts \cup Closers : k # h => host'[k] = host[k]
      BY <1>0, <3>1, <3>2
    <3>4. holder'[p] = "host" /\ \A q \in Peers : q # p => holder'[q] = holder[q]
      BY <1>0, <3>1
    <3>5. HostsKnown'
      BY <1>0, <2>4, <3>2, <3>3, <3>4 DEF HostsKnown, Starting
    <3>6. /\ ~Stopped /\ ~Stopped' /\ UNCHANGED <<taken, job>>
      BY <1>1, <1>3 DEF Stopped
    <3> QED
      BY <1>2, <1>3, <1>6, <2>1, <2>3, <2>5, <3>1, <3>3, <3>5, <3>6, DecideStep
  <2>6. CASE kind # "Accepted"
    <3>1. UNCHANGED host /\ holder' = [holder EXCEPT ![p] = "closed"]
      BY <1>6, <2>6 DEF Consume, kind
    <3>2. \A q \in Peers : q # p => holder'[q] = holder[q]
      BY <1>0, <3>1
    <3>3. host[h].then # "start"
      BY <1>1
    <3>4. HostsKnown' /\ host' \in [Hosts \cup Closers -> HostType]
      BY <1>0, <2>4, <3>1, <3>2, <3>3 DEF HostsKnown, Starting
    <3>5. /\ ~Stopped /\ ~Stopped' /\ UNCHANGED <<taken, job>>
      BY <1>1, <1>3 DEF Stopped
    <3> QED
      BY <1>2, <1>3, <1>6, <2>1, <2>3, <2>6, <3>1, <3>4, <3>5, DecideStep
  <2> QED
    BY <2>5, <2>6
<1> QED
  BY <1>5, <1>6

LEMMA CloserSteps ==
  ASSUME ListenerInv, NEW h \in Closers, Cancel(h) \/ CancelControl(h), UNCHANGED job
  PROVE  ListenerInv'
<1>0. ListenerTypes /\ HostsKnown /\ WorkerKnown /\ listener \in ListenerType
  BY DEF ListenerInv, ListenerTypes
<1>1. UNCHANGED <<holder, taken>> /\ h \in Hosts \cup Closers
  BY DEF Cancel, CancelControl
<1> DEFINE x == IF Cancel(h) THEN [then |-> "cancel", peer |-> 0] ELSE Idle
<1>2. [then |-> "cancel", peer |-> 0] \in HostType /\ Idle \in HostType
      /\ Idle.then # "start" /\ [then |-> "cancel", peer |-> 0].then # "start"
  BY Numbers DEF HostType, Idle
<1>3. ASSUME NEW y \in HostType, y.then # "start", host' = [host EXCEPT ![h] = y]
      PROVE  HostsKnown' /\ host' \in [Hosts \cup Closers -> HostType]
  <2>1. \A k \in Hosts \cup Closers : k # h /\ Starting(k) => holder'[host[k].peer] = "host"
    BY <1>0, <1>1 DEF HostsKnown
  <2> QED
    BY <1>0, <1>1, <1>3, <2>1, HostSettles
<1>4. ~Stopped => listener.state \in {"Starting", "Listening"}
  BY DEF ListenerInv, StreamKnown
<1>5. CASE Cancel(h)
  <2>1. /\ listener' = [listener EXCEPT !.stopping = TRUE] /\ UNCHANGED thread
        /\ host' = [host EXCEPT ![h] = [then |-> "cancel", peer |-> 0]]
    BY <1>5 DEF Cancel
  <2>2. /\ listener' \in ListenerType /\ listener'.pending = listener.pending
        /\ listener'.nextId = listener.nextId /\ listener'.stopping = TRUE
        /\ listener'.state = listener.state /\ listener'.sequence = listener.sequence
        /\ listener'.queue = listener.queue
    BY <1>0, <2>1 DEF ListenerType
  <2>3. HostsKnown' /\ host' \in [Hosts \cup Closers -> HostType]
    BY <1>2, <1>3, <2>1
  <2>4. ListenerTypes' /\ Published' = Published /\ Len(listener.queue) \in Nat
    BY <1>0, <1>1, <2>2, <2>3, ListenerFields DEF ListenerTypes, Published
  <2>5. thread'.at = "arrived" => listener.nextId < MaxPeers
    BY <1>0, <2>1 DEF WorkerKnown
  <2> QED
    BY <1>1, <1>4, <2>1, <2>2, <2>3, <2>4, <2>5, QuietStep
<1>6. CASE CancelControl(h)
  <2>1. UNCHANGED listener /\ thread' = Roused(thread) /\ host' = [host EXCEPT ![h] = Idle]
    BY <1>6 DEF CancelControl
  <2>2. HostsKnown' /\ host' \in [Hosts \cup Closers -> HostType]
    BY <1>2, <1>3, <2>1
  <2>3. ListenerTypes' /\ Published' = Published /\ Len(listener.queue) \in Nat
    BY <1>0, <1>1, <2>1, <2>2, ListenerFields DEF ListenerTypes, Published
  <2>4. /\ thread'.at = "dispose" <=> thread.at = "dispose"
        /\ thread'.at = "done" <=> thread.at = "done"
        /\ thread'.at = "arrived" => listener.nextId < MaxPeers
    BY <1>0, <2>1, RousedFacts DEF WorkerKnown
  <2>5. Len(listener'.queue) <= Len(listener.queue)
    BY <2>1, <2>3
  <2> QED
    BY <1>1, <1>4, <2>1, <2>2, <2>3, <2>4, <2>5, QuietStep
<1> QED
  BY <1>5, <1>6

\* The steps of the worker thread before it stops that leave the peers alone.
LEMMA WorkerQuietSteps ==
  ASSUME ListenerInv, UNCHANGED <<holder, host, taken, job>>, ~Stopped, ~Stopped',
         listener' \in ListenerType, listener'.pending = listener.pending,
         listener'.nextId = listener.nextId, listener'.stopping = FALSE => listener.stopping = FALSE,
         listener'.state \in {"Starting", "Listening"}, listener'.queue = listener.queue,
         listener'.sequence = listener.sequence,
         thread'.at = "arrived" => listener.nextId < MaxPeers
  PROVE  ListenerInv'
<1>1. ListenerTypes /\ listener \in ListenerType /\ HostsKnown
  BY DEF ListenerInv, ListenerTypes
<1>2. ListenerTypes' /\ HostsKnown' /\ Published' = Published /\ Len(listener.queue) \in Nat
  BY <1>1, ListenerFields DEF ListenerTypes, HostsKnown, Starting, Published
<1>3. Len(listener'.queue) <= Len(listener.queue)
  BY <1>2
<1>4. /\ thread'.at = "dispose" <=> thread.at = "dispose"
      /\ thread'.at = "done" <=> thread.at = "done"
  BY DEF Stopped
<1> QED
  BY <1>2, <1>3, <1>4, QuietStep

\* A step that tells something about no peer.
LEMMA StateStep ==
  ASSUME ListenerInv, UNCHANGED <<holder, host, taken, job>>, ~Stopped, ~Stopped',
         NEW l \in ListenerType, l.pending = listener.pending, l.nextId = listener.nextId,
         l.stopping = listener.stopping, l.state = "Listening", l.queue = listener.queue,
         l.sequence = listener.sequence, listener' = Emit(l, "State", 0), thread'.at # "arrived"
  PROVE  ListenerInv'
<1>0. /\ ListenerTypes /\ StreamKnown /\ WorkerKnown /\ HostsKnown /\ (\A q \in Peers : PeerKnown(q))
      /\ listener \in ListenerType
  BY DEF ListenerInv, ListenerTypes
<1>1. CASE NoRoom(l)
  <2>1. listener' = Overflow(l)
    BY <1>1 DEF Emit
  <2>2. /\ listener' \in ListenerType /\ listener'.pending = l.pending
        /\ listener'.nextId = l.nextId /\ listener'.stopping = TRUE
        /\ listener'.state = l.state /\ listener'.sequence = l.sequence /\ listener'.queue = l.queue
    BY <2>1, OverflowFacts
  <2> QED
    BY <2>2, WorkerQuietSteps
<1>2. CASE ~NoRoom(l)
  <2> DEFINE e == EventOf(l, "State", 0)
  <2>1. listener' = Publish(l, "State", 0)
    BY <1>2 DEF Emit
  <2>2. "State" \in EventKinds /\ 0 \in 0 .. MaxPeers
    BY Numbers DEF EventKinds
  <2>3. /\ listener' \in ListenerType /\ listener'.pending = l.pending /\ listener'.nextId = l.nextId
        /\ listener'.stopping = l.stopping /\ listener'.state = l.state
        /\ listener'.sequence = l.sequence + 1 /\ listener'.queue = Append(l.queue, e) /\ e \in Event
    BY <2>1, <2>2, PublishFacts
  <2>4. e.peer = 0 /\ e.state = "Listening"
    BY DEF EventOf
  <2> HIDE DEF e
  <2>5. Grows(e) /\ Len(listener'.queue) = Len(listener.queue) + 1
    BY <1>0, <2>3, PublishedGrows
  <2>6. ListenerTypes' /\ HostsKnown'
    BY <1>0, <2>3 DEF ListenerTypes, HostsKnown, Starting
  <2>7. StreamKnown'
    <3>1. /\ Len(listener.queue) \in Nat /\ listener.sequence \in Nat
          /\ ~(Len(listener.queue) >= EventCapacity) /\ ~(listener.sequence >= MaxSequence - 2)
      BY <1>0, <1>2, ListenerFields DEF NoRoom
    <3>2. Len(listener'.queue) <= EventCapacity /\ listener'.sequence <= MaxSequence - 2
      BY <2>3, <2>5, <3>1, Numbers
    <3> QED
      BY <1>0, <2>3, <2>4, <2>5, <3>2, StreamGrows
  <2>8. WorkerKnown'
    BY <1>0, <2>3 DEF WorkerKnown
  <2>9. ASSUME NEW q \in Peers PROVE PeerKnown(q)'
    <3>1. q # 0
      BY Numbers DEF Peers
    <3> QED
      BY <1>0, <2>3, <2>4, <2>5, <3>1, OtherPeer DEF Stopped, Parked
  <2> QED
    BY <2>6, <2>7, <2>8, <2>9 DEF ListenerInv
<1> QED
  BY <1>1, <1>2

LEMMA WorkerSteps ==
  ASSUME ListenerInv, Work \/ SourceFails \/ Arrives \/ Tick \/ Take, UNCHANGED job
  PROVE  ListenerInv'
<1>0. /\ ListenerTypes /\ StreamKnown /\ WorkerKnown /\ HostsKnown /\ (\A q \in Peers : PeerKnown(q))
      /\ listener \in ListenerType /\ holder \in [Peers -> Holders] /\ taken \in Seq(Event)
      /\ host \in [Hosts \cup Closers -> HostType]
  BY DEF ListenerInv, ListenerTypes
<1>1. /\ listener.pending \in Seq(Peers) /\ listener.nextId \in 0 .. MaxPeers /\ listener.stopping \in BOOLEAN
      /\ listener.sequence \in Nat /\ listener.queue \in Seq(Event) /\ Len(listener.queue) \in Nat
      /\ listener.failure \in {"None", "EventOverflow", "Source"}
  BY <1>0, ListenerFields
<1>2. ~Stopped => listener.state \in {"Starting", "Listening"}
  BY <1>0 DEF StreamKnown
<1>3. ASSUME UNCHANGED <<listener, holder, host, taken>>, ~Stopped, ~Stopped',
             thread'.at = "arrived" => listener.nextId < MaxPeers
      PROVE  ListenerInv'
  BY <1>0, <1>2, <1>3, WorkerQuietSteps
<1>4. CASE Start
  <2>1. /\ thread.at = "start" /\ thread'.at = "loop" /\ UNCHANGED <<holder, host, taken>>
        /\ ~Stopped /\ ~Stopped'
    BY <1>4 DEF Start, At, Go, Stopped
  <2>2. CASE listener.stopping
    BY <1>3, <1>4, <2>1, <2>2 DEF Start
  <2>3. CASE ~listener.stopping
    <3> DEFINE l == [listener EXCEPT !.state = "Listening"]
    <3>1. listener' = Emit(l, "State", 0)
      BY <1>4, <2>3 DEF Start
    <3>2. /\ l \in ListenerType /\ l.pending = listener.pending /\ l.nextId = listener.nextId
          /\ l.stopping = listener.stopping /\ l.state = "Listening" /\ l.queue = listener.queue
          /\ l.sequence = listener.sequence
      BY <1>0 DEF ListenerType, States
    <3> HIDE DEF l
    <3> QED
      BY <2>1, <3>1, <3>2, StateStep
  <2> QED
    BY <2>2, <2>3
<1>5. CASE SourceFails
  <2>1. /\ thread.at \in {"start", "wait", "arrived"} /\ thread'.at = "stop"
        /\ UNCHANGED <<holder, host, taken>> /\ ~Stopped /\ ~Stopped'
        /\ listener' = IF listener.stopping \/ listener.failure # "None" THEN listener
                       ELSE [listener EXCEPT !.failure = "Source"]
    BY <1>5 DEF SourceFails, Go, Stopped
  <2>2. /\ listener' \in ListenerType /\ listener'.pending = listener.pending
        /\ listener'.nextId = listener.nextId /\ listener'.stopping = listener.stopping
        /\ listener'.state = listener.state /\ listener'.sequence = listener.sequence
        /\ listener'.queue = listener.queue
    <3>1. CASE listener' = listener
      BY <1>0, <3>1
    <3>2. CASE listener' = [listener EXCEPT !.failure = "Source"]
      BY <1>0, <3>2 DEF ListenerType
    <3> QED
      BY <2>1, <3>1, <3>2
  <2> QED
    BY <1>2, <2>1, <2>2, WorkerQuietSteps
<1>6. CASE Loop
  <2>1. thread.at = "loop" /\ UNCHANGED <<host, taken>> /\ ~Stopped
    BY <1>6 DEF Loop, At, Stopped
  <2>2. CASE Go("stop") /\ UNCHANGED <<listener, holder>>
    BY <1>3, <2>1, <2>2 DEF Go, Stopped
  <2>3. CASE /\ thread' = [at |-> IF Len(listener.pending) = PendingCapacity THEN "full" ELSE "wait",
                           deadline |-> WaitUntil]
             /\ UNCHANGED <<listener, holder>>
    <3>1. thread'.at \in {"full", "wait"}
      BY <2>3
    <3> QED
      BY <1>3, <2>1, <2>3, <3>1 DEF Stopped
  <2>4. CASE /\ ~listener.stopping /\ Oldest # 0
             /\ listener' = Emit(Unparked(listener, Oldest), "Expired", Oldest)
             /\ holder' = [holder EXCEPT ![Oldest] = "closed"] /\ UNCHANGED thread
    <3> DEFINE p == Oldest
               r == Unparked(listener, p)
    <3>1. p \in Peers /\ Parked(p)
      <4>1. listener.pending # <<>> /\ p = Head(listener.pending)
        BY <2>4 DEF Oldest
      <4>2. Len(listener.pending) >= 1 /\ p = listener.pending[1] /\ p \in Peers
        BY <1>1, <4>1, EmptySeq
      <4>3. 1 \in 1 .. Len(listener.pending)
        BY <1>1, <4>2
      <4> QED
        BY <4>2, <4>3 DEF Parked, In
    <3>2. listener.stopping = FALSE /\ ~Stopped'
      BY <1>1, <2>1, <2>4 DEF Stopped
    <3>3. listener' = Emit(r, "Expired", p) /\ holder' = [holder EXCEPT ![p] = "closed"]
      BY <2>4
    <3> HIDE DEF p
    <3>4. PeerKnown(p) /\ holder[p] = "listener"
      BY <1>0, <3>1 DEF PeerKnown
    <3>5. holder' \in [Peers -> Holders] /\ holder'[p] = "closed"
          /\ \A q \in Peers : q # p => holder'[q] = holder[q]
      BY <1>0, <3>1, <3>3 DEF Holders
    <3>6. HostsKnown'
      BY <1>0, <2>1, <3>4, <3>5 DEF HostsKnown, Starting
    <3>7. /\ r \in ListenerType /\ Distinct(r.pending)
          /\ \A y : In(y, r.pending) <=> In(y, listener.pending) /\ y # p
          /\ r.nextId = listener.nextId /\ r.stopping = listener.stopping /\ r.state = listener.state
          /\ r.sequence = listener.sequence /\ r.queue = listener.queue
      BY <1>0, <3>1, UnparkedFacts DEF Parked, WorkerKnown
    <3>8. NoRoom(r) <=> NoRoom(listener)
      BY <3>7 DEF NoRoom
    <3>9. CASE ~NoRoom(r)
      <4>1. listener' = Publish(r, "Expired", p)
        BY <3>3, <3>9 DEF Emit
      <4>2. "Expired" \in Outcomes /\ "Expired" # "Accepted"
        BY DEF Outcomes
      <4>3. host' \in [Hosts \cup Closers -> HostType]
        BY <1>0, <2>1
      <4> QED
        BY <2>1, <2>4, <3>1, <3>2, <3>3, <3>6, <3>8, <3>9, <4>1, <4>2, <4>3, DecideStep
    <3>10. CASE NoRoom(r)
      <4>1. listener' = Overflow(r)
        BY <3>3, <3>10 DEF Emit
      <4> HIDE DEF r
      <4>2. /\ listener' \in ListenerType /\ listener'.pending = r.pending
            /\ listener'.nextId = r.nextId /\ listener'.stopping = TRUE
            /\ listener'.state = r.state /\ listener'.sequence = r.sequence /\ listener'.queue = r.queue
        BY <3>7, <4>1, OverflowFacts
      <4>3. ListenerTypes' /\ Published' = Published
        BY <1>0, <2>1, <3>5, <3>7, <4>2 DEF ListenerTypes, Published
      <4>4. StreamKnown'
        <5>1. Len(listener'.queue) <= Len(listener.queue) /\ listener'.sequence = listener.sequence
          BY <1>1, <3>7, <4>2
        <5> QED
          BY <1>0, <1>2, <2>4, <3>7, <4>2, <4>3, <5>1, StreamSame
      <4>5. WorkerKnown'
        BY <1>0, <2>1, <2>4, <3>2, <3>7, <4>2 DEF WorkerKnown
      <4>6. ASSUME NEW q \in Peers PROVE PeerKnown(q)'
        <5>1. Parked(q)' <=> Parked(q) /\ q # p
          BY <3>7, <4>2 DEF Parked
        <5>2. CASE q = p
          BY <3>4, <3>5, <3>7, <4>2, <4>3, <5>1, <5>2, DroppedPeer DEF PeerKnown
        <5>3. CASE q # p
          BY <1>0, <2>4, <3>2, <3>5, <3>7, <4>2, <4>3, <5>1, <5>3, OtherPeer
        <5> QED
          BY <5>2, <5>3
      <4> QED
        BY <3>6, <4>3, <4>4, <4>5, <4>6 DEF ListenerInv
    <3> QED
      BY <3>9, <3>10
  <2> QED
    BY <1>6, <2>2, <2>3, <2>4 DEF Loop
<1>7. CASE FullTimesOut \/ WaitReturns
  BY <1>3, <1>7 DEF FullTimesOut, WaitReturns, At, Go, Stopped
<1>8. CASE Arrives
  BY <1>3, <1>8 DEF Arrives, At, Go, Stopped
<1>9. CASE Tick
  <2>1. UNCHANGED <<listener, thread, host, holder, taken>>
    BY <1>9 DEF Tick
  <2>2. ListenerTypes' /\ HostsKnown' /\ Published' = Published
    BY <1>0, <2>1 DEF ListenerTypes, HostsKnown, Starting, Published
  <2>3. Len(listener'.queue) <= Len(listener.queue) /\ (thread'.at = "arrived" => listener.nextId < MaxPeers)
    BY <1>0, <1>1, <2>1 DEF WorkerKnown
  <2> QED
    BY <1>2, <2>1, <2>2, <2>3, QuietStep
<1>10. CASE Take
  <2>1. /\ listener.queue # <<>> /\ listener' = [listener EXCEPT !.queue = Tail(listener.queue)]
        /\ taken' = Append(taken, Head(listener.queue)) /\ UNCHANGED <<thread, host, holder>>
    BY <1>10 DEF Take
  <2> DEFINE q == listener.queue
             rest == Tail(q)
             t == Append(taken, Head(q))
  <2>2. rest \in Seq(Event) /\ t \in Seq(Event)
    <3>1. q \in Seq(Event) /\ q # <<>> /\ taken \in Seq(Event)
      BY <1>0, <1>1, <2>1
    <3> HIDE DEF q
    <3>2. Head(q) \in Event /\ Tail(q) \in Seq(Event)
      BY <3>1
    <3> QED
      BY <3>1, <3>2
  <2>3. listener' = [listener EXCEPT !.queue = rest] /\ taken' = t
    BY <2>1
  <2> HIDE DEF rest, t
  <2>4. /\ listener' \in ListenerType /\ listener'.pending = listener.pending
        /\ listener'.nextId = listener.nextId /\ listener'.stopping = listener.stopping
        /\ listener'.state = listener.state /\ listener'.sequence = listener.sequence
        /\ listener'.queue = rest
    BY <1>0, <2>2, <2>3 DEF ListenerType
  <2>5. Published' = Published /\ Len(listener'.queue) <= Len(listener.queue)
    BY <1>0, <2>1, <2>4, PublishedKept DEF rest, q
  <2>6. ListenerTypes' /\ HostsKnown'
    BY <1>0, <2>1, <2>2, <2>3, <2>4 DEF ListenerTypes, HostsKnown, Starting
  <2>7. thread'.at = "arrived" => listener.nextId < MaxPeers
    BY <1>0, <2>1 DEF WorkerKnown
  <2> QED
    BY <1>2, <2>1, <2>4, <2>5, <2>6, <2>7, QuietStep
<1>11. CASE Park
  <2>1. thread.at = "arrived" /\ UNCHANGED <<host, taken>> /\ ~Stopped /\ listener.nextId < MaxPeers
    BY <1>0, <1>11 DEF Park, At, Stopped, WorkerKnown
  <2>2. CASE listener.stopping
    BY <1>3, <1>11, <2>1, <2>2 DEF Park, Go, Stopped
  <2>3. CASE ~listener.stopping
    <3> DEFINE p == listener.nextId + 1
               list == Append(listener.pending, p)
               l == [listener EXCEPT !.nextId = p, !.pending = list]
    <3>1. /\ listener' = Emit(l, "Incoming", p) /\ holder' = [holder EXCEPT ![p] = "listener"]
          /\ thread'.at = "loop" /\ ~Stopped'
      BY <1>11, <2>3 DEF Park, Go, Stopped
    <3>2. p \in Peers /\ p \in 0 .. MaxPeers /\ p > listener.nextId
      BY <1>1, <2>1, Numbers DEF Peers
    <3>3. p = listener.nextId + 1
      OBVIOUS
    <3> HIDE DEF p
    <3>4. PeerKnown(p) /\ holder[p] = "nobody" /\ ~Parked(p)
      BY <1>0, <3>2 DEF PeerKnown
    <3>5. /\ list \in Seq(Peers) /\ (\A y : In(y, list) <=> In(y, listener.pending) \/ y = p)
          /\ Distinct(list)
      <4> DEFINE q == listener.pending
      <4>1. q \in Seq(Peers) /\ Distinct(q) /\ ~In(p, q)
        BY <1>0, <1>1, <3>4 DEF WorkerKnown, Parked
      <4> HIDE DEF q
      <4>2. /\ Append(q, p) \in Seq(Peers) /\ (\A y : In(y, Append(q, p)) <=> In(y, q) \/ y = p)
            /\ Distinct(Append(q, p))
        BY <3>2, <4>1, AppendedElements
      <4> QED
        BY <4>2 DEF q
    <3> HIDE DEF list
    <3>6. /\ l \in ListenerType /\ l.pending = list /\ l.nextId = p /\ l.stopping = listener.stopping
          /\ l.state = listener.state /\ l.sequence = listener.sequence /\ l.queue = listener.queue
      BY <1>0, <3>2, <3>5 DEF ListenerType
    <3> HIDE DEF l
    <3>7. holder' \in [Peers -> Holders] /\ holder'[p] = "listener"
          /\ \A q \in Peers : q # p => holder'[q] = holder[q]
      BY <1>0, <3>1, <3>2 DEF Holders
    <3>8. HostsKnown'
      BY <1>0, <2>1, <3>4, <3>7 DEF HostsKnown, Starting
    <3> DEFINE e == EventOf(l, "Incoming", p)
    <3>9. /\ listener' \in ListenerType /\ listener'.pending = list /\ listener'.nextId = p
          /\ listener'.state = listener.state /\ (listener'.stopping = FALSE => listener.stopping = FALSE)
          /\ \/ Published' = Published /\ listener'.stopping = TRUE
             \/ e \in Event /\ Grows(e) /\ e.peer = p /\ e.kind = "Incoming"
          /\ StreamKnown'
      <4>1. CASE NoRoom(l)
        <5>1. listener' = Overflow(l)
          BY <3>1, <4>1 DEF Emit
        <5>2. /\ listener' \in ListenerType /\ listener'.pending = l.pending
              /\ listener'.nextId = l.nextId /\ listener'.stopping = TRUE
              /\ listener'.state = l.state /\ listener'.sequence = l.sequence /\ listener'.queue = l.queue
          BY <3>6, <5>1, OverflowFacts
        <5>3. Published' = Published /\ Len(listener'.queue) <= Len(listener.queue)
          BY <1>1, <2>1, <3>6, <5>2 DEF Published
        <5>4. StreamKnown'
          BY <1>0, <1>2, <2>1, <3>1, <3>6, <5>2, <5>3, StreamSame
        <5> QED
          BY <3>6, <5>2, <5>3, <5>4
      <4>2. CASE ~NoRoom(l)
        <5>1. listener' = Publish(l, "Incoming", p)
          BY <3>1, <4>2 DEF Emit
        <5>2. "Incoming" \in EventKinds
          BY DEF EventKinds
        <5>3. /\ listener' \in ListenerType /\ listener'.pending = l.pending /\ listener'.nextId = l.nextId
              /\ listener'.stopping = l.stopping /\ listener'.state = l.state
              /\ listener'.sequence = l.sequence + 1 /\ listener'.queue = Append(l.queue, e) /\ e \in Event
          BY <3>2, <3>6, <5>1, <5>2, PublishFacts
        <5>4. e.peer = p /\ e.kind = "Incoming" /\ e.state = l.state
          BY DEF EventOf
        <5> HIDE DEF e
        <5>5. Grows(e) /\ Len(listener'.queue) = Len(listener.queue) + 1
          BY <1>0, <2>1, <3>6, <5>3, PublishedGrows
        <5>6. Len(listener'.queue) <= EventCapacity /\ listener'.sequence <= MaxSequence - 2
          <6>1. ~(Len(listener.queue) >= EventCapacity) /\ ~(listener.sequence >= MaxSequence - 2)
            BY <3>6, <4>2 DEF NoRoom
          <6> QED
            BY <1>1, <3>6, <5>3, <5>5, <6>1, Numbers
        <5>7. StreamKnown'
          BY <1>0, <1>2, <2>1, <3>1, <3>6, <5>3, <5>4, <5>5, <5>6, StreamGrows
        <5> QED
          BY <3>6, <5>3, <5>4, <5>5, <5>7
      <4> QED
        BY <4>1, <4>2
    <3> HIDE DEF e
    <3>10. ListenerTypes'
      BY <1>0, <2>1, <3>7, <3>9 DEF ListenerTypes
    <3>11. WorkerKnown'
      BY <1>0, <3>1, <3>5, <3>9 DEF WorkerKnown
    <3>12. ASSUME NEW q \in Peers PROVE PeerKnown(q)'
      <4>1. Parked(q)' <=> Parked(q) \/ q = p
        BY <3>5, <3>9 DEF Parked
      <4>2. CASE q = p
        BY <1>0, <3>2, <3>4, <3>7, <3>9, <4>1, <4>2, NewPeer
      <4>3. CASE q # p
        <5>1. Published' = Published \/ \E x \in Event : Grows(x) /\ x.peer # q
          BY <3>9, <4>3
        <5>2. q > listener'.nextId => q > listener.nextId
          BY <1>1, <3>3, <3>9, Numbers DEF Peers
        <5> QED
          BY <1>0, <2>1, <3>7, <3>9, <4>1, <4>3, <5>1, <5>2, OtherPeer
      <4> QED
        BY <4>2, <4>3
    <3> QED
      BY <3>8, <3>9, <3>10, <3>11, <3>12 DEF ListenerInv
  <2> QED
    BY <2>2, <2>3
<1>12. CASE BeginStop
  <2> DEFINE l == [listener EXCEPT !.stopping = TRUE, !.state = "Stopping"]
             r == Publish(l, "State", 0)
             e == EventOf(l, "State", 0)
  <2>1. /\ thread.at = "stop" /\ thread'.at = "dispose" /\ UNCHANGED <<host, holder, taken>>
        /\ listener' = [r EXCEPT !.pending = <<>>] /\ ~Stopped
    BY <1>12 DEF BeginStop, At, Go, Stopped
  <2>2. /\ l \in ListenerType /\ l.nextId = listener.nextId /\ l.stopping = TRUE
        /\ l.state = "Stopping" /\ l.sequence = listener.sequence /\ l.queue = listener.queue
    BY <1>0 DEF ListenerType, States
  <2> HIDE DEF l
  <2>3. "State" \in EventKinds /\ 0 \in 0 .. MaxPeers
    BY Numbers DEF EventKinds
  <2>4. /\ r \in ListenerType /\ r.nextId = l.nextId /\ r.stopping = l.stopping /\ r.state = l.state
        /\ r.sequence = l.sequence + 1 /\ r.queue = Append(l.queue, e) /\ e \in Event
    BY <2>2, <2>3, PublishFacts
  <2>5. e.peer = 0 /\ e.kind = "State" /\ e.state = "Stopping"
    BY <2>2 DEF EventOf
  <2> HIDE DEF r, e
  <2>6. /\ listener' \in ListenerType /\ listener'.pending = <<>> /\ listener'.nextId = listener.nextId
        /\ listener'.stopping = TRUE /\ listener'.sequence = listener.sequence + 1
        /\ listener'.queue = Append(listener.queue, e)
    <3> DEFINE none == <<>>
    <3>1. none \in Seq(Peers)
      OBVIOUS
    <3> HIDE DEF none
    <3>2. /\ [r EXCEPT !.pending = none] \in ListenerType /\ [r EXCEPT !.pending = none].pending = none
          /\ \A f \in {"nextId", "stopping", "sequence", "queue"} : [r EXCEPT !.pending = none][f] = r[f]
      BY <2>4, <3>1 DEF ListenerType
    <3> QED
      BY <2>1, <2>2, <2>4, <3>2 DEF none
  <2>7. Grows(e) /\ Len(listener'.queue) = Len(listener.queue) + 1
    BY <1>0, <2>1, <2>4, <2>6, PublishedGrows
  <2>8. ListenerTypes' /\ HostsKnown'
    BY <1>0, <2>1, <2>6 DEF ListenerTypes, HostsKnown, Starting
  <2>9. Len(Published) \in Nat /\ Len(Published') = Len(Published) + 1
    BY <1>0, <2>7, PublishedType DEF Grows
  <2>10. StreamKnown'
    <3>1. Latest' = Latest + 1 /\ Latest' - 1 = Latest /\ Latest' >= 1
      BY <2>9 DEF Latest
    <3>2. \A i \in 1 .. Latest : Normal(i)'
      BY <1>0, <2>1, <2>7 DEF StreamKnown, Grows, Normal, Latest
    <3>3. Published'[Latest'] = e
      BY <2>7, <3>1 DEF Grows, Latest
    <3>4. Len(listener'.queue) <= EventCapacity + 1 /\ listener'.sequence <= MaxSequence - 1
      <4>1. Len(listener.queue) <= EventCapacity /\ listener.sequence <= MaxSequence - 2
        BY <1>0, <2>1 DEF StreamKnown
      <4> QED
        BY <1>1, <2>6, <2>7, <4>1, Numbers
    <3> QED
      BY <2>1, <2>5, <3>1, <3>2, <3>3, <3>4 DEF StreamKnown, Stopped
  <2>11. WorkerKnown'
    BY <2>1, <2>6 DEF WorkerKnown, Distinct
  <2>12. ASSUME NEW q \in Peers PROVE PeerKnown(q)'
    <3>1. PeerKnown(q) /\ ~Parked(q)' /\ q # 0
      BY <1>0, <2>6, Numbers DEF Parked, In, Peers
    <3> DEFINE P == Published
               Q == Published'
    <3>2. /\ \A i \in 1 .. Len(P) : i \in 1 .. Len(Q) /\ Q[i] = P[i]
          /\ \A i \in 1 .. Len(Q) : Q[i].peer = q => i \in 1 .. Len(P)
      <4>1. \A i \in 1 .. Len(P) + 1 : i \in 1 .. Len(P) \/ i = Len(P) + 1
        BY <2>9
      <4> QED
        BY <2>5, <2>7, <2>9, <3>1, <4>1 DEF Grows
    <3> HIDE DEF P, Q
    <3>3. ASSUME NEW kinds PROVE Happened(q, kinds)' <=> Happened(q, kinds)
      BY <3>2 DEF Happened, Is, P, Q
    <3>4. \A i, k \in 1 .. Len(Published') : Is(i, q, Outcomes)' /\ Is(k, q, Outcomes)' => i = k
      BY <3>1, <3>2 DEF PeerKnown, Is, P, Q
    <3>5. \A i \in 1 .. Len(Published') : Is(i, q, Outcomes)' =>
            \E k \in 1 .. Len(Published') : Is(k, q, {"Incoming"})' /\ k < i
      BY <3>1, <3>2 DEF PeerKnown, Is, P, Q
    <3> QED
      BY <2>1, <2>6, <3>1, <3>3, <3>4, <3>5 DEF PeerKnown
  <2> QED
    BY <2>8, <2>10, <2>11, <2>12 DEF ListenerInv
<1>13. CASE End
  <2> DEFINE last == IF listener.failure = "None" THEN "Closed" ELSE "Failed"
             l == [listener EXCEPT !.state = last]
             e == EventOf(l, "State", 0)
  <2>1. /\ thread.at = "dispose" /\ thread'.at = "done" /\ UNCHANGED <<host, taken>>
        /\ listener' = Publish(l, "State", 0)
        /\ holder' = [p \in Peers |-> IF holder[p] = "listener" THEN "closed" ELSE holder[p]]
    BY <1>13 DEF End, At, Go
  <2>2. last \in {"Closed", "Failed"}
    OBVIOUS
  <2> HIDE DEF last
  <2>3. /\ l \in ListenerType /\ l.pending = listener.pending /\ l.nextId = listener.nextId
        /\ l.stopping = listener.stopping /\ l.state = last /\ l.sequence = listener.sequence
        /\ l.queue = listener.queue
    BY <1>0, <2>2 DEF ListenerType, States
  <2> HIDE DEF l
  <2>4. "State" \in EventKinds /\ 0 \in 0 .. MaxPeers
    BY Numbers DEF EventKinds
  <2>5. /\ listener' \in ListenerType /\ listener'.pending = l.pending /\ listener'.nextId = l.nextId
        /\ listener'.stopping = l.stopping /\ listener'.sequence = l.sequence + 1
        /\ listener'.queue = Append(l.queue, e) /\ e \in Event
    BY <2>1, <2>3, <2>4, PublishFacts
  <2>6. e.peer = 0 /\ e.state = last
    BY <2>3 DEF EventOf
  <2> HIDE DEF e
  <2>7. Grows(e) /\ Len(listener'.queue) = Len(listener.queue) + 1
    BY <1>0, <2>1, <2>3, <2>5, PublishedGrows
  <2>8. /\ holder' \in [Peers -> Holders]
        /\ \A p \in Peers : /\ holder[p] = "listener" => holder'[p] = "closed"
                            /\ holder[p] # "listener" => holder'[p] = holder[p]
    BY <1>0, <2>1 DEF Holders
  <2>9. ListenerTypes' /\ HostsKnown'
    BY <1>0, <2>1, <2>5, <2>8 DEF ListenerTypes, HostsKnown, Starting
  <2>10. Len(Published) \in Nat /\ Len(Published') = Len(Published) + 1
    BY <1>0, <2>7, PublishedType DEF Grows
  <2>11. StreamKnown'
    <3>1. Latest' = Latest + 1 /\ Latest' - 1 = Latest /\ Latest' - 2 = Latest - 1 /\ Latest \in Nat
      BY <2>10 DEF Latest
    <3>2. Latest >= 1 /\ Latest' >= 2 /\ Latest \in 1 .. Latest
      BY <1>0, <2>1, <3>1 DEF StreamKnown
    <3>3. \A i \in 1 .. Latest - 1 : Normal(i)'
      <4>1. \A i \in 1 .. Latest - 1 : i \in 1 .. Latest
        BY <3>1
      <4> QED
        BY <1>0, <2>1, <2>7, <4>1 DEF StreamKnown, Grows, Normal, Latest
    <3>4. Published'[Latest'] = e /\ Published'[Latest] = Published[Latest]
      BY <2>7, <3>1, <3>2 DEF Grows, Latest
    <3>5. Len(listener'.queue) <= EventCapacity + 2 /\ listener'.sequence <= MaxSequence
      <4>1. Len(listener.queue) <= EventCapacity + 1 /\ listener.sequence <= MaxSequence - 1
        BY <1>0, <2>1 DEF StreamKnown
      <4> QED
        BY <1>1, <2>3, <2>5, <2>7, <4>1, Numbers
    <3>6. Published[Latest].state = "Stopping" /\ Published[Latest].kind = "State"
      BY <1>0, <2>1 DEF StreamKnown
    <3> QED
      BY <2>1, <2>2, <2>6, <3>1, <3>2, <3>3, <3>4, <3>5, <3>6 DEF StreamKnown, Stopped
  <2>12. WorkerKnown'
    BY <1>0, <2>1, <2>3, <2>5 DEF WorkerKnown, Stopped
  <2>13. ASSUME NEW q \in Peers PROVE PeerKnown(q)'
    <3>1. PeerKnown(q) /\ ~Parked(q)' /\ ~Parked(q) /\ q # 0
      BY <1>0, <2>1, <2>3, <2>5, Numbers DEF Parked, In, Peers, WorkerKnown, Stopped
    <3> DEFINE P == Published
               Q == Published'
    <3>2. /\ \A i \in 1 .. Len(P) : i \in 1 .. Len(Q) /\ Q[i] = P[i]
          /\ \A i \in 1 .. Len(Q) : Q[i].peer = q => i \in 1 .. Len(P)
      <4>1. \A i \in 1 .. Len(P) + 1 : i \in 1 .. Len(P) \/ i = Len(P) + 1
        BY <2>10
      <4> QED
        BY <2>6, <2>7, <2>10, <3>1, <4>1 DEF Grows
    <3> HIDE DEF P, Q
    <3>3. ASSUME NEW kinds PROVE Happened(q, kinds)' <=> Happened(q, kinds)
      BY <3>2 DEF Happened, Is, P, Q
    <3>4. \A i, k \in 1 .. Len(Published') : Is(i, q, Outcomes)' /\ Is(k, q, Outcomes)' => i = k
      BY <3>1, <3>2 DEF PeerKnown, Is, P, Q
    <3>5. \A i \in 1 .. Len(Published') : Is(i, q, Outcomes)' =>
            \E k \in 1 .. Len(Published') : Is(k, q, {"Incoming"})' /\ k < i
      BY <3>1, <3>2 DEF PeerKnown, Is, P, Q
    <3>6. ~Happened(q, {"Rejected", "Expired"}) \/ holder[q] = "closed"
      BY <3>1 DEF PeerKnown
    <3>7. (holder[q] = "listener" => holder'[q] = "closed") /\ (holder[q] # "listener" => holder'[q] = holder[q])
      BY <2>8
    <3> QED
      BY <2>3, <2>5, <3>1, <3>3, <3>4, <3>5, <3>6, <3>7 DEF PeerKnown
  <2> QED
    BY <2>9, <2>11, <2>12, <2>13 DEF ListenerInv
<1> QED
  BY <1>4, <1>5, <1>6, <1>7, <1>8, <1>9, <1>10, <1>11, <1>12, <1>13 DEF Work

----------------------------------------------------------------------------
(* Steps of the composition *)

\* Nothing but an admission makes a thread.
LEMMA ThreadsStay ==
  ASSUME RuntimeInv, RuntimeNext, NEW p \in Jobs
  PROVE  job'[p].thread = "none" <=> job[p].thread = "none"
<1>0. job \in [Jobs -> JobType] /\ coordinator \in CoordinatorType /\ shutdown \in ShutdownType
  BY DEF RuntimeInv, Types
<1>1. ASSUME NEW j \in Jobs, NotifyFinished(j) PROVE job'[p].thread = "none" <=> job[p].thread = "none"
  BY <1>0, <1>1 DEF NotifyFinished, JobType
<1>2. CASE Settle
  <2> DEFINE j == Head(coordinator.retired)
             next == job[j].results + 1
  <2>1. job' = [job EXCEPT ![j].results = next]
    BY <1>2 DEF Settle
  <2> HIDE DEF j, next
  <2> QED
    BY <1>0, <2>1 DEF JobType
<1>3. CASE CancelActive
  <2> DEFINE j == Head(shutdown.active)
  <2>1. job' = job \/ job' = [job EXCEPT ![j].cancelled = TRUE]
    BY <1>3 DEF CancelActive
  <2> HIDE DEF j
  <2> QED
    BY <1>0, <2>1 DEF JobType
<1>4. CASE Scan \/ Join \/ Release \/ Spurious \/ BeginShutdown \/ EndShutdown
  BY <1>4 DEF Scan, Join, Release, Spurious, BeginShutdown, EndShutdown
<1> QED
  BY <1>1, <1>2, <1>3, <1>4 DEF RuntimeNext, Reap, Shut

\* The peer p leaves its owner for good or becomes a session; everything else stays.
LEMMA HandedOn ==
  ASSUME ListenerInv, UNCHANGED <<listener, thread, taken>>, NEW p \in Peers, NEW x \in Holders,
         holder' = [holder EXCEPT ![p] = x], HostsKnown', host' \in [Hosts \cup Closers -> HostType],
         PeerKnown(p)', \A q \in Peers \ {p} : job'[q] = job[q]
  PROVE  ListenerInv'
<1>0. /\ ListenerTypes /\ StreamKnown /\ WorkerKnown /\ (\A q \in Peers : PeerKnown(q))
      /\ holder \in [Peers -> Holders] /\ listener \in ListenerType
  BY DEF ListenerInv, ListenerTypes
<1>1. /\ holder' \in [Peers -> Holders] /\ \A q \in Peers \ {p} : holder'[q] = holder[q]
  BY <1>0
<1>2. ListenerTypes' /\ WorkerKnown' /\ Published' = Published
  BY <1>0, <1>1 DEF ListenerTypes, WorkerKnown, Published, Stopped
<1>3. StreamKnown'
  BY <1>0, <1>2 DEF StreamKnown, Stopped, Normal, Latest
<1>4. ASSUME NEW q \in Peers, q # p PROVE PeerKnown(q)'
  BY <1>0, <1>1, <1>2, <1>4, OtherPeer DEF Parked
<1> QED
  BY <1>2, <1>3, <1>4 DEF ListenerInv

LEMMA StartSteps ==
  ASSUME ReverseInv, NEW h \in Hosts, StartSession(h)
  PROVE  ReverseInv'
<1>0. /\ RuntimeInv /\ ListenerInv /\ ListenerTypes /\ HostsKnown /\ (\A q \in Peers : PeerKnown(q))
      /\ host \in [Hosts \cup Closers -> HostType] /\ holder \in [Peers -> Holders]
  BY DEF ReverseInv, ListenerInv, ListenerTypes
<1>1. /\ Starting(h) /\ host' = [host EXCEPT ![h] = Idle] /\ UNCHANGED <<listener, thread, taken>>
      /\ h \in Hosts \cup Closers
  BY DEF StartSession, Starting
<1>2. PICK p \in Peers : p = host[h].peer
  BY <1>0, <1>1 DEF HostsKnown
<1>3. /\ \/ Admit(p) /\ holder' = [holder EXCEPT ![p] = "session"]
         \/ UNCHANGED runtimeVars /\ holder' = [holder EXCEPT ![p] = "closed"]
      /\ holder[p] = "host" /\ PeerKnown(p) /\ p \in Jobs
  BY <1>0, <1>1, <1>2, JobsAssumption DEF StartSession, HostsKnown
<1>4. Idle \in HostType /\ Idle.then # "start"
  BY Numbers DEF HostType, Idle
<1>5. \A k \in Hosts \cup Closers : k # h /\ Starting(k) => holder'[host[k].peer] = "host"
  <2>1. \A k \in Hosts \cup Closers : k # h /\ Starting(k) =>
          host[k].peer # p /\ host[k].peer \in Peers /\ holder[host[k].peer] = "host"
    BY <1>0, <1>1, <1>2 DEF HostsKnown
  <2> QED
    BY <1>0, <1>3, <2>1
<1>6. HostsKnown' /\ host' \in [Hosts \cup Closers -> HostType]
  <2> DEFINE x == Idle
  <2> HIDE DEF x
  <2> QED
    BY <1>0, <1>1, <1>4, <1>5, HostSettles DEF x
<1>7. Published' = Published /\ ~Parked(p) /\ ~Parked(p)' /\ ~(p > listener.nextId)
      /\ ~Happened(p, {"Rejected", "Expired"}) /\ Happened(p, {"Accepted"}) /\ job[p].thread = "none"
  <2>1. Published' = Published /\ (Parked(p)' <=> Parked(p))
    BY <1>1 DEF Published, Parked
  <2> QED
    BY <1>3, <2>1 DEF PeerKnown
<1>8. CASE UNCHANGED runtimeVars /\ holder' = [holder EXCEPT ![p] = "closed"]
  <2>1. RuntimeInv' /\ UNCHANGED job
    <3>1. UNCHANGED <<runtime, job, coordinator, shutdown>>
      BY <1>8 DEF runtimeVars
    <3> QED
      BY <1>0, <3>1 DEF RuntimeInv, Types, SlotsKnown, Slots, Retiring, JobKnown, Listed, Leaving
  <2>2. holder'[p] = "closed" /\ "closed" \in Holders
    BY <1>0, <1>8 DEF Holders
  <2>3. PeerKnown(p)'
    BY <1>1, <1>3, <1>7, <2>1, <2>2, DroppedPeer
  <2> QED
    BY <1>0, <1>1, <1>6, <1>8, <2>1, <2>2, <2>3, HandedOn DEF ReverseInv
<1>9. CASE Admit(p) /\ holder' = [holder EXCEPT ![p] = "session"]
  <2>1. RuntimeInv' /\ \A x \in Jobs \ {p} : job'[x] = job[x]
    BY <1>0, <1>3, <1>9, AdmitSteps
  <2>2. holder'[p] = "session" /\ "session" \in Holders
    BY <1>0, <1>9 DEF Holders
  <2>3. PeerKnown(p)'
    <3>1. \A kinds : Happened(p, kinds)' <=> Happened(p, kinds)
      BY <1>7 DEF Happened, Is
    <3>2. \A i, kinds : Is(i, p, kinds)' <=> Is(i, p, kinds)
      BY <1>7 DEF Is
    <3> QED
      BY <1>1, <1>3, <1>7, <2>2, <3>1, <3>2 DEF PeerKnown
  <2> QED
    BY <1>0, <1>1, <1>6, <1>9, <2>1, <2>2, <2>3, HandedOn, JobsAssumption DEF ReverseInv
<1> QED
  BY <1>3, <1>8, <1>9

LEMMA EndSteps ==
  ASSUME ReverseInv, NEW p \in Jobs, EndSession(p)
  PROVE  ReverseInv'
<1>0. /\ RuntimeInv /\ ListenerInv /\ ListenerTypes /\ HostsKnown /\ PeerKnown(p) /\ p \in Peers
      /\ host \in [Hosts \cup Closers -> HostType] /\ holder \in [Peers -> Holders]
  BY JobsAssumption DEF ReverseInv, ListenerInv, ListenerTypes
<1>1. /\ Finish(p) /\ holder' = [holder EXCEPT ![p] = "closed"]
      /\ UNCHANGED <<listener, thread, host, taken>>
  BY DEF EndSession
<1>2. /\ RuntimeInv' /\ job'[p].thread = "marked" /\ job[p].thread = "running"
      /\ \A x \in Jobs \ {p} : job'[x] = job[x]
  BY <1>0, <1>1, FinishSteps
<1>3. holder[p] \notin {"nobody", "listener", "host"} /\ ~Happened(p, {"Rejected", "Expired"})
  BY <1>0, <1>2 DEF PeerKnown
<1>4. Published' = Published /\ ~Parked(p)' /\ holder'[p] = "closed" /\ "closed" \in Holders
  BY <1>0, <1>1, <1>3 DEF Published, Parked, PeerKnown, Holders
<1>5. PeerKnown(p)'
  BY <1>0, <1>1, <1>3, <1>4, DroppedPeer
<1>6. HostsKnown' /\ host' \in [Hosts \cup Closers -> HostType]
  BY <1>0, <1>1, <1>3 DEF HostsKnown, Starting
<1> QED
  BY <1>0, <1>1, <1>2, <1>4, <1>5, <1>6, HandedOn, JobsAssumption DEF ReverseInv

LEMMA ReverseStep ==
  ASSUME ReverseInv, [Next]_vars
  PROVE  ReverseInv'
<1>0. RuntimeInv /\ ListenerInv /\ ListenerTypes /\ HostsKnown /\ WorkerKnown /\ StreamKnown
      /\ listener \in ListenerType
  BY DEF ReverseInv, ListenerInv, ListenerTypes
<1>1. ASSUME UNCHANGED runtimeVars PROVE RuntimeInv' /\ UNCHANGED job
  <2>1. UNCHANGED <<runtime, job, coordinator, shutdown>>
    BY <1>1 DEF runtimeVars
  <2> QED
    BY <1>0, <2>1 DEF RuntimeInv, Types, SlotsKnown, Slots, Retiring, JobKnown, Listed, Leaving
<1>2. ASSUME UNCHANGED listenerVars, \A p \in Peers : job'[p].thread = "none" <=> job[p].thread = "none"
      PROVE  ListenerInv'
  <2>1. UNCHANGED <<listener, thread, host, holder, taken>>
    BY <1>2 DEF listenerVars
  <2>2. ListenerTypes' /\ HostsKnown' /\ Published' = Published /\ Len(listener.queue) \in Nat
    BY <1>0, <2>1, ListenerFields DEF ListenerTypes, HostsKnown, Starting, Published
  <2>3. Len(listener'.queue) <= Len(listener.queue)
    BY <2>1, <2>2
  <2>4. /\ ~Stopped => listener'.state \in {"Starting", "Listening"}
        /\ thread'.at = "arrived" => listener.nextId < MaxPeers
    BY <1>0, <2>1 DEF StreamKnown, WorkerKnown
  <2> QED
    BY <1>0, <1>2, <2>1, <2>2, <2>3, <2>4, QuietStep
<1>3. CASE ListenerNext /\ UNCHANGED runtimeVars
  <2>1. RuntimeInv' /\ UNCHANGED job
    BY <1>1, <1>3
  <2>2. CASE Work \/ SourceFails \/ Arrives \/ Tick \/ Take
    BY <1>0, <2>1, <2>2, WorkerSteps DEF ReverseInv
  <2>3. CASE \E h \in Hosts, p \in Peers, accept \in BOOLEAN : Consume(h, p, accept)
    BY <1>0, <2>1, <2>3, ConsumeSteps DEF ReverseInv
  <2>4. CASE \E h \in Closers : Cancel(h) \/ CancelControl(h)
    BY <1>0, <2>1, <2>4, CloserSteps DEF ReverseInv
  <2> QED
    BY <1>3, <2>2, <2>3, <2>4 DEF ListenerNext
<1>4. CASE \E h \in Hosts : StartSession(h)
  BY <1>4, StartSteps
<1>5. CASE \E j \in Jobs : EndSession(j)
  BY <1>5, EndSteps
<1>6. CASE RuntimeNext /\ UNCHANGED listenerVars
  BY <1>0, <1>2, <1>6, RuntimeSteps, ThreadsStay, JobsAssumption DEF ReverseInv
<1>7. CASE UNCHANGED vars
  <2>1. UNCHANGED runtimeVars /\ UNCHANGED listenerVars
    BY <1>7 DEF vars
  <2> QED
    BY <1>1, <1>2, <2>1 DEF ReverseInv
<1> QED
  BY <1>3, <1>4, <1>5, <1>6, <1>7 DEF Next

LEMMA ReverseStart ==
  ASSUME Init
  PROVE  ReverseInv
<1>1. RuntimeInv
  <2>1. /\ runtime = [jobs |-> <<>>, admitted |-> 0, stopping |-> FALSE] /\ job = [j \in Jobs |-> NoJob]
        /\ coordinator = [at |-> "scan", retired |-> <<>>] /\ shutdown = [at |-> "idle", active |-> <<>>]
    BY DEF Init, RuntimeInit
  <2>2. Types /\ ~Retiring /\ Len(runtime.jobs) = 0
    BY <2>1 DEF Types, RuntimeType, JobType, CoordinatorType, ShutdownType, NoJob, Threads, Retiring
  <2>3. SlotsKnown
    BY <2>1, <2>2, CapacityType DEF SlotsKnown, Slots
  <2>4. ASSUME NEW j \in Jobs PROVE JobKnown(j)
    <3>1. ~Listed(j) /\ ~Leaving(j)
      BY <2>2 DEF Listed, In, Leaving
    <3>2. job[j].thread = "none" /\ job[j].finished = FALSE /\ job[j].results = 0
      BY <2>1 DEF NoJob
    <3> QED
      BY <3>1, <3>2 DEF JobKnown
  <2> QED
    BY <2>2, <2>3, <2>4 DEF RuntimeInv, Distinct
<1> DEFINE first == [kind |-> "State", peer |-> 0, state |-> "Starting"]
<1>2. /\ listener = [pending |-> <<>>, nextId |-> 0, stopping |-> FALSE, failure |-> "None",
                     state |-> "Starting", sequence |-> 1, queue |-> <<first>>]
      /\ thread = [at |-> "start", deadline |-> 0] /\ host = [h \in Hosts \cup Closers |-> Idle]
      /\ holder = [p \in Peers |-> "nobody"] /\ taken = <<>> /\ job = [j \in Jobs |-> NoJob]
  BY DEF Init, ListenerInit, RuntimeInit
<1>3. first \in Event /\ first.state = "Starting" /\ first.kind = "State" /\ first.peer = 0
  BY Numbers DEF Event
<1> HIDE DEF first
<1>4. Published = <<first>>
  <2>1. <<>> \o <<first>> = <<first>>
    OBVIOUS
  <2> QED
    BY <1>2, <2>1 DEF Published
<1>5. Len(Published) = 1 /\ Published[1] = first
  BY <1>4
<1>6. ListenerTypes
  <2>1. <<>> \in Seq(Peers) /\ <<>> \in Seq(Event) /\ <<first>> \in Seq(Event) /\ 0 \in 0 .. MaxPeers
    BY <1>3, Numbers
  <2>2. ASSUME NEW q \in Seq(Peers), NEW r \in Seq(Event), NEW n \in 0 .. MaxPeers
        PROVE  [pending |-> q, nextId |-> n, stopping |-> FALSE, failure |-> "None",
                state |-> "Starting", sequence |-> 1, queue |-> r] \in ListenerType
    BY DEF ListenerType, States
  <2>3. listener \in ListenerType
    BY <1>2, <2>1, <2>2
  <2>4. host \in [Hosts \cup Closers -> HostType] /\ holder \in [Peers -> Holders]
    BY <1>2, <2>1 DEF HostType, Holders, Idle
  <2> QED
    BY <1>2, <2>1, <2>3, <2>4 DEF ListenerTypes
<1>7. StreamKnown
  BY <1>2, <1>3, <1>5, Numbers DEF StreamKnown, Stopped, Normal, Latest
<1>8. WorkerKnown /\ HostsKnown
  <2>1. /\ listener.pending = <<>> /\ thread.at = "start"
        /\ \A h \in Hosts \cup Closers : host[h].then = ""
    BY <1>2 DEF Idle
  <2>2. Distinct(listener.pending)
    <3>1. Len(<<>>) = 0
      OBVIOUS
    <3>2. Len(listener.pending) = 0
      BY <2>1, <3>1
    <3>3. 1 .. Len(listener.pending) = {}
      BY <3>2
    <3> QED
      BY <3>3 DEF Distinct
  <2> QED
    BY <2>1, <2>2 DEF WorkerKnown, HostsKnown, Starting, Stopped
<1>9. ASSUME NEW p \in Peers PROVE PeerKnown(p)
  <2>1. /\ \A kinds : \A i \in 1 .. Len(Published) : ~Is(i, p, kinds)
        /\ \A kinds : ~Happened(p, kinds)
    BY <1>3, <1>5, Numbers DEF Is, Happened, Peers
  <2>2. ~Parked(p) /\ holder[p] = "nobody" /\ job[p].thread = "none"
    BY <1>2, JobsAssumption DEF Parked, In, NoJob
  <2> QED
    BY <2>1, <2>2 DEF PeerKnown
<1> QED
  BY <1>1, <1>6, <1>7, <1>8, <1>9 DEF ReverseInv, ListenerInv

----------------------------------------------------------------------------
(* Theorems *)

\* The inductive invariant of a listener and a session runtime together (run(), consume() and
\* accept() of ListenerWorker; admit(), reap() and shutdown() of SessionRuntime).
THEOREM ReverseInvariant == Spec => []ReverseInv
<1>1. Init => ReverseInv
  BY ReverseStart
<1>2. ReverseInv /\ [Next]_vars => ReverseInv'
  BY ReverseStep
<1> QED
  BY <1>1, <1>2, PTL DEF Spec

\* A set of naturals without two different members has at most one.
LEMMA AtMostOne ==
  ASSUME NEW T, \A x, y \in T : x = y
  PROVE  Cardinality(T) <= 1
<1>1. CASE T = {}
  BY <1>1, FS_EmptySet
<1>2. CASE T # {}
  <2>1. PICK x \in T : TRUE
    BY <1>2
  <2>2. T = {x}
    BY <2>1
  <2>3. Cardinality({x}) = 1
    BY FS_Singleton
  <2> QED
    BY <2>2, <2>3
<1> QED
  BY <1>1, <1>2

\* Every accepted socket has one owner, and what the listener tells about it is true: at most
\* one outcome, announced first; a host that got it from takePeer() or its session keeps an
\* accepted peer, an expired or rejected one never runs, and run() leaves none parked.
THEOREM PeersOwnedOnce == Spec => []OwnedOnce
<1>1. ReverseInv => OwnedOnce
  <2> SUFFICES ASSUME ReverseInv PROVE OwnedOnce
    OBVIOUS
  <2>0. ListenerTypes /\ WorkerKnown /\ (\A p \in Peers : PeerKnown(p)) /\ listener \in ListenerType
    BY DEF ReverseInv, ListenerInv, ListenerTypes
  <2>1. \A p, kinds : Told(p, kinds) = {i \in 1 .. Len(Published) : Is(i, p, kinds)}
    BY DEF Told, Is
  <2>2. \A p \in Peers : p \in ToSet(listener.pending) => Parked(p)
    <3>1. listener.pending \in Seq(Peers)
      BY <2>0, ListenerFields
    <3> QED
      BY <3>1 DEF ToSet, Parked, In
  <2>3. ASSUME NEW p \in Peers
        PROVE  /\ Cardinality(Told(p, Outcomes)) <= 1
               /\ \A i \in Told(p, Outcomes) : \E k \in Told(p, {"Incoming"}) : k < i
               /\ holder[p] \in {"host", "session"} => Told(p, {"Accepted"}) # {}
               /\ Told(p, {"Rejected", "Expired"}) # {} => job[p].thread = "none"
               /\ p \in ToSet(listener.pending) => holder[p] = "listener"
    <3>1. PeerKnown(p)
      BY <2>0
    <3>2. \A kinds : Happened(p, kinds) <=> Told(p, kinds) # {}
      BY <2>1 DEF Happened
    <3>3. \A i, k \in Told(p, Outcomes) : i = k
      BY <2>1, <3>1 DEF PeerKnown
    <3>4. \A i \in Told(p, Outcomes) : \E k \in Told(p, {"Incoming"}) : k < i
      BY <2>1, <3>1 DEF PeerKnown
    <3>5. Cardinality(Told(p, Outcomes)) <= 1
      <4> DEFINE T == Told(p, Outcomes)
      <4> HIDE DEF T
      <4>1. \A x, y \in T : x = y
        BY <3>3 DEF T
      <4>2. Cardinality(T) <= 1
        BY <4>1, AtMostOne
      <4> QED
        BY <4>2 DEF T
    <3> QED
      BY <2>2, <3>1, <3>2, <3>4, <3>5 DEF PeerKnown
  <2>4. \A i, k \in 1 .. Len(listener.pending) : i # k => listener.pending[i] # listener.pending[k]
    BY <2>0 DEF WorkerKnown, Distinct
  <2>5. At("done") => \A p \in Peers : holder[p] # "listener"
    <3> SUFFICES ASSUME At("done"), NEW p \in Peers PROVE holder[p] # "listener"
      OBVIOUS
    <3>1. thread.at = "done" /\ listener.pending = <<>>
      BY <2>0 DEF At, WorkerKnown, Stopped
    <3>2. ~Parked(p)
      BY <3>1 DEF Parked, In
    <3> QED
      BY <2>0, <3>1, <3>2 DEF PeerKnown
  <2> QED
    BY <2>3, <2>4, <2>5 DEF OwnedOnce
<1> QED
  BY <1>1, ReverseInvariant, PTL

\* The two places that emit() keeps free are enough: the queue and the stamps stay within their
\* limits, and Stopping and then Closed or Failed are the last that run() tells.
THEOREM TerminalIsDelivered == Spec => []TerminalDelivered
<1>1. ReverseInv => TerminalDelivered
  <2> SUFFICES ASSUME ReverseInv PROVE TerminalDelivered
    OBVIOUS
  <2>0. ListenerTypes /\ StreamKnown /\ listener \in ListenerType
    BY DEF ReverseInv, ListenerInv, ListenerTypes
  <2>1. /\ Len(listener.queue) \in Nat /\ listener.sequence \in Nat /\ Len(Published) \in Nat
        /\ EventCapacity \in Nat /\ MaxSequence \in Nat
    BY <2>0, ListenerFields, PublishedType, Numbers
  <2>2. CASE ~Stopped
    <3>1. /\ Len(listener.queue) <= EventCapacity /\ listener.sequence <= MaxSequence - 2
          /\ \A i \in 1 .. Len(Published) : Published[i].state \in {"Starting", "Listening"}
      BY <2>0, <2>2 DEF StreamKnown, Latest, Normal
    <3>2. Len(listener.queue) <= EventCapacity + 2 /\ listener.sequence <= MaxSequence
      BY <2>1, <3>1
    <3> QED
      BY <3>1, <3>2 DEF TerminalDelivered
  <2>3. CASE thread.at = "dispose"
    <3>1. /\ Len(listener.queue) <= EventCapacity + 1 /\ listener.sequence <= MaxSequence - 1
          /\ \A i \in 1 .. Len(Published) - 1 : Published[i].state \in {"Starting", "Listening"}
          /\ Published[Len(Published)].state = "Stopping" /\ Published[Len(Published)].kind = "State"
      BY <2>0, <2>3 DEF StreamKnown, Latest, Normal
    <3>2. Len(listener.queue) <= EventCapacity + 2 /\ listener.sequence <= MaxSequence
      BY <2>1, <3>1
    <3>3. \A i \in 1 .. Len(Published) : i \in 1 .. Len(Published) - 1 \/ i = Len(Published)
      BY <2>1
    <3>4. Len(Published) >= Len(Published) - 1
      BY <2>1
    <3> QED
      BY <3>1, <3>2, <3>3, <3>4 DEF TerminalDelivered
  <2>4. CASE thread.at = "done"
    <3>1. /\ Len(listener.queue) <= EventCapacity + 2 /\ listener.sequence <= MaxSequence
          /\ \A i \in 1 .. Len(Published) - 2 : Published[i].state \in {"Starting", "Listening"}
          /\ Published[Len(Published) - 1].state = "Stopping" /\ Published[Len(Published) - 1].kind = "State"
          /\ Published[Len(Published)].state \in {"Closed", "Failed"}
      BY <2>0, <2>4 DEF StreamKnown, Latest, Normal
    <3>2. \A i \in 1 .. Len(Published) :
            i \in 1 .. Len(Published) - 2 \/ i = Len(Published) - 1 \/ i = Len(Published)
      BY <2>1
    <3>3. Len(Published) - 1 >= Len(Published) - 1
      BY <2>1
    <3> QED
      BY <3>1, <3>2, <3>3 DEF TerminalDelivered
  <2> QED
    BY <2>2, <2>3, <2>4 DEF Stopped
<1> QED
  BY <1>1, ReverseInvariant, PTL

\* reap() keeps a session's slot until its thread is joined and completes its drain future once,
\* afterwards; a coordinator that has left leaves no thread and no future behind.
THEOREM DrainedIsJoined == Spec => []DrainedMeansJoined
<1>1. ReverseInv => DrainedMeansJoined
  <2> SUFFICES ASSUME ReverseInv PROVE DrainedMeansJoined
    OBVIOUS
  <2>0. /\ Types /\ SlotsKnown /\ (\A j \in Jobs : JobKnown(j)) /\ (Retiring => coordinator.retired # <<>>)
        /\ runtime \in RuntimeType /\ job \in [Jobs -> JobType] /\ coordinator \in CoordinatorType
    BY DEF ReverseInv, RuntimeInv, Types
  <2>1. /\ runtime.jobs \in Seq(Jobs) /\ Len(runtime.jobs) \in Nat /\ runtime.admitted \in Nat
        /\ RuntimeCapacity \in Nat
    BY <2>0, RuntimeFields, CapacityType
  <2>2. ASSUME NEW j \in Jobs
        PROVE  job[j].results <= 1 /\ (Delivered(j) => job[j].thread = "exited")
    <3>1. JobKnown(j) /\ job[j].results \in Nat /\ job[j].thread \in Threads
      BY <2>0, JobFields
    <3>2. job[j].results = 0 \/ (job[j].results = 1 /\ job[j].thread = "exited")
      <4>1. job[j].thread = "none" \/ Listed(j) \/ Leaving(j) => job[j].results = 0
        BY <3>1 DEF JobKnown
      <4>2. ~(job[j].thread = "none" \/ Listed(j) \/ Leaving(j)) =>
              job[j].results = 1 /\ job[j].thread = "exited"
        BY <3>1 DEF JobKnown
      <4> QED
        BY <4>1, <4>2
    <3> QED
      BY <3>1, <3>2 DEF Delivered
  <2>3. ASSUME coordinator.at = "done", NEW j \in Jobs, job[j].thread # "none"
        PROVE  job[j].thread = "exited" /\ Delivered(j)
    <3>1. Slots = Len(runtime.jobs) /\ Slots = 0 /\ ~Leaving(j)
      BY <2>0, <2>3, SlotsValue DEF SlotsKnown, Leaving, Retiring
    <3>2. ~Listed(j)
      BY <2>1, <3>1 DEF Listed, In
    <3>3. JobKnown(j)
      BY <2>0
    <3>4. job[j].results = 1 /\ job[j].thread = "exited"
      BY <2>3, <3>1, <3>2, <3>3 DEF JobKnown
    <3> QED
      BY <3>4 DEF Delivered
  <2>4. Cardinality({j \in Jobs : Alive(j)}) <= runtime.admitted
    <3> DEFINE A == {j \in Jobs : Alive(j)}
               q == runtime.jobs
               T == {q[i] : i \in 1 .. Len(q)}
               last == Head(coordinator.retired)
    <3>1. IsFiniteSet(T) /\ Cardinality(T) \in Nat /\ Cardinality(T) <= Len(q)
      <4>1. q \in Seq(Jobs)
        BY <2>1
      <4> HIDE DEF q
      <4> QED
        BY <4>1, ElementsBound
    <3>2. ASSUME NEW j \in A PROVE j \in T \/ (coordinator.at = "join" /\ j = last)
      <4>1. JobKnown(j) /\ job[j].thread # "none" /\ job[j].thread # "exited" /\ j \in Jobs
        BY <2>0, <3>2 DEF Alive
      <4>2. Listed(j) \/ Leaving(j)
        BY <4>1 DEF JobKnown
      <4>3. Listed(j) => j \in T
        BY DEF Listed, In
      <4>4. Leaving(j) => coordinator.at = "join" /\ j = last
        BY <4>1 DEF JobKnown, Leaving
      <4> QED
        BY <4>2, <4>3, <4>4
    <3>3. /\ coordinator.at = "join" => runtime.admitted = Len(q) + 1
          /\ runtime.admitted >= Len(q)
      <4>1. runtime.admitted = Slots
        BY <2>0 DEF SlotsKnown
      <4> QED
        BY <2>0, <2>1, <4>1, SlotsValue
    <3>4. Len(q) \in Nat
      BY <2>1
    <3> HIDE DEF A, q, T, last
    <3>5. CASE coordinator.at = "join"
      <4> DEFINE U == T \cup {last}
      <4>1. A \subseteq U
        BY <3>2
      <4>2. IsFiniteSet(U) /\ (Cardinality(U) = Cardinality(T) \/ Cardinality(U) = Cardinality(T) + 1)
        BY <3>1, FS_AddElement
      <4> HIDE DEF U
      <4>3. Cardinality(A) <= Cardinality(U) /\ IsFiniteSet(A)
        BY <4>1, <4>2, FS_Subset
      <4>4. Cardinality(A) \in Nat
        BY <4>3, FS_CardinalityType
      <4>5. Cardinality(A) <= runtime.admitted
        BY <2>1, <3>1, <3>3, <3>4, <3>5, <4>2, <4>3, <4>4
      <4> QED
        BY <4>5 DEF A
    <3>6. CASE coordinator.at # "join"
      <4>1. A \subseteq T
        BY <3>2, <3>6
      <4>2. Cardinality(A) <= Cardinality(T) /\ IsFiniteSet(A)
        BY <3>1, <4>1, FS_Subset
      <4>3. Cardinality(A) \in Nat
        BY <4>2, FS_CardinalityType
      <4>4. Cardinality(A) <= runtime.admitted
        BY <2>1, <3>1, <3>3, <3>4, <4>2, <4>3
      <4> QED
        BY <4>4 DEF A
    <3> QED
      BY <3>5, <3>6
  <2>5. runtime.admitted <= RuntimeCapacity
    BY <2>0 DEF SlotsKnown
  <2> QED
    BY <2>2, <2>3, <2>4, <2>5 DEF DrainedMeansJoined, SlotHeldUntilDrained
<1> QED
  BY <1>1, ReverseInvariant, PTL
=============================================================================

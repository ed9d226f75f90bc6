------------------------ MODULE UpdateProtocolProofs ------------------------
(***************************************************************************)
(* Proofs about UpdateProtocol, for every number of formats, sizes,        *)
(* changes, resizes, selections and refreshes.                             *)
(***************************************************************************)
EXTENDS UpdateProtocol, FiniteSetTheorems, SequenceTheorems, TLAPS

----------------------------------------------------------------------------
(* The inductive invariant *)

ConnType == [pf : Formats, nextPF : Formats, formatChange : BOOLEAN, pendingPF : Formats,
             pendingPFChange : BOOLEAN, firstUpdate : BOOLEAN, pendingUpdate : BOOLEAN,
             continuousUpdates : BOOLEAN, forceNonincremental : BOOLEAN, supported : BOOLEAN,
             size : Sizes, reading : BOOLEAN]
PeerType == [pf : Formats, continuousUpdates : BOOLEAN, cuRegion : SUBSET Int,
             requested : SUBSET Int, changed : SUBSET Int, lossy : SUBSET Int, size : Sizes,
             desktopSize : BOOLEAN, cursor : BOOLEAN]
ServerMessage ==
  [type : {"SetPixelFormat"}, pf : Formats] \cup [type : {"SetEncodings", "Disable"}]
    \cup [type : {"Request"}, size : Sizes, incremental : BOOLEAN]
    \cup [type : {"Enable"}, size : Sizes]

\* What the messages carry is of no interest, only that they form a sequence.
IsSequence(q) == q \in Seq({q[i] : i \in 1 .. Len(q)})

Types == conn \in ConnType /\ peer \in PeerType /\ toServer \in Seq(ServerMessage) /\ IsSequence(toClient)

\* An update that a viewer with format f decodes.
Fits(m, f) == /\ m.type = "Update" /\ m.size \in Sizes \cup {0}
              /\ m.size # 0 \/ m.pf = f
Mark(m) == m.type = "EndOfContinuousUpdates"
Selects(m, f) == m.type = "SetPixelFormat" /\ m.pf = f

\* Before continuous updates there is one request or one answer, not counting the update that is
\* being read.  The viewer waits for its first update:
Opening ==
  /\ conn.pendingPFChange = FALSE
  /\ \/ /\ Len(toClient) = 0 /\ conn.supported = FALSE /\ peer.requested = {}
        /\ \/ /\ Len(toServer) = 3 /\ Selects(toServer[1], conn.pf)
              /\ toServer[2].type = "SetEncodings" /\ toServer[3].type = "Request"
           \/ /\ Len(toServer) = 2 /\ peer.pf = conn.pf
              /\ toServer[1].type = "SetEncodings" /\ toServer[2].type = "Request"
     \/ /\ peer.pf = conn.pf
        /\ \/ /\ Len(toClient) = 0 /\ conn.supported = TRUE
           \/ /\ Len(toClient) = 1 /\ Mark(toClient[1])
        /\ \/ Len(toServer) = 0
           \/ Len(toServer) = 1 /\ toServer[1].type = "Request" /\ peer.requested = {}
     \/ /\ peer.pf = conn.pf /\ Len(toServer) = 0 /\ peer.requested = {}
        /\ \/ Len(toClient) = 1 /\ Fits(toClient[1], conn.pf) /\ conn.supported = TRUE
           \/ Len(toClient) = 2 /\ Mark(toClient[1]) /\ Fits(toClient[2], conn.pf)

\* The format after the update that is being read.
Then == IF conn.pendingPFChange THEN conn.pendingPF ELSE conn.pf

\* ... and reads it, having asked for the next one.
Reading ==
  /\ conn.supported = TRUE /\ Len(toClient) >= 1 /\ Fits(toClient[1], conn.pf)
  /\ \/ /\ Len(toClient) = 1 /\ peer.requested = {}
        /\ \/ Len(toServer) = 2 /\ Selects(toServer[1], Then) /\ toServer[2].type = "Request"
           \/ Len(toServer) = 1 /\ toServer[1].type = "Request" /\ peer.pf = Then
     \/ Len(toClient) = 1 /\ Len(toServer) = 0 /\ peer.pf = Then
     \/ /\ Len(toClient) = 2 /\ Fits(toClient[2], Then)
        /\ Len(toServer) = 0 /\ peer.requested = {} /\ peer.pf = Then

Before ==
  /\ conn.firstUpdate = TRUE /\ peer.continuousUpdates = FALSE
  /\ conn.reading = FALSE => Opening
  /\ conn.reading = TRUE => Reading

\* With continuous updates: the server's writer is quiet when the request that stands is only
\* answered with the desktop's size.  It is quiet by the time it reads message k of q.
Quiet(p) == p.requested = {} \/ p.desktopSize = TRUE
Incremental(m) == m.type = "Request" /\ m.incremental = TRUE
QuietAt(q, k, quiet) ==
  \/ quiet /\ \A i \in 1 .. k - 1 : ~Incremental(q[i])
  \/ \E j \in 1 .. k - 1 : /\ q[j].type = "Enable"
                           /\ \A i \in j + 1 .. k - 1 : ~Incremental(q[i])

\* The messages q to a server p: a format is selected right after continuous updates end, and
\* in between no data is written.  `marked' says that the end is already on its way back.
Asked(q, p, pf, new, pending, marked) ==
  LET now == IF marked THEN new ELSE pf IN
  /\ q \in Seq(ServerMessage) /\ QuietAt(q, Len(q) + 1, Quiet(p))
  /\ \A k \in 1 .. Len(q) : q[k].type # "SetEncodings"
  /\ \A k \in 1 .. Len(q) : q[k].type = "Disable" =>
       /\ QuietAt(q, k, Quiet(p)) /\ k < Len(q) /\ Selects(q[k + 1], new)
       /\ pending = TRUE /\ ~marked
       /\ \A i \in 1 .. Len(q) : q[i].type = "Disable" => i = k
  /\ \A i \in 1 .. Len(q) : q[i].type = "SetPixelFormat" =>
       \/ i > 1 /\ q[i - 1].type = "Disable"
       \/ i = 1 /\ p.continuousUpdates = FALSE /\ Quiet(p) /\ q[i].pf = now
  /\ (Len(q) >= 1 /\ q[1].type = "SetPixelFormat") \/ p.pf = now

\* The messages t to a viewer: what follows the mark has the new format.
Marked(t) == \E j \in 1 .. Len(t) : Mark(t[j])
Answered(t, pf, new, pending) ==
  /\ IsSequence(t)
  /\ \A i \in 1 .. Len(t) : Mark(t[i]) => pending = TRUE /\ \A j \in 1 .. Len(t) : Mark(t[j]) => j = i
  /\ \A i \in 1 .. Len(t) : \/ Mark(t[i])
                            \/ Fits(t[i], new) /\ \E j \in 1 .. i - 1 : Mark(t[j])
                            \/ Fits(t[i], pf) /\ ~\E j \in 1 .. i - 1 : Mark(t[j])

Continuous ==
  /\ Asked(toServer, peer, conn.pf, conn.pendingPF, conn.pendingPFChange, Marked(toClient))
  /\ Answered(toClient, conn.pf, conn.pendingPF, conn.pendingPFChange)
  /\ conn.reading = TRUE => Len(toClient) >= 1 /\ ~Mark(toClient[1])

UpdateInv ==
  /\ Types
  /\ conn.continuousUpdates = FALSE => Before
  /\ conn.continuousUpdates = TRUE => Continuous

----------------------------------------------------------------------------
(* Sequences of messages *)

\* Every sequence is one of its own elements.
LEMMA SequenceOf ==
  ASSUME NEW S, NEW q \in Seq(S)
  PROVE  IsSequence(q) /\ Len(q) \in Nat
BY DEF IsSequence

LEMMA AppendedTo ==
  ASSUME NEW q, NEW m, IsSequence(q)
  PROVE  LET r == Append(q, m) IN
         /\ IsSequence(r) /\ Len(q) \in Nat /\ Len(r) = Len(q) + 1
         /\ (\A i \in 1 .. Len(q) : r[i] = q[i]) /\ r[Len(q) + 1] = m
<1> DEFINE S == {q[i] : i \in 1 .. Len(q)} \cup {m}
           r == Append(q, m)
<1>1. q \in Seq(S) /\ m \in S
  BY DEF IsSequence
<1> HIDE DEF S
<1>2. /\ r \in Seq(S) /\ Len(q) \in Nat /\ Len(r) = Len(q) + 1
      /\ (\A i \in 1 .. Len(q) : r[i] = q[i]) /\ r[Len(q) + 1] = m
  BY <1>1
<1> HIDE DEF r
<1>3. IsSequence(r)
  BY <1>2, SequenceOf
<1> QED
  BY <1>2, <1>3 DEF r

LEMMA TailOf ==
  ASSUME NEW q, IsSequence(q), q # <<>>, NEW r, r = Tail(q)
  PROVE  /\ IsSequence(r) /\ Len(q) \in Nat /\ Len(q) >= 1 /\ Len(r) = Len(q) - 1
         /\ Head(q) = q[1] /\ \A i \in 1 .. Len(r) : r[i] = q[i + 1]
<1> DEFINE S == {q[i] : i \in 1 .. Len(q)}
<1>1. q \in Seq(S)
  BY DEF IsSequence
<1> HIDE DEF S
<1>2. Len(q) \in Nat /\ Len(q) >= 1 /\ Head(q) = q[1]
  BY <1>1, EmptySeq
<1>3. r \in Seq(S) /\ Len(r) = Len(q) - 1 /\ \A i \in 1 .. Len(r) : r[i] = q[i + 1]
  BY <1>1, <1>2
<1> QED
  BY <1>2, <1>3, SequenceOf

LEMMA Joined ==
  ASSUME NEW q, IsSequence(q)
  PROVE  /\ q \o <<>> = q /\ \A m : q \o <<m>> = Append(q, m)
         /\ \A m, n : q \o Append(<<m>>, n) = Append(Append(q, m), n)
<1> DEFINE S == {q[i] : i \in 1 .. Len(q)}
<1>1. q \in Seq(S)
  BY DEF IsSequence
<1> HIDE DEF S
<1>2. q \o <<>> = q
  BY <1>1
<1>3. ASSUME NEW m PROVE q \o <<m>> = Append(q, m)
  <2>1. q \in Seq(S \cup {m}) /\ m \in S \cup {m}
    BY <1>1
  <2> QED
    BY <2>1, AppendIsConcat
<1>4. ASSUME NEW m, NEW n PROVE q \o Append(<<m>>, n) = Append(Append(q, m), n)
  <2> DEFINE T == S \cup {m, n}
  <2>1. q \in Seq(T) /\ <<m>> \in Seq(T) /\ <<n>> \in Seq(T) /\ m \in T /\ n \in T
    BY <1>1
  <2> HIDE DEF T
  <2>2. Append(<<m>>, n) = <<m>> \o <<n>>
    BY <2>1, AppendIsConcat
  <2>3. q \o (<<m>> \o <<n>>) = (q \o <<m>>) \o <<n>>
    BY <2>1, ConcatAssociative
  <2>4. q \o <<m>> = Append(q, m) /\ Append(q, m) \in Seq(T)
    BY <2>1, AppendIsConcat
  <2>5. Append(q, m) \o <<n>> = Append(Append(q, m), n)
    BY <2>1, <2>4, AppendIsConcat
  <2> QED
    BY <2>2, <2>3, <2>4, <2>5
<1> QED
  BY <1>2, <1>3, <1>4

----------------------------------------------------------------------------
(* What is on its way to the server *)

LEMMA QuietGrows ==
  ASSUME NEW q, NEW r, NEW quiet, NEW k \in Nat, \A i \in 1 .. k - 1 : r[i] = q[i], QuietAt(q, k, quiet)
  PROVE  QuietAt(r, k, quiet)
<1>1. \A j \in 1 .. k - 1 : \A i \in j + 1 .. k - 1 : i \in 1 .. k - 1
  OBVIOUS
<1> QED
  BY <1>1 DEF QuietAt

\* A desktop's region or a refresh is asked for.
LEMMA AskedMore ==
  ASSUME NEW q, NEW p, NEW pf, NEW new, NEW pending, NEW marked, Asked(q, p, pf, new, pending, marked),
         NEW m \in ServerMessage, m.type = "Enable" \/ (m.type = "Request" /\ m.incremental = FALSE),
         NEW r, r = Append(q, m)
  PROVE  Asked(r, p, pf, new, pending, marked)
<1> DEFINE n == Len(q)
           now == IF marked THEN new ELSE pf
<1>1. q \in Seq(ServerMessage) /\ QuietAt(q, n + 1, Quiet(p))
  BY DEF Asked
<1>2. /\ r \in Seq(ServerMessage) /\ n \in Nat /\ Len(r) = n + 1
      /\ (\A i \in 1 .. n : r[i] = q[i]) /\ r[n + 1] = m
  BY <1>1
<1>3. \A i \in 1 .. n + 1 : i \in 1 .. n \/ i = n + 1
  BY <1>2
<1>4. m.type \notin {"SetPixelFormat", "Disable", "SetEncodings"} /\ ~Incremental(m)
  BY DEF Incremental
<1>5. QuietAt(r, n + 2, Quiet(p))
  <2>1. (n + 2) - 1 = n + 1 /\ (n + 1) - 1 = n
    BY <1>2
  <2>2. \A i \in 1 .. n : ~Incremental(q[i]) => ~Incremental(r[i])
    BY <1>2
  <2>3. CASE Quiet(p) /\ \A i \in 1 .. n : ~Incremental(q[i])
    BY <1>2, <1>3, <1>4, <2>1, <2>2, <2>3 DEF QuietAt
  <2>4. CASE \E j \in 1 .. n : q[j].type = "Enable" /\ \A i \in j + 1 .. n : ~Incremental(q[i])
    <3>1. PICK j \in 1 .. n : q[j].type = "Enable" /\ \A i \in j + 1 .. n : ~Incremental(q[i])
      BY <2>4
    <3>2. \A i \in j + 1 .. n + 1 : i \in 1 .. n + 1 /\ (i \in j + 1 .. n \/ i = n + 1)
      BY <1>2, <3>1
    <3>3. j \in 1 .. n + 1 /\ r[j].type = "Enable" /\ \A i \in j + 1 .. n : i \in 1 .. n
      BY <1>2, <3>1
    <3>4. \A i \in j + 1 .. n + 1 : ~Incremental(r[i])
      BY <1>2, <1>4, <2>2, <3>1, <3>2, <3>3
    <3> QED
      BY <2>1, <3>3, <3>4 DEF QuietAt
  <2> QED
    BY <1>1, <2>1, <2>3, <2>4 DEF QuietAt
<1>6. Len(r) + 1 = n + 2
  BY <1>2
<1>7. \A k \in 1 .. Len(r) : r[k].type # "SetEncodings"
  BY <1>2, <1>3, <1>4 DEF Asked
<1>8. ASSUME NEW k \in 1 .. Len(r), r[k].type = "Disable"
      PROVE  /\ QuietAt(r, k, Quiet(p)) /\ k < Len(r) /\ Selects(r[k + 1], new)
             /\ pending = TRUE /\ ~marked
             /\ \A i \in 1 .. Len(r) : r[i].type = "Disable" => i = k
  <2>1. k \in 1 .. n /\ q[k].type = "Disable"
    BY <1>2, <1>3, <1>4, <1>8
  <2>2. /\ QuietAt(q, k, Quiet(p)) /\ k < n /\ Selects(q[k + 1], new) /\ pending = TRUE /\ ~marked
        /\ \A i \in 1 .. n : q[i].type = "Disable" => i = k
    BY <2>1 DEF Asked
  <2>3. k \in Nat /\ k < Len(r) /\ k + 1 \in 1 .. n /\ \A i \in 1 .. k - 1 : r[i] = q[i]
    BY <1>2, <2>1, <2>2
  <2>4. QuietAt(r, k, Quiet(p))
    BY <2>2, <2>3, QuietGrows
  <2> QED
    BY <1>2, <1>3, <1>4, <2>2, <2>3, <2>4
<1>9. ASSUME NEW i \in 1 .. Len(r), r[i].type = "SetPixelFormat"
      PROVE  \/ i > 1 /\ r[i - 1].type = "Disable"
             \/ i = 1 /\ p.continuousUpdates = FALSE /\ Quiet(p) /\ r[i].pf = now
  <2>1. i \in 1 .. n /\ q[i].type = "SetPixelFormat"
    BY <1>2, <1>3, <1>4, <1>9
  <2>2. i > 1 => i - 1 \in 1 .. n
    BY <1>2, <2>1
  <2> QED
    BY <1>2, <2>1, <2>2 DEF Asked
<1>10. (Len(r) >= 1 /\ r[1].type = "SetPixelFormat") \/ p.pf = now
  <2>1. n >= 1 => 1 \in 1 .. n /\ Len(r) >= 1
    BY <1>2
  <2> QED
    BY <1>2, <2>1 DEF Asked
<1> QED
  BY <1>2, <1>5, <1>6, <1>7, <1>8, <1>9, <1>10 DEF Asked

\* Another format is selected; the viewer will switch to it at the mark.
LEMMA AskedSwitch ==
  ASSUME NEW q, NEW p, NEW pf, NEW old, Asked(q, p, pf, old, FALSE, FALSE), NEW new \in Formats,
         NEW r, r = Append(Append(q, [type |-> "Disable"]), [type |-> "SetPixelFormat", pf |-> new])
  PROVE  Asked(r, p, pf, new, TRUE, FALSE)
<1> DEFINE n == Len(q)
           a == [type |-> "Disable"]
           b == [type |-> "SetPixelFormat", pf |-> new]
<1>1. q \in Seq(ServerMessage) /\ QuietAt(q, n + 1, Quiet(p)) /\ a \in ServerMessage /\ b \in ServerMessage
  BY DEF Asked, ServerMessage
<1>2. /\ a.type = "Disable" /\ Selects(b, new) /\ b.type = "SetPixelFormat"
      /\ ~Incremental(a) /\ ~Incremental(b)
  BY DEF Selects, Incremental
<1> HIDE DEF a, b
<1>3. /\ r \in Seq(ServerMessage) /\ n \in Nat /\ Len(r) = n + 2
      /\ (\A i \in 1 .. n : r[i] = q[i]) /\ r[n + 1] = a /\ r[n + 2] = b
  <2>1. r = Append(Append(q, a), b)
    BY DEF a, b
  <2> QED
    BY <1>1, <2>1
<1>4. \A i \in 1 .. n + 2 : i \in 1 .. n \/ i = n + 1 \/ i = n + 2
  BY <1>3
<1>5. \A i \in 1 .. n : q[i].type # "Disable"
  BY DEF Asked
<1>6. QuietAt(r, n + 1, Quiet(p))
  <2> DEFINE k == n + 1
             quiet == Quiet(p)
  <2>1. k \in Nat /\ (\A i \in 1 .. k - 1 : r[i] = q[i]) /\ QuietAt(q, k, quiet)
    BY <1>1, <1>3
  <2> HIDE DEF k, quiet
  <2>2. QuietAt(r, k, quiet)
    BY <2>1, QuietGrows
  <2> QED
    BY <2>2 DEF k, quiet
<1>7. QuietAt(r, n + 3, Quiet(p))
  <2>1. (n + 3) - 1 = n + 2 /\ (n + 1) - 1 = n
    BY <1>3
  <2>2. CASE Quiet(p) /\ \A i \in 1 .. n : ~Incremental(r[i])
    BY <1>2, <1>3, <1>4, <2>1, <2>2 DEF QuietAt
  <2>3. CASE \E j \in 1 .. n : r[j].type = "Enable" /\ \A i \in j + 1 .. n : ~Incremental(r[i])
    <3>1. PICK j \in 1 .. n : r[j].type = "Enable" /\ \A i \in j + 1 .. n : ~Incremental(r[i])
      BY <2>3
    <3>2. j \in 1 .. n + 2 /\ \A i \in j + 1 .. n + 2 : i \in j + 1 .. n \/ i = n + 1 \/ i = n + 2
      <4>1. n \in Nat /\ j \in 1 .. n
        BY <1>3
      <4> QED
        BY ONLY <4>1
    <3>3. ASSUME NEW i \in j + 1 .. n + 2 PROVE ~Incremental(r[i])
      <4>1. CASE i \in j + 1 .. n
        BY <3>1, <4>1
      <4>2. CASE i = n + 1
        BY <1>2, <1>3, <4>2
      <4>3. CASE i = n + 2
        BY <1>2, <1>3, <4>3
      <4> QED
        BY <3>2, <4>1, <4>2, <4>3
    <3> QED
      BY <2>1, <3>1, <3>2, <3>3 DEF QuietAt
  <2> QED
    BY <1>6, <2>1, <2>2, <2>3 DEF QuietAt
<1>8. \A k \in 1 .. Len(r) : r[k].type # "SetEncodings"
  BY <1>2, <1>3, <1>4 DEF Asked
<1>9. ASSUME NEW k \in 1 .. Len(r), r[k].type = "Disable"
      PROVE  /\ QuietAt(r, k, Quiet(p)) /\ k < Len(r) /\ Selects(r[k + 1], new)
             /\ \A i \in 1 .. Len(r) : r[i].type = "Disable" => i = k
  <2>1. k = n + 1
    BY <1>2, <1>3, <1>4, <1>5, <1>9
  <2>2. k < Len(r) /\ k + 1 = n + 2
    BY <1>3, <2>1
  <2>3. QuietAt(r, k, Quiet(p)) /\ Selects(r[k + 1], new)
    BY <1>2, <1>3, <1>6, <2>1, <2>2
  <2>4. \A i \in 1 .. Len(r) : r[i].type = "Disable" => i = n + 1
    BY <1>2, <1>3, <1>4, <1>5
  <2> QED
    BY <2>1, <2>2, <2>3, <2>4
<1>10. ASSUME NEW i \in 1 .. Len(r), r[i].type = "SetPixelFormat"
       PROVE  \/ i > 1 /\ r[i - 1].type = "Disable"
              \/ i = 1 /\ p.continuousUpdates = FALSE /\ Quiet(p) /\ r[i].pf = pf
  <2>1. CASE i = n + 2
    <3>1. i > 1 /\ i - 1 = n + 1
      BY <1>3, <2>1
    <3> QED
      BY <1>2, <1>3, <3>1
  <2>2. CASE i \in 1 .. n
    <3>1. i > 1 => i - 1 \in 1 .. n
      BY <1>3, <2>2
    <3> QED
      BY <1>3, <1>5, <1>10, <2>2, <3>1 DEF Asked
  <2> QED
    BY <1>2, <1>3, <1>4, <1>10, <2>1, <2>2
<1>11. (Len(r) >= 1 /\ r[1].type = "SetPixelFormat") \/ p.pf = pf
  <2>1. n >= 1 => 1 \in 1 .. n /\ Len(r) >= 1
    BY <1>3
  <2> QED
    BY <1>3, <2>1 DEF Asked
<1>12. Len(r) + 1 = n + 3
  BY <1>3
<1> QED
  BY <1>3, <1>7, <1>8, <1>9, <1>10, <1>11, <1>12 DEF Asked

\* Message k + 1 becomes message k when the first is read.
LEMMA QuietShrinks ==
  ASSUME NEW q, NEW r, NEW k \in Nat, k >= 1, \A i \in 1 .. k - 1 : r[i] = q[i + 1],
         NEW quiet, NEW after, QuietAt(q, k + 1, quiet),
         after \/ (q[1].type # "Enable" /\ (Incremental(q[1]) \/ ~quiet))
  PROVE  QuietAt(r, k, after)
<1>1. (k + 1) - 1 = k /\ \A i \in 1 .. k - 1 : i + 1 \in 1 .. k
  OBVIOUS
<1>2. CASE quiet /\ (\A i \in 1 .. k : ~Incremental(q[i])) /\ after
  BY <1>1, <1>2 DEF QuietAt
<1>3. CASE q[1].type = "Enable" /\ (\A i \in 2 .. k : ~Incremental(q[i])) /\ after
  <2>1. \A i \in 1 .. k - 1 : i + 1 \in 2 .. k
    OBVIOUS
  <2> QED
    BY <1>3, <2>1 DEF QuietAt
<1>4. ASSUME NEW j \in 2 .. k, q[j].type = "Enable", \A i \in j + 1 .. k : ~Incremental(q[i])
      PROVE  QuietAt(r, k, after)
  <2>1. j - 1 \in 1 .. k - 1 /\ (j - 1) + 1 = j
    OBVIOUS
  <2>2. \A i \in (j - 1) + 1 .. k - 1 : i + 1 \in j + 1 .. k /\ i \in 1 .. k - 1
    OBVIOUS
  <2>3. r[j - 1].type = "Enable" /\ \A i \in (j - 1) + 1 .. k - 1 : ~Incremental(r[i])
    BY <1>4, <2>1, <2>2
  <2> QED
    BY <2>1, <2>3 DEF QuietAt
<1>5. \/ quiet /\ \A i \in 1 .. k : ~Incremental(q[i])
      \/ \E j \in 1 .. k : q[j].type = "Enable" /\ \A i \in j + 1 .. k : ~Incremental(q[i])
  BY <1>1 DEF QuietAt
<1>6. \A j \in 1 .. k : j = 1 \/ j \in 2 .. k
  OBVIOUS
<1>7. 1 \in 1 .. k /\ 1 + 1 = 2
  OBVIOUS
<1>8. CASE quiet /\ \A i \in 1 .. k : ~Incremental(q[i])
  BY <1>2, <1>7, <1>8
<1>9. CASE \E j \in 1 .. k : q[j].type = "Enable" /\ \A i \in j + 1 .. k : ~Incremental(q[i])
  BY <1>3, <1>4, <1>6, <1>7, <1>9
<1> QED
  BY <1>5, <1>8, <1>9

\* The server reads a message other than the end of continuous updates.
LEMMA ReadPlain ==
  ASSUME NEW q, NEW p, NEW pf, NEW new, NEW pending, NEW marked, Asked(q, p, pf, new, pending, marked),
         q # <<>>, NEW s, q[1].type # "Disable",
         \/ q[1].type = "Enable" /\ s.pf = p.pf /\ Quiet(s)
         \/ q[1].type = "Request" /\ s.pf = p.pf /\ (Quiet(s) \/ Incremental(q[1]))
         \/ q[1].type = "SetPixelFormat" /\ s.pf = q[1].pf /\ (Quiet(p) => Quiet(s))
  PROVE  Asked(Tail(q), s, pf, new, pending, marked)
<1> DEFINE n == Len(q)
           r == Tail(q)
           now == IF marked THEN new ELSE pf
<1>1. q \in Seq(ServerMessage) /\ QuietAt(q, n + 1, Quiet(p))
  BY DEF Asked
<1>2. /\ r \in Seq(ServerMessage) /\ n \in Nat /\ n >= 1 /\ Len(r) = n - 1
      /\ \A i \in 1 .. Len(r) : r[i] = q[i + 1] /\ i + 1 \in 1 .. n
  <2>1. n \in Nat /\ n >= 1
    BY <1>1, EmptySeq
  <2> QED
    BY <1>1, <2>1
<1> HIDE DEF r
<1>3. Quiet(s) \/ (q[1].type # "Enable" /\ (Incremental(q[1]) \/ ~Quiet(p)))
  OBVIOUS
<1>4. ASSUME NEW k \in Nat, k >= 1, k <= n, QuietAt(q, k + 1, Quiet(p)) PROVE QuietAt(r, k, Quiet(s))
  <2> DEFINE before == Quiet(p)
             after == Quiet(s)
  <2>1. QuietAt(q, k + 1, before) /\ (after \/ (q[1].type # "Enable" /\ (Incremental(q[1]) \/ ~before)))
    BY <1>3, <1>4
  <2>2. \A i \in 1 .. k - 1 : r[i] = q[i + 1]
    BY <1>2, <1>4
  <2> HIDE DEF before, after
  <2>3. QuietAt(r, k, after)
    BY <1>4, <2>1, <2>2, QuietShrinks
  <2> QED
    BY <2>3 DEF after
<1>5. QuietAt(r, Len(r) + 1, Quiet(s))
  <2>1. Len(r) + 1 = n
    BY <1>2
  <2> QED
    BY <1>1, <1>2, <1>4, <2>1
<1>6. \A k \in 1 .. Len(r) : r[k].type # "SetEncodings"
  BY <1>2 DEF Asked
<1>7. ASSUME NEW k \in 1 .. Len(r), r[k].type = "Disable"
      PROVE  /\ QuietAt(r, k, Quiet(s)) /\ k < Len(r) /\ Selects(r[k + 1], new)
             /\ pending = TRUE /\ ~marked
             /\ \A i \in 1 .. Len(r) : r[i].type = "Disable" => i = k
  <2>1. k + 1 \in 1 .. n /\ q[k + 1].type = "Disable"
    BY <1>2, <1>7
  <2>2. /\ QuietAt(q, k + 1, Quiet(p)) /\ k + 1 < n /\ Selects(q[(k + 1) + 1], new)
        /\ pending = TRUE /\ ~marked
        /\ \A i \in 1 .. n : q[i].type = "Disable" => i = k + 1
    BY <2>1 DEF Asked
  <2>3. k \in Nat /\ k >= 1 /\ k <= n /\ k < Len(r) /\ k + 1 \in 1 .. Len(r)
    BY <1>2, <2>2
  <2>4. QuietAt(r, k, Quiet(s))
    BY <1>4, <2>2, <2>3
  <2>5. \A i \in 1 .. Len(r) : r[i].type = "Disable" => i = k
    <3>1. \A i \in 1 .. Len(r) : r[i].type = "Disable" => i + 1 = k + 1
      BY <1>2, <2>2
    <3> QED
      BY <1>2, <3>1
  <2> QED
    BY <1>2, <2>2, <2>3, <2>4, <2>5
<1>8. ASSUME NEW i \in 1 .. Len(r), r[i].type = "SetPixelFormat"
      PROVE  i > 1 /\ r[i - 1].type = "Disable"
  <2>1. i + 1 \in 1 .. n /\ q[i + 1].type = "SetPixelFormat" /\ i + 1 > 1 /\ (i + 1) - 1 = i /\ i + 1 # 1
    BY <1>2, <1>8
  <2>2. q[i].type = "Disable"
    BY <2>1 DEF Asked
  <2>3. i > 1 /\ i - 1 \in 1 .. Len(r) /\ (i - 1) + 1 = i
    BY <1>2, <2>2
  <2> QED
    BY <1>2, <2>2, <2>3
<1>9. s.pf = now
  <2>1. CASE q[1].type = "SetPixelFormat"
    BY <1>2, <2>1 DEF Asked
  <2>2. CASE q[1].type # "SetPixelFormat"
    BY <2>2 DEF Asked
  <2> QED
    BY <2>1, <2>2
<1>10. Asked(r, s, pf, new, pending, marked)
  BY <1>2, <1>5, <1>6, <1>7, <1>8, <1>9 DEF Asked
<1> QED
  BY <1>10 DEF r

\* The server reads the end of continuous updates, and marks it in its own stream.
LEMMA ReadDisable ==
  ASSUME NEW q, NEW p, NEW pf, NEW new, NEW pending, NEW marked, Asked(q, p, pf, new, pending, marked),
         q # <<>>, NEW s, q[1].type = "Disable", s.pf = p.pf, s.continuousUpdates = FALSE,
         Quiet(s) <=> Quiet(p)
  PROVE  Asked(Tail(q), s, pf, new, pending, TRUE) /\ pending = TRUE /\ ~marked
<1> DEFINE n == Len(q)
           r == Tail(q)
<1>1. q \in Seq(ServerMessage) /\ QuietAt(q, n + 1, Quiet(p))
  BY DEF Asked
<1>2. /\ r \in Seq(ServerMessage) /\ n \in Nat /\ n >= 1 /\ Len(r) = n - 1
      /\ \A i \in 1 .. Len(r) : r[i] = q[i + 1] /\ i + 1 \in 1 .. n
  <2>1. n \in Nat /\ n >= 1
    BY <1>1, EmptySeq
  <2> QED
    BY <1>1, <2>1
<1> HIDE DEF r
<1>3. /\ QuietAt(q, 1, Quiet(p)) /\ 1 < n /\ Selects(q[1 + 1], new) /\ pending = TRUE /\ ~marked
      /\ \A i \in 1 .. n : q[i].type = "Disable" => i = 1
  <2>1. 1 \in 1 .. n
    BY <1>2
  <2> QED
    BY <2>1 DEF Asked
<1>4. Quiet(p)
  BY <1>3 DEF QuietAt
<1>5. QuietAt(r, Len(r) + 1, Quiet(s))
  <2> DEFINE before == Quiet(p)
             after == Quiet(s)
  <2>1. QuietAt(q, n + 1, before) /\ after
    BY <1>1, <1>4
  <2>2. Len(r) + 1 = n /\ \A i \in 1 .. n - 1 : r[i] = q[i + 1]
    BY <1>2
  <2> HIDE DEF before, after, n
  <2>3. QuietAt(r, n, after)
    BY <1>2, <2>1, <2>2, QuietShrinks
  <2> QED
    BY <2>2, <2>3 DEF after
<1>6. \A k \in 1 .. Len(r) : r[k].type # "SetEncodings"
  BY <1>2 DEF Asked
<1>7. ASSUME NEW k \in 1 .. Len(r) PROVE r[k].type # "Disable"
  <2>1. k + 1 \in 1 .. n /\ k + 1 # 1 /\ r[k] = q[k + 1]
    BY <1>2
  <2> QED
    BY <1>3, <2>1
<1>8. /\ Len(r) >= 1 /\ r[1] = q[1 + 1] /\ r[1].type = "SetPixelFormat" /\ r[1].pf = new
  BY <1>2, <1>3 DEF Selects
<1>9. ASSUME NEW i \in 1 .. Len(r), r[i].type = "SetPixelFormat" PROVE i = 1
  <2>1. i + 1 \in 1 .. n /\ q[i + 1].type = "SetPixelFormat" /\ i + 1 > 1 /\ (i + 1) - 1 = i /\ i + 1 # 1
    BY <1>2, <1>9
  <2>2. q[i].type = "Disable"
    BY <2>1 DEF Asked
  <2>3. i \in 1 .. n
    BY <1>2
  <2> QED
    BY <1>3, <2>2, <2>3
<1>10. Asked(r, s, pf, new, pending, TRUE)
  BY <1>2, <1>4, <1>5, <1>6, <1>7, <1>8, <1>9 DEF Asked
<1> QED
  BY <1>3, <1>10 DEF r

\* The server writes, or its screen changes: nothing is read and it does not become less quiet.
LEMMA AskedSame ==
  ASSUME NEW q, NEW p, NEW pf, NEW new, NEW pending, NEW marked, Asked(q, p, pf, new, pending, marked),
         NEW s, s.pf = p.pf, s.continuousUpdates = p.continuousUpdates, Quiet(p) => Quiet(s)
  PROVE  Asked(q, s, pf, new, pending, marked)
<1>1. ASSUME NEW k, QuietAt(q, k, Quiet(p)) PROVE QuietAt(q, k, Quiet(s))
  BY <1>1 DEF QuietAt
<1> QED
  BY <1>1 DEF Asked

\* The viewer reads the mark and switches.
LEMMA AskedMarked ==
  ASSUME NEW q, NEW p, NEW pf, NEW new, NEW pending, Asked(q, p, pf, new, pending, TRUE)
  PROVE  Asked(q, p, new, new, FALSE, FALSE)
BY DEF Asked

----------------------------------------------------------------------------
(* What is on its way to the viewer *)

\* An update in the format that the viewer will have by then.
LEMMA UpdateWritten ==
  ASSUME NEW t, NEW pf, NEW new, NEW pending, Answered(t, pf, new, pending), NEW m,
         Fits(m, IF Marked(t) THEN new ELSE pf), NEW u, u = Append(t, m)
  PROVE  Answered(u, pf, new, pending) /\ (Marked(u) <=> Marked(t)) /\ Len(u) >= 1
         /\ (Len(t) >= 1 => u[1] = t[1])
<1> DEFINE n == Len(t)
<1>1. /\ IsSequence(u) /\ n \in Nat /\ Len(u) = n + 1 /\ (\A i \in 1 .. n : u[i] = t[i]) /\ u[n + 1] = m
  <2>1. IsSequence(t) /\ u = Append(t, m)
    BY DEF Answered
  <2>2. /\ IsSequence(u) /\ Len(t) \in Nat /\ Len(u) = Len(t) + 1
        /\ (\A i \in 1 .. Len(t) : u[i] = t[i]) /\ u[Len(t) + 1] = m
    BY <2>1, AppendedTo
  <2> QED
    BY <2>2
<1>2. \A i \in 1 .. n + 1 : i \in 1 .. n \/ i = n + 1
  BY <1>1
<1>3. ~Mark(m)
  BY DEF Mark, Fits
<1>4. \A i \in 1 .. n + 1 : Mark(u[i]) => i \in 1 .. n /\ Mark(t[i])
  BY <1>1, <1>2, <1>3
<1>5. \A i \in 1 .. n : i \in 1 .. n + 1 /\ (Mark(t[i]) => Mark(u[i]))
  BY <1>1
<1>6. Marked(u) <=> Marked(t)
  BY <1>1, <1>4, <1>5 DEF Marked
<1>7. ASSUME NEW i \in 1 .. n + 1
      PROVE  (\E j \in 1 .. i - 1 : Mark(u[j])) <=> (\E j \in 1 .. i - 1 : Mark(t[j]))
  <2>1. \A j \in 1 .. i - 1 : j \in 1 .. n
    BY <1>1
  <2> QED
    BY <1>1, <2>1
<1>8. ASSUME NEW i \in 1 .. n + 1
      PROVE  \/ Mark(u[i])
             \/ Fits(u[i], new) /\ \E j \in 1 .. i - 1 : Mark(u[j])
             \/ Fits(u[i], pf) /\ ~\E j \in 1 .. i - 1 : Mark(u[j])
  <2>1. CASE i \in 1 .. n
    <3>1. \/ Mark(t[i])
          \/ Fits(t[i], new) /\ \E j \in 1 .. i - 1 : Mark(t[j])
          \/ Fits(t[i], pf) /\ ~\E j \in 1 .. i - 1 : Mark(t[j])
      BY <2>1 DEF Answered
    <3> QED
      BY <1>1, <1>7, <2>1, <3>1
  <2>2. CASE i = n + 1
    <3>1. (\E j \in 1 .. i - 1 : Mark(t[j])) <=> Marked(t)
      <4>1. i - 1 = n
        BY <1>1, <2>2
      <4> QED
        BY <4>1 DEF Marked
    <3> QED
      BY <1>1, <1>7, <2>2, <3>1
  <2> QED
    BY <1>2, <2>1, <2>2
<1>9. \A i \in 1 .. n + 1 : Mark(u[i]) => pending = TRUE /\ \A j \in 1 .. n + 1 : Mark(u[j]) => j = i
  BY <1>4 DEF Answered
<1>10. Len(u) >= 1 /\ (n >= 1 => 1 \in 1 .. n)
  BY <1>1
<1> QED
  BY <1>1, <1>6, <1>8, <1>9, <1>10 DEF Answered

LEMMA MarkWritten ==
  ASSUME NEW t, NEW pf, NEW new, Answered(t, pf, new, TRUE), ~Marked(t), NEW m, Mark(m),
         NEW u, u = Append(t, m)
  PROVE  Answered(u, pf, new, TRUE) /\ Marked(u) /\ (Len(t) >= 1 => Len(u) >= 1 /\ u[1] = t[1])
<1> DEFINE n == Len(t)
<1>1. /\ IsSequence(u) /\ n \in Nat /\ Len(u) = n + 1 /\ (\A i \in 1 .. n : u[i] = t[i]) /\ u[n + 1] = m
  <2>1. IsSequence(t) /\ u = Append(t, m)
    BY DEF Answered
  <2>2. /\ IsSequence(u) /\ Len(t) \in Nat /\ Len(u) = Len(t) + 1
        /\ (\A i \in 1 .. Len(t) : u[i] = t[i]) /\ u[Len(t) + 1] = m
    BY <2>1, AppendedTo
  <2> QED
    BY <2>2
<1>2. (\A i \in 1 .. n + 1 : i \in 1 .. n \/ i = n + 1) /\ n + 1 \in 1 .. n + 1
  BY <1>1
<1>3. \A i \in 1 .. n : ~Mark(t[i]) /\ ~Mark(u[i])
  BY <1>1 DEF Marked
<1>4. \A i \in 1 .. n + 1 : Mark(u[i]) => i = n + 1
  BY <1>2, <1>3
<1>5. ASSUME NEW i \in 1 .. n PROVE Fits(u[i], pf) /\ ~\E j \in 1 .. i - 1 : Mark(u[j])
  <2>1. \A j \in 1 .. i - 1 : j \in 1 .. n
    BY <1>1
  <2> QED
    BY <1>1, <1>3, <2>1 DEF Answered
<1>6. Marked(u) /\ (n >= 1 => 1 \in 1 .. n /\ Len(u) >= 1)
  BY <1>1, <1>2 DEF Marked
<1> QED
  BY <1>1, <1>2, <1>4, <1>5, <1>6 DEF Answered

\* The viewer has read an update.
LEMMA UpdateRead ==
  ASSUME NEW t, NEW pf, NEW new, NEW pending, Answered(t, pf, new, pending), Len(t) >= 1, ~Mark(t[1]),
         NEW u, u = Tail(t)
  PROVE  Answered(u, pf, new, pending) /\ (Marked(u) <=> Marked(t))
<1> DEFINE n == Len(u)
<1>1. /\ IsSequence(u) /\ Len(t) \in Nat /\ n = Len(t) - 1 /\ n \in Nat /\ Len(t) = n + 1
      /\ \A i \in 1 .. n : u[i] = t[i + 1] /\ i + 1 \in 1 .. Len(t)
  <2>1. IsSequence(t) /\ t # <<>>
    BY DEF Answered
  <2>2. /\ IsSequence(u) /\ Len(t) \in Nat /\ n = Len(t) - 1 /\ \A i \in 1 .. n : u[i] = t[i + 1]
    BY <2>1, TailOf
  <2> QED
    BY <2>2
<1> HIDE DEF n
<1>2. ASSUME NEW i \in 1 .. n + 1, i # 1 PROVE i - 1 \in 1 .. n /\ u[i - 1] = t[i]
  <2>1. i - 1 \in 1 .. n /\ (i - 1) + 1 = i
    BY <1>1, <1>2
  <2> QED
    BY <1>1, <2>1
<1>3. ASSUME NEW i \in 1 .. n + 1, i # 1
      PROVE  (\E j \in 1 .. i - 1 : Mark(t[j])) <=> (\E j \in 1 .. (i - 1) - 1 : Mark(u[j]))
  <2>1. ASSUME NEW j \in 1 .. i - 1, Mark(t[j]) PROVE \E k \in 1 .. (i - 1) - 1 : Mark(u[k])
    <3>1. j # 1
      BY <2>1
    <3>2. j - 1 \in 1 .. (i - 1) - 1 /\ j \in 1 .. n + 1
      BY <1>1, <3>1
    <3> QED
      BY <1>2, <2>1, <3>1, <3>2
  <2>2. ASSUME NEW j \in 1 .. (i - 1) - 1, Mark(u[j]) PROVE \E k \in 1 .. i - 1 : Mark(t[k])
    <3>1. j \in 1 .. n /\ j + 1 \in 1 .. i - 1
      BY <1>1
    <3> QED
      BY <1>1, <2>2, <3>1
  <2> QED
    BY <2>1, <2>2
<1>4. Marked(u) <=> Marked(t)
  <2>1. ASSUME NEW j \in 1 .. n + 1, Mark(t[j]) PROVE \E k \in 1 .. n : Mark(u[k])
    BY <1>2, <2>1
  <2>2. ASSUME NEW j \in 1 .. n, Mark(u[j]) PROVE \E k \in 1 .. n + 1 : Mark(t[k])
    BY <1>1, <2>2
  <2> QED
    BY <1>1, <2>1, <2>2 DEF Marked, n
<1>5. ASSUME NEW i \in 1 .. n, Mark(u[i])
      PROVE  pending = TRUE /\ \A j \in 1 .. n : Mark(u[j]) => j = i
  <2>1. i + 1 \in 1 .. Len(t) /\ Mark(t[i + 1])
    BY <1>1, <1>5
  <2>2. pending = TRUE /\ \A j \in 1 .. Len(t) : Mark(t[j]) => j = i + 1
    BY <2>1 DEF Answered
  <2>3. \A j \in 1 .. n : Mark(u[j]) => j + 1 = i + 1
    BY <1>1, <2>2
  <2>4. \A j \in 1 .. n : j + 1 = i + 1 => j = i
    BY <1>1
  <2> QED
    BY <2>2, <2>3, <2>4
<1>6. ASSUME NEW i \in 1 .. n
      PROVE  \/ Mark(u[i])
             \/ Fits(u[i], new) /\ \E j \in 1 .. i - 1 : Mark(u[j])
             \/ Fits(u[i], pf) /\ ~\E j \in 1 .. i - 1 : Mark(u[j])
  <2> DEFINE k == i + 1
  <2>1. k \in 1 .. n + 1 /\ k # 1 /\ k - 1 = i /\ k \in 1 .. Len(t) /\ u[i] = t[k]
    BY <1>1
  <2>2. \/ Mark(t[k])
        \/ Fits(t[k], new) /\ \E j \in 1 .. k - 1 : Mark(t[j])
        \/ Fits(t[k], pf) /\ ~\E j \in 1 .. k - 1 : Mark(t[j])
    BY <2>1 DEF Answered
  <2>3. (\E j \in 1 .. k - 1 : Mark(t[j])) <=> (\E j \in 1 .. (k - 1) - 1 : Mark(u[j]))
    BY <1>3, <2>1
  <2> HIDE DEF k
  <2> QED
    BY <2>1, <2>2, <2>3
<1> QED
  BY <1>1, <1>4, <1>5, <1>6 DEF Answered, n

\* The viewer has read the mark: what follows is in the new format.
LEMMA MarkRead ==
  ASSUME NEW t, NEW pf, NEW new, NEW pending, Answered(t, pf, new, pending), t # <<>>, Mark(t[1]),
         NEW u, u = Tail(t)
  PROVE  /\ pending = TRUE /\ ~Marked(u) /\ Marked(t)
         /\ \A x : \A b : Answered(u, new, x, b)
<1> DEFINE n == Len(u)
<1>1. /\ IsSequence(u) /\ Len(t) \in Nat /\ n = Len(t) - 1 /\ n \in Nat /\ Len(t) >= 1
      /\ \A i \in 1 .. n : u[i] = t[i + 1] /\ i + 1 \in 1 .. Len(t) /\ i + 1 # 1 /\ 1 \in 1 .. (i + 1) - 1
  <2>1. IsSequence(t)
    BY DEF Answered
  <2>2. /\ IsSequence(u) /\ Len(t) \in Nat /\ Len(t) >= 1 /\ n = Len(t) - 1
        /\ \A i \in 1 .. n : u[i] = t[i + 1]
    BY <2>1, TailOf
  <2> QED
    BY <2>2
<1>2. 1 \in 1 .. Len(t)
  BY <1>1
<1>3. pending = TRUE /\ \A j \in 1 .. Len(t) : Mark(t[j]) => j = 1
  BY <1>2 DEF Answered
<1>4. \A i \in 1 .. n : ~Mark(u[i]) /\ Fits(u[i], new)
  BY <1>1, <1>3 DEF Answered
<1>5. \A i \in 1 .. n : \A j \in 1 .. i - 1 : j \in 1 .. n
  BY <1>1
<1> QED
  BY <1>1, <1>2, <1>3, <1>4, <1>5 DEF Answered, Marked

\* Another format is selected while there is no mark.
LEMMA AnsweredSwitch ==
  ASSUME NEW t, NEW pf, NEW new, Answered(t, pf, new, FALSE), NEW x
  PROVE  Answered(t, pf, x, TRUE) /\ ~Marked(t)
<1>1. \A i \in 1 .. Len(t) : ~Mark(t[i])
  BY DEF Answered
<1>2. \A i \in 1 .. Len(t) : \A j \in 1 .. i - 1 : j \in 1 .. Len(t)
  BY SequenceOf DEF Answered, IsSequence
<1> QED
  BY <1>1, <1>2 DEF Answered, Marked

----------------------------------------------------------------------------
(* The viewer asks *)

LEMMA SizeFacts == \A s \in Sizes : s \in Nat /\ s # 0 /\ Area(s) \in SUBSET Int
BY UpdateAssumption DEF Area

LEMMA MessageTypes ==
  /\ [type |-> "Disable"] \in ServerMessage
  /\ \A f \in Formats : [type |-> "SetPixelFormat", pf |-> f] \in ServerMessage
  /\ \A s \in Sizes : [type |-> "Enable", size |-> s] \in ServerMessage
  /\ \A s \in Sizes, b \in BOOLEAN : [type |-> "Request", size |-> s, incremental |-> b] \in ServerMessage
BY DEF ServerMessage

\* What requestNewUpdate() makes of the connection's state.
LEMMA NewUpdateFacts ==
  ASSUME NEW c \in ConnType, NEW d, d = NewUpdate(c)
  PROVE  /\ d \in ConnType /\ d.pf = c.pf /\ d.continuousUpdates = c.continuousUpdates
         /\ d.reading = c.reading /\ d.firstUpdate = c.firstUpdate /\ d.supported = c.supported
         /\ d.size = c.size
         /\ c.formatChange = TRUE /\ c.pendingPFChange = FALSE =>
              d.pendingPFChange = TRUE /\ d.pendingPF = c.nextPF
         /\ ~(c.formatChange = TRUE /\ c.pendingPFChange = FALSE) =>
              d.pendingPFChange = c.pendingPFChange /\ d.pendingPF = c.pendingPF
<1> DEFINE w == WithFormat(c)
           b == w.pendingUpdate \/ Asks(c)
<1>1. /\ w \in ConnType /\ w.pf = c.pf /\ w.continuousUpdates = c.continuousUpdates
      /\ w.reading = c.reading /\ w.firstUpdate = c.firstUpdate /\ w.supported = c.supported
      /\ w.size = c.size
      /\ c.formatChange = TRUE /\ c.pendingPFChange = FALSE =>
           w.pendingPFChange = TRUE /\ w.pendingPF = c.nextPF
      /\ ~(c.formatChange = TRUE /\ c.pendingPFChange = FALSE) => w = c
  BY DEF WithFormat, ConnType
<1>2. b \in BOOLEAN /\ d = [w EXCEPT !.pendingUpdate = b, !.forceNonincremental = FALSE]
  BY DEF NewUpdate
<1> HIDE DEF w, b
<1> QED
  BY <1>1, <1>2 DEF ConnType

\* ... and writes while there are continuous updates.
LEMMA AsksOn ==
  ASSUME NEW c \in ConnType, c.continuousUpdates = TRUE, NEW p, NEW q, NEW t,
         Asked(q, p, c.pf, c.pendingPF, c.pendingPFChange, Marked(t)),
         Answered(t, c.pf, c.pendingPF, c.pendingPFChange),
         NEW d, d = NewUpdate(c), NEW r, r = q \o NewUpdateMessages(c)
  PROVE  /\ Asked(r, p, d.pf, d.pendingPF, d.pendingPFChange, Marked(t))
         /\ Answered(t, d.pf, d.pendingPF, d.pendingPFChange)
<1> DEFINE X == IF Asks(c) THEN UpdateRequest(c.size, ~c.forceNonincremental) ELSE <<>>
           switch == c.formatChange = TRUE /\ c.pendingPFChange = FALSE
<1>1. /\ c.formatChange \in BOOLEAN /\ c.pendingPFChange \in BOOLEAN /\ c.forceNonincremental \in BOOLEAN
      /\ c.size \in Sizes /\ c.nextPF \in Formats
  BY DEF ConnType
<1>2. /\ d.pf = c.pf /\ (switch => d.pendingPFChange = TRUE /\ d.pendingPF = c.nextPF)
      /\ ~switch => d.pendingPFChange = c.pendingPFChange /\ d.pendingPF = c.pendingPF
  BY NewUpdateFacts
<1>3. q \in Seq(ServerMessage) /\ X \in Seq(ServerMessage) /\ r = q \o (FormatRequest(c) \o X)
  <2> DEFINE m == [type |-> "Request", size |-> c.size, incremental |-> FALSE]
  <2>1. X = <<>> \/ X = <<m>>
    BY <1>1 DEF UpdateRequest, Asks
  <2> HIDE DEF X
  <2>2. m \in ServerMessage
    BY <1>1, MessageTypes
  <2> HIDE DEF m
  <2>3. X \in Seq(ServerMessage)
    <3>1. <<>> \in Seq(ServerMessage)
      OBVIOUS
    <3>2. <<m>> \in Seq(ServerMessage)
      BY <2>2
    <3>3. CASE X = <<>>
      BY <3>1, <3>3
    <3>4. CASE X = <<m>>
      BY <3>2, <3>4
    <3> QED
      BY <2>1, <3>3, <3>4
  <2> USE DEF X
  <2> QED
    BY <2>3 DEF Asked, NewUpdateMessages
\* A request, if any, is not incremental.
<1>4. ASSUME NEW z, NEW f, NEW x, NEW b, Asked(z, p, f, x, b, Marked(t))
      PROVE  Asked(z \o X, p, f, x, b, Marked(t))
  <2>1. IsSequence(z)
    BY <1>4, SequenceOf DEF Asked
  <2>2. CASE ~Asks(c)
    BY <1>4, <2>1, <2>2, Joined
  <2>3. CASE Asks(c)
    <3> DEFINE m == [type |-> "Request", size |-> c.size, incremental |-> FALSE]
    <3>1. X = <<m>> /\ m \in ServerMessage /\ m.type = "Request" /\ m.incremental = FALSE
      <4>1. c.forceNonincremental = TRUE
        BY <1>1, <2>3 DEF Asks
      <4> QED
        BY <1>1, <2>3, <4>1, MessageTypes DEF UpdateRequest
    <3> HIDE DEF m, X
    <3>2. z \o X = Append(z, m)
      BY <2>1, <3>1, Joined
    <3> DEFINE marked == Marked(t)
    <3>3. Asked(z, p, f, x, b, marked)
      BY <1>4
    <3> HIDE DEF marked
    <3>4. Asked(Append(z, m), p, f, x, b, marked)
      BY <3>1, <3>3, AskedMore
    <3> QED
      BY <3>2, <3>4 DEF marked
  <2> QED
    BY <2>2, <2>3
<1>5. CASE ~switch
  <2>1. FormatRequest(c) = <<>>
    BY <1>1, <1>5 DEF FormatRequest
  <2>2. <<>> \o X = X
    BY <1>3
  <2>3. r = q \o X
    BY <1>3, <2>1, <2>2
  <2> HIDE DEF X
  <2> QED
    BY <1>2, <1>4, <1>5, <2>3
<1>6. CASE switch
  <2> DEFINE a == [type |-> "Disable"]
             b == [type |-> "SetPixelFormat", pf |-> c.nextPF]
             e == [type |-> "Enable", size |-> c.size]
             r0 == Append(q, a)
             r1 == Append(r0, b)
             r2 == Append(r1, e)
  <2>1. /\ FormatRequest(c) = (<<a>> \o <<b>>) \o <<e>>
        /\ a \in ServerMessage /\ b \in ServerMessage /\ e \in ServerMessage /\ e.type = "Enable"
    BY <1>1, <1>6, MessageTypes DEF FormatRequest, Disable, SetPixelFormat, Enable
  <2>2. Asked(r1, p, c.pf, c.nextPF, TRUE, FALSE)
    <3>1. ~Marked(t) /\ Marked(t) = FALSE
      BY <1>6, AnsweredSwitch DEF Marked
    <3>2. Asked(q, p, c.pf, c.pendingPF, FALSE, FALSE)
      BY <1>6, <3>1
    <3> QED
      BY <1>1, <3>2, AskedSwitch
  <2>3. Answered(t, c.pf, c.nextPF, TRUE) /\ Marked(t) = FALSE
    BY <1>6, AnsweredSwitch DEF Marked
  <2> HIDE DEF a, b, e, X
  <2>4. r = r2 \o X
    <3>1. /\ <<a>> \in Seq(ServerMessage) /\ <<b>> \in Seq(ServerMessage) /\ <<e>> \in Seq(ServerMessage)
          /\ <<a>> \o <<b>> \in Seq(ServerMessage) /\ (<<a>> \o <<b>>) \o <<e>> \in Seq(ServerMessage)
      BY <2>1, ConcatProperties
    <3>2. r = (q \o ((<<a>> \o <<b>>) \o <<e>>)) \o X
      BY <1>3, <2>1, <3>1, ConcatAssociative
    <3>3. q \o ((<<a>> \o <<b>>) \o <<e>>) = (q \o (<<a>> \o <<b>>)) \o <<e>>
      BY <1>3, <3>1, ConcatAssociative
    <3>4. q \o (<<a>> \o <<b>>) = (q \o <<a>>) \o <<b>>
      BY <1>3, <3>1, ConcatAssociative
    <3>5. q \o <<a>> = r0 /\ r0 \in Seq(ServerMessage)
      BY <1>3, <2>1, AppendIsConcat
    <3> HIDE DEF r0
    <3>6. r0 \o <<b>> = r1 /\ r1 \in Seq(ServerMessage)
      BY <2>1, <3>5, AppendIsConcat
    <3> HIDE DEF r1
    <3>7. r1 \o <<e>> = r2
      BY <2>1, <3>6, AppendIsConcat
    <3> QED
      BY <3>2, <3>3, <3>4, <3>5, <3>6, <3>7
  <2> HIDE DEF r1
  <2>5. Asked(r2, p, c.pf, c.nextPF, TRUE, FALSE)
    BY <2>1, <2>2, AskedMore
  <2> HIDE DEF r2
  <2>6. Asked(r2 \o X, p, c.pf, c.nextPF, TRUE, Marked(t))
    BY <1>4, <2>3, <2>5
  <2> QED
    BY <1>2, <1>6, <2>3, <2>4, <2>6
<1> QED
  BY <1>5, <1>6

----------------------------------------------------------------------------
(* The server answers *)

LEMMA HandledFacts ==
  ASSUME peer \in PeerType, NEW m \in ServerMessage, NEW s, s = Handled(m)
  PROVE  /\ s \in PeerType
         /\ m.type = "SetPixelFormat" => /\ s.pf = m.pf /\ s.continuousUpdates = peer.continuousUpdates
                                         /\ s.requested = peer.requested
                                         /\ s.desktopSize = peer.desktopSize
         /\ m.type = "SetEncodings" => s = peer
         /\ m.type = "Request" => /\ s.pf = peer.pf /\ s.continuousUpdates = peer.continuousUpdates
                                  /\ m.incremental = FALSE => s.desktopSize = TRUE
         /\ m.type = "Enable" => /\ s.pf = peer.pf /\ s.continuousUpdates = TRUE /\ s.requested = {}
         /\ m.type = "Disable" => /\ s.pf = peer.pf /\ s.continuousUpdates = FALSE
                                  /\ s.requested = peer.requested /\ s.desktopSize = peer.desktopSize
<1>1. /\ peer.size \in Sizes /\ Area(peer.size) \in SUBSET Int /\ peer.requested \in SUBSET Int
      /\ peer.changed \in SUBSET Int /\ peer.desktopSize \in BOOLEAN
  BY SizeFacts DEF PeerType
<1>2. m.type \in {"SetPixelFormat", "SetEncodings", "Request", "Enable", "Disable"}
  BY DEF ServerMessage
<1>3. CASE m.type = "SetPixelFormat"
  <2>1. s = [peer EXCEPT !.pf = m.pf, !.cursor = TRUE, !.lossy = Area(peer.size)] /\ m.pf \in Formats
    BY <1>3 DEF Handled, ServerMessage
  <2> DEFINE all == Area(peer.size)
  <2>2. all \in SUBSET Int
    BY <1>1
  <2> HIDE DEF all
  <2> QED
    BY <1>3, <2>1, <2>2 DEF PeerType, all
<1>4. CASE m.type = "SetEncodings"
  BY <1>4 DEF Handled
<1>5. CASE m.type = "Request"
  <2> DEFINE area == Area(m.size) \cap Area(peer.size)
             a == IF m.incremental /\ peer.continuousUpdates THEN peer.requested ELSE peer.requested \cup area
             b == IF m.incremental THEN peer.changed ELSE peer.changed \cup area
             x == peer.desktopSize \/ ~m.incremental
  <2>1. s = [peer EXCEPT !.requested = a, !.changed = b, !.desktopSize = x] /\ m.incremental \in BOOLEAN
    BY <1>5 DEF Handled, ServerMessage
  <2>2. a \in SUBSET Int /\ b \in SUBSET Int /\ x \in BOOLEAN /\ (m.incremental = FALSE => x = TRUE)
    BY <1>1
  <2> HIDE DEF a, b, x
  <2> QED
    BY <1>5, <2>1, <2>2 DEF PeerType
<1>6. CASE m.type = "Enable"
  <2> DEFINE area == Area(m.size)
             none == {}
  <2>1. s = [peer EXCEPT !.continuousUpdates = TRUE, !.cuRegion = area, !.requested = none]
    BY <1>6 DEF Handled
  <2>2. area \in SUBSET Int /\ none \in SUBSET Int
    BY <1>6, SizeFacts DEF ServerMessage
  <2> HIDE DEF area, none
  <2>3. s \in PeerType /\ s.pf = peer.pf /\ s.continuousUpdates = TRUE /\ s.requested = none
    BY <2>1, <2>2 DEF PeerType
  <2> QED
    BY <1>6, <2>3 DEF none
<1>7. CASE m.type = "Disable"
  <2> DEFINE none == {}
  <2>1. s = [peer EXCEPT !.continuousUpdates = FALSE, !.cuRegion = none] /\ none \in SUBSET Int
    BY <1>7 DEF Handled
  <2> HIDE DEF none
  <2> QED
    BY <1>7, <2>1 DEF PeerType
<1> QED
  BY <1>2, <1>3, <1>4, <1>5, <1>6, <1>7

\* One write: the desktop's size, data, or both.  Data comes with continuous updates, or when a
\* request stands that is not answered with the desktop's size.
LEMMA WriteFacts ==
  ASSUME peer \in PeerType, IsSequence(toClient), WriteUpdate
  PROVE  /\ peer' \in PeerType /\ peer'.pf = peer.pf /\ peer'.requested = {}
         /\ peer'.continuousUpdates = peer.continuousUpdates
         /\ UNCHANGED <<conn, toServer>> /\ (peer.requested # {} \/ peer.continuousUpdates = TRUE)
         /\ \/ \E a : toClient' = Append(toClient, a) /\ \A f : Fits(a, f)
            \/ \E b : /\ toClient' = Append(toClient, b) /\ Fits(b, peer.pf)
                      /\ peer.continuousUpdates = TRUE \/ ~Quiet(peer)
            \/ \E a, b : /\ toClient' = Append(Append(toClient, a), b) /\ peer.continuousUpdates = TRUE
                         /\ (\A f : Fits(a, f)) /\ Fits(b, peer.pf)
<1> DEFINE p == AfterSize(peer)
           a == SizeUpdate(peer.size)
           before == IF peer.desktopSize THEN <<a>> ELSE <<>>
<1>1. /\ peer.desktopSize \in BOOLEAN /\ peer.continuousUpdates \in BOOLEAN /\ peer.size \in Sizes
      /\ peer.requested \in SUBSET Int
  BY DEF PeerType
<1>2. /\ p \in PeerType /\ p.pf = peer.pf /\ p.continuousUpdates = peer.continuousUpdates
      /\ peer.desktopSize = TRUE => p.requested = {}
      /\ peer.desktopSize = FALSE => p = peer
  <2> DEFINE none == {}
  <2>1. none \in SUBSET Int /\ p = IF peer.desktopSize THEN [peer EXCEPT !.desktopSize = FALSE, !.requested = none]
                                   ELSE peer
    BY DEF AfterSize
  <2> HIDE DEF none, p
  <2>2. /\ p \in PeerType /\ p.pf = peer.pf /\ p.continuousUpdates = peer.continuousUpdates
        /\ peer.desktopSize = TRUE => p.requested = none
        /\ peer.desktopSize = FALSE => p = peer
    BY <1>1, <2>1 DEF PeerType
  <2> QED
    BY <2>2 DEF none
<1>3. \A f : Fits(a, f)
  BY <1>1, SizeFacts DEF Fits, SizeUpdate
<1>4. ASSUME NEW cells PROVE Fits(DataUpdate(p.pf, cells), peer.pf)
  BY <1>2 DEF Fits, DataUpdate
<1>5. peer.requested # {} \/ peer.continuousUpdates = TRUE
  BY <1>1 DEF WriteUpdate
<1>6. \/ HasData(p) /\ toClient' = toClient \o Append(before, DataUpdate(p.pf, p.changed \cap Region(p)))
         /\ peer' = [p EXCEPT !.changed = @ \ Region(p), !.requested = {}, !.cursor = FALSE]
      \/ HasRefresh(p) /\ toClient' = toClient \o Append(before, DataUpdate(p.pf, p.lossy \cap Region(p)))
         /\ peer' = [p EXCEPT !.lossy = @ \ Region(p), !.requested = {}]
      \/ ~HasData(p) /\ peer.desktopSize /\ toClient' = toClient \o before /\ peer' = p
  BY DEF WriteUpdate
<1>7. UNCHANGED <<conn, toServer>>
  BY DEF WriteUpdate
<1> HIDE DEF a
<1>8. ASSUME NEW b, Fits(b, peer.pf), Region(p) # {}, toClient' = toClient \o Append(before, b)
      PROVE  \/ /\ toClient' = Append(toClient, b) /\ Fits(b, peer.pf)
                /\ peer.continuousUpdates = TRUE \/ ~Quiet(peer)
             \/ /\ toClient' = Append(Append(toClient, a), b) /\ peer.continuousUpdates = TRUE
                /\ Fits(b, peer.pf)
  <2>1. peer.continuousUpdates = TRUE \/ p.requested # {}
    BY <1>1, <1>2, <1>8 DEF Region
  <2>2. CASE peer.desktopSize = TRUE
    <3>1. toClient' = Append(Append(toClient, a), b)
      BY <1>8, <2>2, Joined
    <3> QED
      BY <1>2, <1>8, <2>1, <2>2, <3>1
  <2>3. CASE peer.desktopSize = FALSE
    <3>1. Append(<<>>, b) = <<b>>
      OBVIOUS
    <3>2. toClient' = Append(toClient, b)
      BY <1>8, <2>3, <3>1, Joined
    <3>3. peer.continuousUpdates = TRUE \/ ~Quiet(peer)
      BY <1>2, <2>1, <2>3 DEF Quiet
    <3> QED
      BY <1>8, <3>2, <3>3
  <2> QED
    BY <1>1, <2>2, <2>3
<1>9. HasData(p) \/ HasRefresh(p) => Region(p) # {}
  BY DEF HasData, HasRefresh
<1> HIDE DEF p, before
<1>10. CASE HasData(p) /\ toClient' = toClient \o Append(before, DataUpdate(p.pf, p.changed \cap Region(p)))
            /\ peer' = [p EXCEPT !.changed = @ \ Region(p), !.requested = {}, !.cursor = FALSE]
  <2> DEFINE b == DataUpdate(p.pf, p.changed \cap Region(p))
             none == {}
             rest == p.changed \ Region(p)
  <2>1. Fits(b, peer.pf) /\ Region(p) # {} /\ toClient' = toClient \o Append(before, b)
    BY <1>4, <1>9, <1>10
  <2>2. none \in SUBSET Int /\ rest \in SUBSET Int
    BY <1>2 DEF PeerType
  <2>3. peer' = [p EXCEPT !.changed = rest, !.requested = none, !.cursor = FALSE]
    BY <1>10
  <2> HIDE DEF b, none, rest
  <2>4. /\ peer' \in PeerType /\ peer'.pf = p.pf /\ peer'.continuousUpdates = p.continuousUpdates
        /\ peer'.requested = none
    BY <1>2, <2>2, <2>3 DEF PeerType
  <2> QED
    BY <1>2, <1>3, <1>5, <1>7, <1>8, <2>1, <2>4 DEF none
<1>11. CASE HasRefresh(p) /\ toClient' = toClient \o Append(before, DataUpdate(p.pf, p.lossy \cap Region(p)))
            /\ peer' = [p EXCEPT !.lossy = @ \ Region(p), !.requested = {}]
  <2> DEFINE b == DataUpdate(p.pf, p.lossy \cap Region(p))
             none == {}
             rest == p.lossy \ Region(p)
  <2>1. Fits(b, peer.pf) /\ Region(p) # {} /\ toClient' = toClient \o Append(before, b)
    BY <1>4, <1>9, <1>11
  <2>2. none \in SUBSET Int /\ rest \in SUBSET Int
    BY <1>2 DEF PeerType
  <2>3. peer' = [p EXCEPT !.lossy = rest, !.requested = none]
    BY <1>11
  <2> HIDE DEF b, none, rest
  <2>4. /\ peer' \in PeerType /\ peer'.pf = p.pf /\ peer'.continuousUpdates = p.continuousUpdates
        /\ peer'.requested = none
    BY <1>2, <2>2, <2>3 DEF PeerType
  <2> QED
    BY <1>2, <1>3, <1>5, <1>7, <1>8, <2>1, <2>4 DEF none
<1>12. CASE peer.desktopSize /\ toClient' = toClient \o before /\ peer' = p
  <2>1. peer.desktopSize = TRUE /\ before = <<a>>
    BY <1>1, <1>12 DEF before
  <2>2. toClient' = Append(toClient, a)
    BY <1>12, <2>1, Joined
  <2> QED
    BY <1>2, <1>3, <1>5, <1>7, <1>12, <2>1, <2>2
<1> QED
  BY <1>6, <1>10, <1>11, <1>12

\* A change of the screen or of its size leaves the writer as quiet as it was.
LEMMA DesktopFacts ==
  ASSUME peer \in PeerType, Desktop
  PROVE  /\ peer' \in PeerType /\ peer'.pf = peer.pf /\ peer'.continuousUpdates = peer.continuousUpdates
         /\ peer'.requested = peer.requested /\ (Quiet(peer) => Quiet(peer'))
         /\ UNCHANGED <<conn, toServer, toClient>>
<1>1. ASSUME NEW c \in Cells, ScreenChanges(c)
      PROVE  /\ peer' \in PeerType /\ peer'.pf = peer.pf /\ peer'.continuousUpdates = peer.continuousUpdates
             /\ peer'.requested = peer.requested /\ peer'.desktopSize = peer.desktopSize
             /\ UNCHANGED <<conn, toServer, toClient>>
  <2> DEFINE more == peer.changed \cup {c}
  <2>1. peer' = [peer EXCEPT !.changed = more] /\ UNCHANGED <<conn, toServer, toClient>>
    BY <1>1 DEF ScreenChanges
  <2>2. more \in SUBSET Int
    BY DEF Cells, PeerType
  <2> HIDE DEF more
  <2> QED
    BY <2>1, <2>2 DEF PeerType
<1>2. ASSUME NEW size \in Sizes, DesktopResized(size)
      PROVE  /\ peer' \in PeerType /\ peer'.pf = peer.pf /\ peer'.continuousUpdates = peer.continuousUpdates
             /\ peer'.requested = peer.requested /\ peer'.desktopSize = TRUE
             /\ UNCHANGED <<conn, toServer, toClient>>
  <2> DEFINE all == Area(size)
             rest == peer.lossy \cap Area(size)
  <2>1. /\ peer' = [peer EXCEPT !.size = size, !.desktopSize = TRUE, !.changed = all, !.lossy = rest]
        /\ UNCHANGED <<conn, toServer, toClient>>
    BY <1>2 DEF DesktopResized
  <2>2. all \in SUBSET Int /\ rest \in SUBSET Int
    BY SizeFacts
  <2> HIDE DEF all, rest
  <2> QED
    BY <2>1, <2>2 DEF PeerType
<1> QED
  BY <1>1, <1>2 DEF Desktop, Quiet

----------------------------------------------------------------------------
(* Steps before continuous updates *)

LEMMA SideTypes ==
  ASSUME Types
  PROVE  /\ conn \in ConnType /\ peer \in PeerType /\ toServer \in Seq(ServerMessage)
         /\ IsSequence(toServer) /\ IsSequence(toClient) /\ Len(toServer) \in Nat /\ Len(toClient) \in Nat
         /\ conn.continuousUpdates \in BOOLEAN /\ conn.reading \in BOOLEAN /\ conn.pendingPFChange \in BOOLEAN
         /\ conn.formatChange \in BOOLEAN /\ conn.supported \in BOOLEAN
<1>1. conn \in ConnType /\ peer \in PeerType /\ toServer \in Seq(ServerMessage) /\ IsSequence(toClient)
  BY DEF Types
<1>2. IsSequence(toServer) /\ Len(toServer) \in Nat
  BY <1>1, SequenceOf
<1>3. Len(toClient) \in Nat
  BY <1>1, SequenceOf DEF IsSequence
<1> QED
  BY <1>1, <1>2, <1>3 DEF ConnType

LEMMA BeforeReads ==
  ASSUME Types, Before, ReadMessage
  PROVE  Types' /\ Before' /\ UNCHANGED conn
<1>0. /\ conn \in ConnType /\ peer \in PeerType /\ toServer \in Seq(ServerMessage) /\ IsSequence(toServer)
      /\ IsSequence(toClient) /\ Len(toServer) \in Nat /\ Len(toClient) \in Nat /\ conn.reading \in BOOLEAN
  BY SideTypes
<1> DEFINE m == toServer[1]
<1>1. /\ toServer # <<>> /\ toServer' = Tail(toServer) /\ UNCHANGED conn /\ Head(toServer) = m
      /\ Len(toServer') = Len(toServer) - 1 /\ IsSequence(toServer') /\ Len(toServer) >= 1
      /\ \A i \in 1 .. Len(toServer') : toServer'[i] = toServer[i + 1]
  BY <1>0, TailOf DEF ReadMessage
<1>2. peer' = Handled(m) /\ m \in ServerMessage /\ toServer' \in Seq(ServerMessage)
  BY <1>0, <1>1 DEF ReadMessage
<1>3. /\ m.type = "SetEncodings" => toClient' = Append(toClient, EndOfContinuousUpdates)
      /\ m.type \notin {"SetEncodings", "Disable"} => toClient' = toClient
  BY <1>1 DEF ReadMessage
<1>4. /\ Len(toServer) = 3 => Len(toServer') = 2 /\ toServer'[1] = toServer[2] /\ toServer'[2] = toServer[3]
      /\ Len(toServer) = 2 => Len(toServer') = 1 /\ toServer'[1] = toServer[2]
      /\ Len(toServer) = 1 => Len(toServer') = 0
  BY <1>1
<1>5. m.type = "SetEncodings" /\ Len(toClient) = 0 =>
        IsSequence(toClient') /\ Len(toClient') = 1 /\ Mark(toClient'[1])
  <2> SUFFICES ASSUME m.type = "SetEncodings", Len(toClient) = 0
               PROVE  IsSequence(toClient') /\ Len(toClient') = 1 /\ Mark(toClient'[1])
    OBVIOUS
  <2>1. /\ IsSequence(toClient') /\ Len(toClient') = Len(toClient) + 1
        /\ toClient'[Len(toClient) + 1] = EndOfContinuousUpdates
    <3>1. IsSequence(toClient) /\ toClient' = Append(toClient, EndOfContinuousUpdates)
      BY <1>0, <1>3
    <3> QED
      BY <3>1, AppendedTo
  <2> QED
    BY <2>1 DEF Mark, EndOfContinuousUpdates
<1> HIDE DEF m
<1>6. /\ peer' \in PeerType
      /\ m.type = "SetPixelFormat" => /\ peer'.pf = m.pf /\ peer'.continuousUpdates = peer.continuousUpdates
                                      /\ peer'.requested = peer.requested
      /\ m.type = "SetEncodings" => peer' = peer
      /\ m.type = "Request" => peer'.pf = peer.pf /\ peer'.continuousUpdates = peer.continuousUpdates
  BY <1>0, <1>2, HandledFacts
<1>7. CASE conn.reading = FALSE
  <2>1. Opening /\ m.type \in {"SetPixelFormat", "SetEncodings", "Request"}
    BY <1>1, <1>7 DEF Before, Opening, Selects, m
  <2>2. IsSequence(toClient')
    BY <1>0, <1>1, <1>3, <1>5, <2>1 DEF Opening, m, Selects
  <2>3. Opening'
    <3>1. CASE m.type = "SetPixelFormat"
      BY <1>1, <1>3, <1>4, <1>6, <2>1, <3>1 DEF Opening, Selects, m
    <3>2. CASE m.type = "SetEncodings"
      BY <1>1, <1>4, <1>5, <1>6, <2>1, <3>2 DEF Opening, Selects, m
    <3>3. CASE m.type = "Request"
      BY <1>1, <1>3, <1>4, <1>6, <2>1, <3>3 DEF Opening, Selects, m
    <3> QED
      BY <2>1, <3>1, <3>2, <3>3
  <2> QED
    BY <1>0, <1>1, <1>2, <1>6, <1>7, <2>1, <2>2, <2>3 DEF Types, Before
<1>8. CASE conn.reading = TRUE
  <2>1. Reading /\ m.type \in {"SetPixelFormat", "Request"}
    BY <1>1, <1>8 DEF Before, Reading, Selects, m
  <2>2. toClient' = toClient /\ Then' = Then
    BY <1>1, <1>3, <2>1 DEF Then
  <2>3. Reading'
    BY <1>1, <1>4, <1>6, <2>1, <2>2 DEF Reading, Selects, m
  <2> QED
    BY <1>0, <1>1, <1>2, <1>6, <1>8, <2>1, <2>2, <2>3 DEF Types, Before
<1> QED
  BY <1>0, <1>7, <1>8

LEMMA BeforeWrites ==
  ASSUME Types, Before, WriteUpdate
  PROVE  Types' /\ Before' /\ UNCHANGED conn
<1>0. /\ conn \in ConnType /\ peer \in PeerType /\ toServer \in Seq(ServerMessage)
      /\ IsSequence(toClient) /\ Len(toClient) \in Nat /\ conn.reading \in BOOLEAN
  BY SideTypes
<1>1. peer.continuousUpdates = FALSE /\ conn.firstUpdate = TRUE
  BY DEF Before
<1>2. /\ peer' \in PeerType /\ peer'.pf = peer.pf /\ peer'.requested = {} /\ peer'.continuousUpdates = FALSE
      /\ UNCHANGED <<conn, toServer>> /\ peer.requested # {}
      /\ \E m : toClient' = Append(toClient, m) /\ Fits(m, peer.pf)
  <2>1. /\ peer' \in PeerType /\ peer'.pf = peer.pf /\ peer'.requested = {}
        /\ peer'.continuousUpdates = peer.continuousUpdates
        /\ UNCHANGED <<conn, toServer>> /\ (peer.requested # {} \/ peer.continuousUpdates = TRUE)
        /\ \/ \E a : toClient' = Append(toClient, a) /\ \A f : Fits(a, f)
           \/ \E b : toClient' = Append(toClient, b) /\ Fits(b, peer.pf)
           \/ peer.continuousUpdates = TRUE
    BY <1>0, WriteFacts
  <2>2. \E m : toClient' = Append(toClient, m) /\ Fits(m, peer.pf)
    BY <1>1, <2>1
  <2> QED
    BY <1>1, <2>1, <2>2
<1>3. PICK m : toClient' = Append(toClient, m) /\ Fits(m, peer.pf)
  BY <1>2
<1>4. /\ IsSequence(toClient') /\ Len(toClient') = Len(toClient) + 1
      /\ (\A i \in 1 .. Len(toClient) : toClient'[i] = toClient[i]) /\ toClient'[Len(toClient) + 1] = m
  <2>1. IsSequence(toClient) /\ toClient' = Append(toClient, m)
    BY <1>0, <1>3
  <2> QED
    BY ONLY <2>1, AppendedTo
<1>5. /\ Len(toClient) = 0 => Len(toClient') = 1 /\ toClient'[1] = m
      /\ Len(toClient) = 1 => Len(toClient') = 2 /\ toClient'[1] = toClient[1] /\ toClient'[2] = m
  <2> DEFINE n == Len(toClient)
  <2> HIDE DEF n
  <2>1. (n = 0 => n + 1 = 1) /\ (n = 1 => n + 1 = 2 /\ 1 \in 1 .. n)
    OBVIOUS
  <2>2. /\ Len(toClient') = n + 1 /\ (\A i \in 1 .. n : toClient'[i] = toClient[i]) /\ toClient'[n + 1] = m
    BY <1>4 DEF n
  <2>3. /\ n = 0 => Len(toClient') = 1 /\ toClient'[1] = m
        /\ n = 1 => Len(toClient') = 2 /\ toClient'[1] = toClient[1] /\ toClient'[2] = m
    BY ONLY <2>1, <2>2
  <2> QED
    BY <2>3 DEF n
<1>6. CASE conn.reading = FALSE
  <2>1. /\ conn.pendingPFChange = FALSE /\ peer.pf = conn.pf /\ Len(toServer) = 0
        /\ \/ Len(toClient) = 0 /\ conn.supported = TRUE
           \/ Len(toClient) = 1 /\ Mark(toClient[1])
    BY <1>2, <1>6 DEF Before, Opening
  <2>2. Opening'
    BY <1>2, <1>3, <1>5, <2>1 DEF Opening
  <2> QED
    BY <1>0, <1>1, <1>2, <1>4, <1>6, <2>2 DEF Types, Before
<1>7. CASE conn.reading = TRUE
  <2>1. /\ conn.supported = TRUE /\ Fits(toClient[1], conn.pf) /\ Len(toClient) = 1 /\ Len(toServer) = 0
        /\ peer.pf = Then /\ Then' = Then
    BY <1>2, <1>7 DEF Before, Reading, Then
  <2>2. Reading'
    BY <1>2, <1>3, <1>5, <2>1 DEF Reading
  <2> QED
    BY <1>0, <1>1, <1>2, <1>4, <1>7, <2>2 DEF Types, Before
<1> QED
  BY <1>0, <1>6, <1>7

LEMMA BeforeStarts ==
  ASSUME Types, Before, conn.continuousUpdates = FALSE, UpdateStart
  PROVE  Types' /\ Before' /\ conn'.continuousUpdates = FALSE
<1>0. /\ conn \in ConnType /\ peer \in PeerType /\ toServer \in Seq(ServerMessage)
      /\ IsSequence(toServer) /\ IsSequence(toClient) /\ Len(toClient) \in Nat /\ conn.reading \in BOOLEAN
  BY SideTypes
<1> DEFINE c == [conn EXCEPT !.pendingUpdate = FALSE, !.reading = TRUE]
<1>1. /\ toClient # <<>> /\ Head(toClient).type = "Update" /\ conn.reading = FALSE
      /\ conn' = NewUpdate(c) /\ toServer' = toServer \o NewUpdateMessages(c) /\ UNCHANGED <<peer, toClient>>
  BY <1>0 DEF UpdateStart, Arrived
<1>2. /\ c \in ConnType /\ c.pf = conn.pf /\ c.continuousUpdates = FALSE /\ c.reading = TRUE
      /\ c.firstUpdate = conn.firstUpdate /\ c.supported = conn.supported /\ c.size \in Sizes
      /\ c.pendingPFChange = conn.pendingPFChange /\ c.nextPF \in Formats /\ c.formatChange \in BOOLEAN
      /\ c.pendingPFChange \in BOOLEAN /\ c.forceNonincremental \in BOOLEAN
  BY <1>0 DEF ConnType
<1> HIDE DEF c
<1>3. /\ conn' \in ConnType /\ conn'.pf = c.pf /\ conn'.continuousUpdates = FALSE
      /\ conn'.reading = TRUE /\ conn'.firstUpdate = c.firstUpdate /\ conn'.supported = c.supported
      /\ c.formatChange = TRUE /\ c.pendingPFChange = FALSE =>
           conn'.pendingPFChange = TRUE /\ conn'.pendingPF = c.nextPF
      /\ ~(c.formatChange = TRUE /\ c.pendingPFChange = FALSE) =>
           conn'.pendingPFChange = c.pendingPFChange /\ conn'.pendingPF = c.pendingPF
  BY <1>1, <1>2, NewUpdateFacts
<1>4. Len(toClient) >= 1 /\ toClient[1].type = "Update" /\ ~Mark(toClient[1])
  BY <1>0, <1>1, TailOf DEF Mark
<1>5. /\ conn.pendingPFChange = FALSE /\ peer.pf = conn.pf /\ Len(toServer) = 0 /\ peer.requested = {}
      /\ Len(toClient) = 1 /\ Fits(toClient[1], conn.pf) /\ conn.supported = TRUE
  BY <1>0, <1>1, <1>4 DEF Before, Opening
<1>6. toServer = <<>>
  BY <1>0, <1>5, EmptySeq
<1> DEFINE m == [type |-> "Request", size |-> c.size, incremental |-> ~c.forceNonincremental]
           b == [type |-> "SetPixelFormat", pf |-> c.nextPF]
<1>7. m \in ServerMessage /\ m.type = "Request" /\ b \in ServerMessage /\ Selects(b, c.nextPF)
  <2>1. (~c.forceNonincremental) \in BOOLEAN
    BY <1>2
  <2> QED
    BY <1>2, <2>1 DEF ServerMessage, Selects
<1>8. UpdateRequest(c.size, ~c.forceNonincremental) = <<m>> /\ SetPixelFormat(c.nextPF) = <<b>>
  BY DEF UpdateRequest, SetPixelFormat
<1> HIDE DEF m, b
<1>9. NewUpdateMessages(c) = FormatRequest(c) \o <<m>>
  BY <1>2, <1>8 DEF NewUpdateMessages, Asks
<1>10. CASE c.formatChange = TRUE
  <2>1. toServer' = <<>> \o (<<b>> \o <<m>>)
    BY <1>1, <1>2, <1>5, <1>6, <1>8, <1>9, <1>10 DEF FormatRequest
  <2>2. <<b>> \o <<m>> = Append(<<b>>, m)
    BY <1>7, AppendIsConcat
  <2>3. <<>> \o Append(<<b>>, m) = Append(<<b>>, m)
    BY <1>7
  <2>4. toServer' = Append(<<b>>, m)
    BY <2>1, <2>2, <2>3
  <2>5. toServer' \in Seq(ServerMessage) /\ Len(toServer') = 2 /\ toServer'[1] = b /\ toServer'[2] = m
    BY <1>7, <2>4
  <2>6. Then' = c.nextPF
    BY <1>2, <1>3, <1>5, <1>10 DEF Then
  <2>7. Reading'
    BY <1>1, <1>2, <1>3, <1>5, <1>7, <2>5, <2>6 DEF Reading
  <2> QED
    BY <1>0, <1>1, <1>2, <1>3, <2>5, <2>7 DEF Types, Before
<1>11. CASE c.formatChange = FALSE
  <2>1. toServer' = <<>> \o (<<>> \o <<m>>)
    BY <1>1, <1>6, <1>9, <1>11 DEF FormatRequest
  <2>2. <<>> \o <<m>> = <<m>>
    BY <1>7
  <2>3. toServer' = <<m>>
    BY <2>1, <2>2
  <2>4. toServer' \in Seq(ServerMessage) /\ Len(toServer') = 1 /\ toServer'[1] = m
    BY <1>7, <2>3
  <2>5. Then' = conn.pf
    BY <1>2, <1>3, <1>5, <1>11 DEF Then
  <2>6. Reading'
    BY <1>1, <1>2, <1>3, <1>5, <1>7, <2>4, <2>5 DEF Reading
  <2> QED
    BY <1>0, <1>1, <1>2, <1>3, <2>4, <2>6 DEF Types, Before
<1> QED
  BY <1>2, <1>10, <1>11

\* The first update has been read: continuous updates are asked for behind the next request.
LEMMA AskedFirst ==
  ASSUME NEW q \in Seq(ServerMessage), NEW p, NEW pf, NEW new, p.continuousUpdates = FALSE,
         NEW m \in ServerMessage, m.type = "Enable", NEW r, r = Append(q, m),
         \A i \in 1 .. Len(q) : \/ q[i].type = "Request"
                                \/ i = 1 /\ Selects(q[i], pf) /\ p.requested = {},
         (Len(q) >= 1 /\ q[1].type = "SetPixelFormat") \/ p.pf = pf
  PROVE  Asked(r, p, pf, new, FALSE, FALSE)
<1> DEFINE n == Len(q)
<1>1. /\ r \in Seq(ServerMessage) /\ n \in Nat /\ Len(r) = n + 1
      /\ (\A i \in 1 .. n : r[i] = q[i]) /\ r[n + 1] = m
  OBVIOUS
<1>2. \A i \in 1 .. n + 1 : i \in 1 .. n \/ i = n + 1
  BY <1>1
<1>3. \A i \in 1 .. n + 1 : r[i].type \notin {"SetEncodings", "Disable"}
  BY <1>1, <1>2 DEF Selects
<1>4. ASSUME NEW i \in 1 .. n + 1, r[i].type = "SetPixelFormat"
      PROVE  i = 1 /\ p.continuousUpdates = FALSE /\ Quiet(p) /\ r[i].pf = pf
  BY <1>1, <1>2, <1>4 DEF Selects, Quiet
<1>5. QuietAt(r, Len(r) + 1, Quiet(p))
  <2>1. (Len(r) + 1) - 1 = n + 1 /\ n + 1 \in 1 .. n + 1 /\ \A i : i \notin (n + 1) + 1 .. n + 1
    BY <1>1
  <2> QED
    BY <1>1, <2>1 DEF QuietAt
<1>6. (Len(r) >= 1 /\ r[1].type = "SetPixelFormat") \/ p.pf = pf
  <2>1. n >= 1 => 1 \in 1 .. n /\ Len(r) >= 1
    BY <1>1
  <2> QED
    BY <1>1, <2>1
<1> QED
  BY <1>1, <1>3, <1>4, <1>5, <1>6 DEF Asked

\* framebufferUpdateEnd(), whatever its update holds: it writes m up to two times.
WritesAtEnd(m) ==
  /\ m \in ServerMessage /\ m.type = "Enable"
  /\ conn.continuousUpdates = FALSE /\ conn.firstUpdate = TRUE /\ conn.supported = TRUE =>
       toServer' = Append(toServer, m)
  /\ toServer' \in {toServer, Append(toServer, m), Append(Append(toServer, m), m)}
LEMMA EndFacts ==
  ASSUME Types, UpdateEnd, Len(toClient) >= 1, toClient[1].size \in Sizes \cup {0}
  PROVE  /\ conn' \in ConnType /\ conn'.reading = FALSE /\ conn'.pendingPF = conn.pendingPF
         /\ conn.continuousUpdates = TRUE =>
              /\ conn'.continuousUpdates = TRUE /\ conn'.pf = conn.pf
              /\ conn'.pendingPFChange = conn.pendingPFChange
         /\ conn.continuousUpdates = FALSE =>
              /\ conn'.pendingPFChange = FALSE /\ conn'.pf = Then
              /\ conn.firstUpdate = TRUE /\ conn.supported = TRUE => conn'.continuousUpdates = TRUE
         /\ UNCHANGED peer /\ toClient' = Tail(toClient) /\ conn.reading = TRUE
         /\ \E m : WritesAtEnd(m)
<1>0. /\ conn \in ConnType /\ toServer \in Seq(ServerMessage) /\ IsSequence(toServer) /\ IsSequence(toClient)
      /\ conn.reading \in BOOLEAN /\ conn.firstUpdate \in BOOLEAN /\ conn.supported \in BOOLEAN
      /\ conn.continuousUpdates \in BOOLEAN /\ conn.pendingPFChange \in BOOLEAN /\ conn.size \in Sizes
  BY SideTypes DEF ConnType
<1> DEFINE update == Head(toClient)
           size == IF update.size = 0 THEN conn.size ELSE update.size
           begin == conn.firstUpdate /\ conn.supported
           d == AtUpdateEnd(conn)
           on == d.continuousUpdates \/ begin
           m == [type |-> "Enable", size |-> size]
           A == IF update.size # 0 THEN ResizeMessages(size) ELSE <<>>
           B == IF begin THEN Enable(size) ELSE <<>>
<1>1. update = toClient[1]
  <2>1. toClient # <<>>
    OBVIOUS
  <2> QED
    BY <1>0, <2>1, TailOf
<1>2. size \in Sizes /\ begin \in BOOLEAN
  BY <1>0, <1>1
<1>3. /\ conn.reading /\ toClient' = Tail(toClient) /\ UNCHANGED peer
      /\ conn' = [d EXCEPT !.reading = FALSE, !.firstUpdate = FALSE, !.size = size, !.continuousUpdates = on]
      /\ toServer' = toServer \o A \o B
  BY DEF UpdateEnd
<1>4. /\ d \in ConnType /\ d.continuousUpdates = conn.continuousUpdates /\ d.pendingPF = conn.pendingPF
      /\ conn.continuousUpdates = TRUE => d.pf = conn.pf /\ d.pendingPFChange = conn.pendingPFChange
      /\ conn.continuousUpdates = FALSE => d.pendingPFChange = FALSE /\ d.pf = Then
  BY <1>0 DEF AtUpdateEnd, SwitchFormat, Then, ConnType
<1>5. /\ on \in BOOLEAN /\ (conn.continuousUpdates = TRUE => on = TRUE)
      /\ (conn.firstUpdate = TRUE /\ conn.supported = TRUE => on = TRUE)
  BY <1>0, <1>4
<1>6. m \in ServerMessage /\ m.type = "Enable"
  <2> HIDE DEF size
  <2> QED
    BY <1>2, MessageTypes
<1>7. /\ A = <<>> \/ A = <<m>>
      /\ B = <<>> \/ B = <<m>>
      /\ conn.continuousUpdates = FALSE => A = <<>>
      /\ conn.firstUpdate = TRUE /\ conn.supported = TRUE => B = <<m>>
  BY DEF ResizeMessages, Enable
<1> HIDE DEF d, on, size, m, A, B
<1>8. /\ conn' \in ConnType /\ conn'.reading = FALSE /\ conn'.pendingPF = d.pendingPF /\ conn'.pf = d.pf
      /\ conn'.pendingPFChange = d.pendingPFChange /\ conn'.continuousUpdates = on
  BY <1>2, <1>3, <1>4, <1>5 DEF ConnType
<1>9. /\ toServer \o <<>> = toServer /\ toServer \o <<m>> = Append(toServer, m)
      /\ Append(toServer, m) \o <<>> = Append(toServer, m)
      /\ Append(toServer, m) \o <<m>> = Append(Append(toServer, m), m)
  <2>1. IsSequence(Append(toServer, m))
    BY <1>0, AppendedTo
  <2>2. toServer \o <<>> = toServer /\ toServer \o <<m>> = Append(toServer, m)
    BY <1>0, Joined
  <2> DEFINE z == Append(toServer, m)
  <2>3. IsSequence(z)
    BY <2>1
  <2> HIDE DEF z
  <2>4. z \o <<>> = z /\ z \o <<m>> = Append(z, m)
    BY <2>3, Joined
  <2> QED
    BY <2>2, <2>4 DEF z
<1>10. /\ conn.continuousUpdates = FALSE /\ conn.firstUpdate = TRUE /\ conn.supported = TRUE =>
            toServer' = Append(toServer, m)
       /\ toServer' \in {toServer, Append(toServer, m), Append(Append(toServer, m), m)}
  BY <1>3, <1>7, <1>9
<1>11. WritesAtEnd(m)
  BY <1>6, <1>10 DEF WritesAtEnd
<1> QED
  BY <1>0, <1>3, <1>4, <1>5, <1>8, <1>11

LEMMA BeforeEnds ==
  ASSUME Types, Before, conn.continuousUpdates = FALSE, UpdateEnd
  PROVE  Types' /\ conn'.continuousUpdates = TRUE /\ Continuous'
<1>0. /\ conn \in ConnType /\ peer \in PeerType /\ toServer \in Seq(ServerMessage) /\ IsSequence(toClient)
      /\ conn.reading \in BOOLEAN /\ Len(toServer) \in Nat
  BY SideTypes
<1>1. Reading /\ conn.firstUpdate = TRUE /\ peer.continuousUpdates = FALSE
  BY <1>0 DEF UpdateEnd, Before
<1>2. Len(toClient) >= 1 /\ toClient[1].size \in Sizes \cup {0} /\ conn.supported = TRUE
  BY <1>1 DEF Reading, Fits
<1>3. /\ conn' \in ConnType /\ conn'.reading = FALSE /\ conn'.pendingPFChange = FALSE /\ conn'.pf = Then
      /\ conn'.continuousUpdates = TRUE /\ UNCHANGED peer /\ toClient' = Tail(toClient)
      /\ \E m \in ServerMessage : m.type = "Enable" /\ toServer' = Append(toServer, m)
  <2>1. /\ conn' \in ConnType /\ conn'.reading = FALSE /\ conn'.pendingPFChange = FALSE /\ conn'.pf = Then
        /\ conn'.continuousUpdates = TRUE /\ UNCHANGED peer /\ toClient' = Tail(toClient)
    BY <1>1, <1>2, EndFacts
  <2>2. PICK m : WritesAtEnd(m)
    BY <1>2, EndFacts
  <2>3. m \in ServerMessage /\ m.type = "Enable" /\ toServer' = Append(toServer, m)
    BY <1>1, <1>2, <2>2 DEF WritesAtEnd
  <2> QED
    BY <2>1, <2>3
<1>4. PICK m \in ServerMessage : m.type = "Enable" /\ toServer' = Append(toServer, m)
  BY <1>3
<1>5. /\ IsSequence(toClient') /\ Len(toClient') = Len(toClient) - 1
      /\ \A i \in 1 .. Len(toClient') : toClient'[i] = toClient[i + 1]
  <2>1. toClient # <<>>
    BY <1>2
  <2> QED
    BY <1>0, <1>3, <2>1, TailOf
<1>6. /\ \A i \in 1 .. Len(toServer) : \/ toServer[i].type = "Request"
                                       \/ i = 1 /\ Selects(toServer[i], Then) /\ peer.requested = {}
      /\ (Len(toServer) >= 1 /\ toServer[1].type = "SetPixelFormat") \/ peer.pf = Then
  <2>1. /\ Len(toServer) = 2 => \A i \in 1 .. Len(toServer) : i = 1 \/ i = 2
        /\ Len(toServer) = 1 => \A i \in 1 .. Len(toServer) : i = 1
        /\ Len(toServer) = 0 => \A i \in 1 .. Len(toServer) : FALSE
    <3> DEFINE n == Len(toServer)
    <3> HIDE DEF n
    <3>1. /\ n = 2 => \A i \in 1 .. n : i = 1 \/ i = 2
          /\ n = 1 => \A i \in 1 .. n : i = 1
          /\ n = 0 => \A i \in 1 .. n : FALSE
      OBVIOUS
    <3> QED
      BY <3>1 DEF n
  <2> QED
    BY <1>1, <2>1 DEF Reading, Selects
<1>7. \A i \in 1 .. Len(toClient') : i = 1 /\ Fits(toClient'[i], Then) /\ ~Mark(toClient'[i])
  <2>1. Len(toClient) = 1 \/ (Len(toClient) = 2 /\ Fits(toClient[2], Then))
    BY <1>1 DEF Reading
  <2>2. ASSUME NEW i \in 1 .. Len(toClient')
        PROVE  i = 1 /\ Len(toClient) = 2 /\ toClient'[i] = toClient[2]
    <3>1. Len(toClient') = 0 \/ (Len(toClient') = 1 /\ Len(toClient) = 2)
      BY <1>5, <2>1
    <3> DEFINE k == Len(toClient')
    <3>2. i = 1 /\ Len(toClient) = 2
      <4>1. i \in 1 .. k /\ (k = 0 \/ k = 1)
        BY <3>1
      <4> HIDE DEF k
      <4>2. i = 1 /\ k = 1
        BY ONLY <4>1
      <4> QED
        BY <3>1, <4>2 DEF k
    <3> QED
      BY <1>5, <3>2
  <2> QED
    BY <2>1, <2>2 DEF Fits, Mark
<1>8. Marked(toClient') = FALSE
  BY <1>7 DEF Marked
<1> DEFINE f == Then
           g == conn'.pendingPF
<1>9. Asked(toServer', peer, f, g, FALSE, FALSE)
  <2> HIDE DEF f, g
  <2>1. /\ \A i \in 1 .. Len(toServer) : \/ toServer[i].type = "Request"
                                         \/ i = 1 /\ Selects(toServer[i], f) /\ peer.requested = {}
        /\ (Len(toServer) >= 1 /\ toServer[1].type = "SetPixelFormat") \/ peer.pf = f
    BY <1>6 DEF f
  <2> QED
    BY <1>0, <1>1, <1>4, <2>1, AskedFirst
<1>10. Answered(toClient', f, g, FALSE)
  <2>1. \A i \in 1 .. Len(toClient') : \A j \in 1 .. i - 1 : FALSE
    BY <1>7
  <2> QED
    BY <1>5, <1>7, <2>1 DEF Answered
<1>11. Continuous'
  BY <1>3, <1>8, <1>9, <1>10 DEF Continuous
<1>12. toServer' \in Seq(ServerMessage)
  BY <1>0, <1>4
<1> QED
  BY <1>0, <1>3, <1>5, <1>11, <1>12 DEF Types

LEMMA BeforeMarks ==
  ASSUME Types, Before, conn.continuousUpdates = FALSE, EndOfUpdates
  PROVE  Types' /\ Before' /\ conn'.continuousUpdates = FALSE
<1>0. /\ conn \in ConnType /\ peer \in PeerType /\ toServer \in Seq(ServerMessage) /\ IsSequence(toClient)
      /\ conn.reading \in BOOLEAN /\ Len(toClient) \in Nat
  BY SideTypes
<1>1. toClient # <<>> /\ Head(toClient).type = "EndOfContinuousUpdates" /\ toClient' = Tail(toClient)
      /\ UNCHANGED peer
  BY DEF EndOfUpdates, Arrived
<1>2. /\ IsSequence(toClient') /\ Len(toClient) >= 1 /\ Len(toClient') = Len(toClient) - 1
      /\ Head(toClient) = toClient[1] /\ \A i \in 1 .. Len(toClient') : toClient'[i] = toClient[i + 1]
  BY <1>0, <1>1, TailOf
<1>3. Mark(toClient[1]) /\ ~\E f : Fits(toClient[1], f)
  BY <1>1, <1>2 DEF Mark, Fits
<1>4. Opening /\ conn.reading = FALSE /\ conn.pendingPFChange = FALSE
  BY <1>0, <1>3 DEF Before, Reading, Opening
<1>5. conn' = [conn EXCEPT !.supported = TRUE] /\ UNCHANGED toServer
  BY <1>4 DEF EndOfUpdates
<1>6. /\ conn' \in ConnType /\ conn'.supported = TRUE /\ conn'.pf = conn.pf /\ conn'.reading = FALSE
      /\ conn'.pendingPFChange = FALSE /\ conn'.firstUpdate = conn.firstUpdate
      /\ conn'.continuousUpdates = conn.continuousUpdates
  BY <1>0, <1>4, <1>5 DEF ConnType
<1>7. /\ Len(toClient) = 1 => Len(toClient') = 0
      /\ Len(toClient) = 2 => Len(toClient') = 1 /\ toClient'[1] = toClient[2]
  BY <1>2
<1>8. Opening'
  BY <1>1, <1>2, <1>3, <1>4, <1>5, <1>6, <1>7 DEF Opening
<1> QED
  BY <1>0, <1>1, <1>2, <1>5, <1>6, <1>8 DEF Types, Before

\* What the user and the desktop do while the viewer waits for its first updates.
LEMMA BeforeRest ==
  ASSUME Types, Before, conn.continuousUpdates = FALSE, Desktop \/ User
  PROVE  Types' /\ Before' /\ conn'.continuousUpdates = FALSE
<1>0. /\ conn \in ConnType /\ peer \in PeerType /\ toServer \in Seq(ServerMessage)
      /\ IsSequence(toClient) /\ conn.reading \in BOOLEAN
  BY SideTypes
<1> DEFINE Same == /\ conn' \in ConnType /\ peer' \in PeerType /\ UNCHANGED <<toServer, toClient>>
                   /\ conn'.pf = conn.pf /\ conn'.pendingPF = conn.pendingPF
                   /\ conn'.pendingPFChange = conn.pendingPFChange /\ conn'.firstUpdate = conn.firstUpdate
                   /\ conn'.continuousUpdates = conn.continuousUpdates
                   /\ conn'.supported = conn.supported /\ conn'.reading = conn.reading
                   /\ peer'.pf = peer.pf /\ peer'.requested = peer.requested
                   /\ peer'.continuousUpdates = peer.continuousUpdates
<1>1. ASSUME Desktop PROVE Same
  BY <1>0, <1>1, DesktopFacts
<1>2. ASSUME Refresh PROVE Same
  BY <1>0, <1>2 DEF Refresh, ConnType
<1>3. ASSUME NEW f \in Formats, SelectFormat(f) PROVE Same
  BY <1>0, <1>3 DEF SelectFormat, ConnType
<1>4. Same
  BY <1>1, <1>2, <1>3 DEF User
<1>5. conn.reading = FALSE => Opening'
  BY <1>4 DEF Before, Opening
<1>6. conn.reading = TRUE => Reading'
  <2>1. Then' = Then
    BY <1>4 DEF Then
  <2> QED
    BY <1>4, <2>1 DEF Before, Reading
<1> QED
  BY <1>0, <1>4, <1>5, <1>6 DEF Types, Before

----------------------------------------------------------------------------
(* Steps with continuous updates *)

\* The server reads a message.
LEMMA ContinuousReads ==
  ASSUME Types, Continuous, ReadMessage
  PROVE  Types' /\ Continuous' /\ UNCHANGED conn
<1>0. /\ conn \in ConnType /\ peer \in PeerType /\ toServer \in Seq(ServerMessage)
      /\ IsSequence(toServer) /\ IsSequence(toClient)
  BY SideTypes
<1> DEFINE m == toServer[1]
           pf == conn.pf
           new == conn.pendingPF
           pending == conn.pendingPFChange
           marked == Marked(toClient)
<1>1. /\ toServer # <<>> /\ toServer' = Tail(toServer) /\ UNCHANGED conn /\ Head(toServer) = m
      /\ Len(toServer) \in Nat /\ Len(toServer) >= 1
  BY <1>0, TailOf DEF ReadMessage
<1>2. peer' = Handled(m) /\ m \in ServerMessage /\ toServer' \in Seq(ServerMessage)
  BY <1>0, <1>1 DEF ReadMessage
<1>3. /\ m.type = "Disable" => toClient' = Append(toClient, EndOfContinuousUpdates)
      /\ m.type \notin {"SetEncodings", "Disable"} => toClient' = toClient
  BY <1>1 DEF ReadMessage
<1>4. /\ Asked(toServer, peer, pf, new, pending, marked) /\ Answered(toClient, pf, new, pending)
      /\ conn.reading = TRUE => Len(toClient) >= 1 /\ ~Mark(toClient[1])
  BY DEF Continuous
<1>5. m.type # "SetEncodings"
  BY <1>1, <1>4 DEF Asked
<1> HIDE DEF m, pf, new, pending, marked
<1>6. /\ peer' \in PeerType
      /\ m.type = "SetPixelFormat" => /\ peer'.pf = m.pf /\ peer'.requested = peer.requested
                                      /\ peer'.desktopSize = peer.desktopSize
      /\ m.type = "Request" => peer'.pf = peer.pf /\ (m.incremental = FALSE => peer'.desktopSize = TRUE)
      /\ m.type = "Enable" => peer'.pf = peer.pf /\ peer'.requested = {}
      /\ m.type = "Disable" => /\ peer'.pf = peer.pf /\ peer'.continuousUpdates = FALSE
                               /\ peer'.requested = peer.requested /\ peer'.desktopSize = peer.desktopSize
  BY <1>0, <1>2, HandledFacts
<1>7. m.type \in {"SetPixelFormat", "SetEncodings", "Disable", "Request", "Enable"}
      /\ (m.type = "Request" => m.incremental \in BOOLEAN)
  BY <1>2 DEF ServerMessage
<1>8. /\ Asked(toServer', peer', pf, new, pending, Marked(toClient')) /\ Answered(toClient', pf, new, pending)
      /\ conn.reading = TRUE => Len(toClient') >= 1 /\ ~Mark(toClient'[1])
  <2>1. CASE m.type = "Disable"
    <3>1. Quiet(peer') <=> Quiet(peer)
      BY <1>6, <2>1 DEF Quiet
    <3>2. Asked(toServer', peer', pf, new, pending, TRUE) /\ pending = TRUE /\ ~marked
      <4> DEFINE s == peer'
      <4>1. s.pf = peer.pf /\ s.continuousUpdates = FALSE /\ (Quiet(s) <=> Quiet(peer))
        BY <1>6, <2>1, <3>1
      <4> HIDE DEF s
      <4>2. toServer[1].type = "Disable"
        BY <2>1 DEF m
      <4>3. Asked(Tail(toServer), s, pf, new, pending, TRUE) /\ pending = TRUE /\ ~marked
        BY ONLY <1>1, <1>4, <4>1, <4>2, ReadDisable
      <4> QED
        BY <1>1, <4>3 DEF s
    <3>3. /\ Answered(toClient', pf, new, TRUE) /\ Marked(toClient')
          /\ Len(toClient) >= 1 => Len(toClient') >= 1 /\ toClient'[1] = toClient[1]
      <4> DEFINE u == toClient'
                 e == EndOfContinuousUpdates
      <4>1. Mark(e) /\ u = Append(toClient, e)
        BY <1>3, <2>1 DEF Mark, EndOfContinuousUpdates
      <4> HIDE DEF u, e
      <4>2. Answered(toClient, pf, new, TRUE) /\ ~Marked(toClient)
        BY <1>4, <3>2 DEF marked
      <4>3. Answered(u, pf, new, TRUE) /\ Marked(u) /\ (Len(toClient) >= 1 => Len(u) >= 1 /\ u[1] = toClient[1])
        BY ONLY <4>1, <4>2, MarkWritten
      <4> QED
        BY <4>3 DEF u
    <3>4. Marked(toClient') = TRUE
      BY <3>3 DEF Marked
    <3> QED
      BY <1>4, <3>2, <3>3, <3>4
  <2>2. CASE m.type # "Disable"
    <3>1. \/ m.type = "Enable" /\ peer'.pf = peer.pf /\ Quiet(peer')
          \/ m.type = "Request" /\ peer'.pf = peer.pf /\ (Quiet(peer') \/ Incremental(m))
          \/ m.type = "SetPixelFormat" /\ peer'.pf = m.pf /\ (Quiet(peer) => Quiet(peer'))
      BY <1>5, <1>6, <1>7, <2>2 DEF Quiet, Incremental
    <3>2. toClient' = toClient
      BY <1>3, <1>5, <2>2
    <3>3. Asked(toServer', peer', pf, new, pending, marked)
      <4> DEFINE s == peer'
      <4>1. \/ toServer[1].type = "Enable" /\ s.pf = peer.pf /\ Quiet(s)
            \/ toServer[1].type = "Request" /\ s.pf = peer.pf /\ (Quiet(s) \/ Incremental(toServer[1]))
            \/ toServer[1].type = "SetPixelFormat" /\ s.pf = toServer[1].pf /\ (Quiet(peer) => Quiet(s))
        BY <3>1 DEF m
      <4>2. toServer[1].type # "Disable"
        BY <2>2 DEF m
      <4> HIDE DEF s
      <4>3. Asked(Tail(toServer), s, pf, new, pending, marked)
        BY ONLY <1>1, <1>4, <4>1, <4>2, ReadPlain
      <4> QED
        BY <1>1, <4>3 DEF s
    <3> QED
      BY <1>4, <3>2, <3>3 DEF marked
  <2> QED
    BY <2>1, <2>2
<1>9. Continuous'
  BY <1>1, <1>8 DEF Continuous, pf, new, pending
<1> QED
  BY <1>0, <1>1, <1>2, <1>6, <1>8, <1>9 DEF Types, Answered

\* The server writes: data only in the format that the viewer has where it will read it.
LEMMA ContinuousWrites ==
  ASSUME Types, Continuous, WriteUpdate
  PROVE  Types' /\ Continuous' /\ UNCHANGED conn
<1>0. /\ conn \in ConnType /\ peer \in PeerType /\ toServer \in Seq(ServerMessage) /\ IsSequence(toClient)
  BY SideTypes
<1> DEFINE pf == conn.pf
           new == conn.pendingPF
           pending == conn.pendingPFChange
           marked == Marked(toClient)
           now == IF marked THEN new ELSE pf
           s == peer'
           t == toClient
           u == toClient'
<1>1. /\ Asked(toServer, peer, pf, new, pending, marked) /\ Answered(t, pf, new, pending)
      /\ conn.reading = TRUE => Len(t) >= 1 /\ ~Mark(t[1])
  BY DEF Continuous
<1>2. /\ s \in PeerType /\ s.pf = peer.pf /\ s.requested = {} /\ s.continuousUpdates = peer.continuousUpdates
      /\ UNCHANGED <<conn, toServer>>
      /\ \/ \E a : u = Append(t, a) /\ \A f : Fits(a, f)
         \/ \E b : /\ u = Append(t, b) /\ Fits(b, peer.pf)
                   /\ peer.continuousUpdates = TRUE \/ ~Quiet(peer)
         \/ \E a, b : /\ u = Append(Append(t, a), b) /\ peer.continuousUpdates = TRUE
                      /\ (\A f : Fits(a, f)) /\ Fits(b, peer.pf)
  BY <1>0, WriteFacts
<1>3. peer.continuousUpdates = TRUE \/ ~Quiet(peer) => peer.pf = now
  <2> SUFFICES ASSUME peer.continuousUpdates = TRUE \/ ~Quiet(peer), peer.pf # now PROVE FALSE
    OBVIOUS
  <2>1. Len(toServer) >= 1 /\ toServer[1].type = "SetPixelFormat"
    BY <1>1 DEF Asked
  <2>2. 1 \in 1 .. Len(toServer) /\ ~(1 > 1)
    BY <1>0, <2>1
  <2>3. peer.continuousUpdates = FALSE /\ Quiet(peer)
    BY <1>1, <2>1, <2>2 DEF Asked
  <2> QED
    BY <2>3
<1>4. Asked(toServer, s, pf, new, pending, marked)
  <2>1. Quiet(s)
    BY <1>2 DEF Quiet
  <2> HIDE DEF s, pf, new, pending, marked
  <2> QED
    BY <1>1, <1>2, <2>1, AskedSame
<1> DEFINE Good(x) == /\ Answered(x, pf, new, pending) /\ (Marked(x) <=> Marked(t))
                      /\ Len(t) >= 1 => Len(x) >= 1 /\ x[1] = t[1]
<1>5. ASSUME NEW x, Good(x), NEW a, Fits(a, now), NEW y, y = Append(x, a)
      PROVE  Good(y)
  <2> HIDE DEF pf, new, pending
  <2>1. Fits(a, IF Marked(x) THEN new ELSE pf)
    BY <1>5
  <2>2. Answered(x, pf, new, pending) /\ (Marked(x) <=> Marked(t))
        /\ (Len(t) >= 1 => Len(x) >= 1 /\ x[1] = t[1])
    BY <1>5
  <2>3. /\ Answered(y, pf, new, pending) /\ (Marked(y) <=> Marked(x)) /\ Len(y) >= 1
        /\ Len(x) >= 1 => y[1] = x[1]
    <3>1. Answered(x, pf, new, pending) /\ Fits(a, IF Marked(x) THEN new ELSE pf) /\ y = Append(x, a)
      BY <1>5, <2>1, <2>2
    <3> QED
      BY ONLY <3>1, UpdateWritten
  <2> QED
    BY <2>2, <2>3
<1>6. Good(t)
  BY <1>1
<1>7. Good(u)
  <2> HIDE DEF Good, now, u, t, s
  <2>1. CASE \E a : u = Append(t, a) /\ \A f : Fits(a, f)
    BY <1>5, <1>6, <2>1
  <2>2. CASE \E b : /\ u = Append(t, b) /\ Fits(b, peer.pf)
                    /\ peer.continuousUpdates = TRUE \/ ~Quiet(peer)
    BY <1>3, <1>5, <1>6, <2>2
  <2>3. CASE \E a, b : /\ u = Append(Append(t, a), b) /\ peer.continuousUpdates = TRUE
                       /\ (\A f : Fits(a, f)) /\ Fits(b, peer.pf)
    <3>1. PICK a, b : /\ u = Append(Append(t, a), b) /\ peer.continuousUpdates = TRUE
                      /\ (\A f : Fits(a, f)) /\ Fits(b, peer.pf)
      BY <2>3
    <3>2. Good(Append(t, a))
      BY <1>5, <1>6, <3>1
    <3> QED
      BY <1>3, <1>5, <3>1, <3>2
  <2> QED
    BY <1>2, <2>1, <2>2, <2>3
<1>8. Marked(toClient') = marked
  BY <1>7 DEF Marked
<1>9. Continuous'
  BY <1>1, <1>2, <1>4, <1>7, <1>8 DEF Continuous
<1> QED
  BY <1>0, <1>2, <1>7, <1>9 DEF Types, Answered

\* The viewer has read an update.
LEMMA ContinuousEnds ==
  ASSUME Types, Continuous, conn.continuousUpdates = TRUE, UpdateEnd
  PROVE  Types' /\ Continuous' /\ conn'.continuousUpdates = TRUE
<1>0. /\ conn \in ConnType /\ peer \in PeerType /\ toServer \in Seq(ServerMessage) /\ IsSequence(toClient)
      /\ conn.reading \in BOOLEAN /\ Len(toClient) \in Nat
  BY SideTypes
<1> DEFINE pf == conn.pf
           new == conn.pendingPF
           pending == conn.pendingPFChange
           marked == Marked(toClient)
<1>1. /\ Asked(toServer, peer, pf, new, pending, marked) /\ Answered(toClient, pf, new, pending)
      /\ Len(toClient) >= 1 /\ ~Mark(toClient[1])
  BY <1>0 DEF Continuous, UpdateEnd
<1>2. toClient[1].size \in Sizes \cup {0}
  <2>1. 1 \in 1 .. Len(toClient)
    BY <1>0, <1>1
  <2> QED
    BY <1>1, <2>1 DEF Answered, Fits
<1>3. /\ conn' \in ConnType /\ conn'.reading = FALSE /\ conn'.pendingPF = new /\ conn'.continuousUpdates = TRUE
      /\ conn'.pf = pf /\ conn'.pendingPFChange = pending /\ UNCHANGED peer /\ toClient' = Tail(toClient)
  BY <1>1, <1>2, EndFacts
<1>4. PICK m : WritesAtEnd(m)
  BY <1>1, <1>2, EndFacts
<1>5. /\ m \in ServerMessage /\ m.type = "Enable"
      /\ toServer' \in {toServer, Append(toServer, m), Append(Append(toServer, m), m)}
  BY <1>4 DEF WritesAtEnd
<1> HIDE DEF pf, new, pending, marked
<1>6. Asked(toServer', peer, pf, new, pending, marked)
  <2> DEFINE r == Append(toServer, m)
             z == Append(r, m)
  <2>1. r = Append(toServer, m) /\ z = Append(r, m) /\ toServer' \in {toServer, r, z}
    BY <1>5
  <2> HIDE DEF r, z
  <2>2. Asked(r, peer, pf, new, pending, marked)
    BY <1>1, <1>5, <2>1, AskedMore
  <2>3. Asked(z, peer, pf, new, pending, marked)
    BY <1>5, <2>1, <2>2, AskedMore
  <2> QED
    BY <1>1, <2>1, <2>2, <2>3
<1>7. Answered(toClient', pf, new, pending) /\ (Marked(toClient') <=> Marked(toClient))
  <2> DEFINE u == toClient'
  <2>1. u = Tail(toClient)
    BY <1>3
  <2> HIDE DEF u
  <2>2. Answered(u, pf, new, pending) /\ (Marked(u) <=> Marked(toClient))
    BY <1>1, <2>1, UpdateRead
  <2> QED
    BY <2>2 DEF u
<1>8. Marked(toClient') = marked
  BY <1>7 DEF Marked, marked
<1>9. Continuous'
  BY <1>3, <1>6, <1>7, <1>8 DEF Continuous
<1> QED
  BY <1>0, <1>3, <1>6, <1>7, <1>9 DEF Types, Answered, Asked

\* The viewer reads the mark: it changes the format, and may ask for the next change at once.
LEMMA ContinuousMarks ==
  ASSUME Types, Continuous, conn.continuousUpdates = TRUE, EndOfUpdates
  PROVE  Types' /\ Continuous' /\ conn'.continuousUpdates = TRUE
<1>0. /\ conn \in ConnType /\ peer \in PeerType /\ toServer \in Seq(ServerMessage) /\ IsSequence(toClient)
      /\ conn.reading \in BOOLEAN /\ conn.pendingPFChange \in BOOLEAN /\ conn.formatChange \in BOOLEAN
  BY SideTypes
<1>1. /\ toClient # <<>> /\ Head(toClient).type = "EndOfContinuousUpdates" /\ toClient' = Tail(toClient)
      /\ UNCHANGED peer
  BY DEF EndOfUpdates, Arrived
<1>2. Mark(toClient[1]) /\ IsSequence(toClient')
  <2>1. Head(toClient) = toClient[1] /\ IsSequence(Tail(toClient))
    BY <1>0, <1>1, TailOf
  <2> QED
    BY <1>1, <2>1 DEF Mark
<1>3. /\ Asked(toServer, peer, conn.pf, conn.pendingPF, conn.pendingPFChange, Marked(toClient))
      /\ Answered(toClient, conn.pf, conn.pendingPF, conn.pendingPFChange) /\ conn.reading = FALSE
  BY <1>0, <1>2 DEF Continuous
<1> DEFINE new == conn.pendingPF
           c == [conn EXCEPT !.supported = TRUE]
           s == SwitchFormat(c)
           u == toClient'
<1>4. /\ conn.pendingPFChange = TRUE /\ ~Marked(u) /\ Marked(toClient)
      /\ \A x : \A b : Answered(u, new, x, b)
  <2> DEFINE pf == conn.pf
             pending == conn.pendingPFChange
  <2>1. u = Tail(toClient) /\ Answered(toClient, pf, new, pending)
    BY <1>1, <1>3
  <2> HIDE DEF u, new, pf, pending
  <2>2. pending = TRUE /\ ~Marked(u) /\ Marked(toClient) /\ \A x : \A b : Answered(u, new, x, b)
    <3>1. toClient # <<>> /\ Mark(toClient[1])
      BY <1>1, <1>2
    <3>2. /\ pending = TRUE
          /\ ~Marked(u)
          /\ Marked(toClient)
      <4>1. pending = TRUE
        <5>1. 1 \in 1 .. Len(toClient)
          BY <1>0, <3>1, TailOf
        <5> QED
          BY <2>1, <3>1, <5>1 DEF Answered
      <4>2. ~Marked(u)
        BY ONLY <2>1, <3>1, MarkRead
      <4>3. Marked(toClient)
        BY ONLY <2>1, <3>1, MarkRead
      <4> QED
        BY <4>1, <4>2, <4>3
    <3>3. ASSUME NEW x, NEW b PROVE Answered(u, new, x, b)
      BY ONLY <2>1, <3>1, MarkRead
    <3> QED
      BY <3>2, <3>3
  <2> QED
    BY <2>2 DEF pending
<1>5. Marked(u) = FALSE /\ Marked(toClient) = TRUE
  BY <1>4 DEF Marked
<1>6. Asked(toServer, peer, new, new, FALSE, FALSE)
  <2> HIDE DEF new
  <2>1. Asked(toServer, peer, conn.pf, new, TRUE, TRUE)
    BY <1>3, <1>4, <1>5 DEF new
  <2> QED
    BY <2>1, AskedMarked
<1>7. /\ s \in ConnType /\ s.pf = new /\ s.pendingPF = new /\ s.pendingPFChange = FALSE
      /\ s.reading = FALSE /\ s.continuousUpdates = TRUE
  BY <1>0, <1>3 DEF SwitchFormat, ConnType
<1>8. /\ conn.formatChange = FALSE => conn' = s /\ toServer' = toServer
      /\ conn.formatChange = TRUE => conn' = NewUpdate(s) /\ toServer' = toServer \o NewUpdateMessages(s)
  BY <1>4 DEF EndOfUpdates
<1> HIDE DEF s, new, u
<1>9. CASE conn.formatChange = FALSE
  <2>1. /\ Asked(toServer', peer', conn'.pf, conn'.pendingPF, conn'.pendingPFChange, Marked(toClient'))
        /\ Answered(toClient', conn'.pf, conn'.pendingPF, conn'.pendingPFChange) /\ conn'.reading = FALSE
    BY <1>1, <1>4, <1>5, <1>6, <1>7, <1>8, <1>9 DEF u
  <2> QED
    BY <1>0, <1>1, <1>2, <1>7, <1>8, <1>9, <2>1 DEF Types, Continuous
<1>10. CASE conn.formatChange = TRUE
  <2> DEFINE d == conn'
             r == toServer'
  <2>1. d = NewUpdate(s) /\ r = toServer \o NewUpdateMessages(s)
    BY <1>8, <1>10
  <2>2. Asked(toServer, peer, s.pf, s.pendingPF, s.pendingPFChange, Marked(u))
        /\ Answered(u, s.pf, s.pendingPF, s.pendingPFChange)
    BY <1>4, <1>5, <1>6, <1>7
  <2> HIDE DEF d, r
  <2>3. /\ Asked(r, peer, d.pf, d.pendingPF, d.pendingPFChange, Marked(u))
        /\ Answered(u, d.pf, d.pendingPF, d.pendingPFChange)
    BY ONLY <1>7, <2>1, <2>2, AsksOn
  <2>4. d \in ConnType /\ d.reading = FALSE /\ d.continuousUpdates = TRUE
    BY <1>7, <2>1, NewUpdateFacts
  <2>5. r \in Seq(ServerMessage)
    BY <2>3 DEF Asked
  <2> QED
    BY <1>0, <1>1, <1>2, <2>3, <2>4, <2>5 DEF Types, Continuous, d, r, u
<1> QED
  BY <1>0, <1>9, <1>10

\* requestNewUpdate(), at the start of an update and for a refresh.
LEMMA ContinuousAsks ==
  ASSUME Types, Continuous, NEW c \in ConnType, c.continuousUpdates = TRUE, c.pf = conn.pf,
         c.pendingPF = conn.pendingPF, c.pendingPFChange = conn.pendingPFChange,
         c.reading = TRUE => Len(toClient) >= 1 /\ ~Mark(toClient[1]),
         conn' = NewUpdate(c), toServer' = toServer \o NewUpdateMessages(c), UNCHANGED <<peer, toClient>>
  PROVE  Types' /\ Continuous' /\ conn'.continuousUpdates = TRUE
<1>0. peer \in PeerType /\ IsSequence(toClient)
  BY SideTypes
<1>1. /\ Asked(toServer, peer, c.pf, c.pendingPF, c.pendingPFChange, Marked(toClient))
      /\ Answered(toClient, c.pf, c.pendingPF, c.pendingPFChange)
  BY DEF Continuous
<1> DEFINE d == conn'
           r == toServer'
<1>2. d = NewUpdate(c) /\ r = toServer \o NewUpdateMessages(c) /\ c \in ConnType /\ c.continuousUpdates = TRUE
  OBVIOUS
<1> HIDE DEF d, r
<1>3. /\ Asked(r, peer, d.pf, d.pendingPF, d.pendingPFChange, Marked(toClient))
      /\ Answered(toClient, d.pf, d.pendingPF, d.pendingPFChange)
  BY ONLY <1>1, <1>2, AsksOn
<1>4. d \in ConnType /\ d.reading = c.reading /\ d.continuousUpdates = TRUE
  BY <1>2, NewUpdateFacts
<1>5. r \in Seq(ServerMessage)
  BY <1>3 DEF Asked
<1> QED
  BY <1>0, <1>3, <1>4, <1>5 DEF Types, Continuous, d, r

LEMMA ContinuousStarts ==
  ASSUME Types, Continuous, conn.continuousUpdates = TRUE, UpdateStart
  PROVE  Types' /\ Continuous' /\ conn'.continuousUpdates = TRUE
<1> DEFINE c == [conn EXCEPT !.pendingUpdate = FALSE, !.reading = TRUE]
<1>0. conn \in ConnType /\ IsSequence(toClient)
  BY SideTypes
<1>1. /\ toClient # <<>> /\ Head(toClient).type = "Update" /\ UNCHANGED <<peer, toClient>>
      /\ conn' = NewUpdate(c) /\ toServer' = toServer \o NewUpdateMessages(c)
  BY DEF UpdateStart, Arrived
<1>2. /\ c \in ConnType /\ c.continuousUpdates = TRUE /\ c.pf = conn.pf
      /\ c.pendingPF = conn.pendingPF /\ c.pendingPFChange = conn.pendingPFChange
  BY <1>0 DEF ConnType
<1>3. Len(toClient) >= 1 /\ ~Mark(toClient[1])
  BY <1>0, <1>1, TailOf DEF Mark
<1> HIDE DEF c
<1> QED
  BY <1>1, <1>2, <1>3, ContinuousAsks

LEMMA ContinuousRest ==
  ASSUME Types, Continuous, conn.continuousUpdates = TRUE, Desktop \/ User
  PROVE  Types' /\ Continuous' /\ conn'.continuousUpdates = TRUE
<1>0. /\ conn \in ConnType /\ peer \in PeerType /\ toServer \in Seq(ServerMessage) /\ IsSequence(toClient)
  BY SideTypes
<1>1. CASE Desktop
  <2> DEFINE s == peer'
             pf == conn.pf
             new == conn.pendingPF
             pending == conn.pendingPFChange
             marked == Marked(toClient)
  <2>1. /\ s \in PeerType /\ s.pf = peer.pf /\ s.continuousUpdates = peer.continuousUpdates
        /\ (Quiet(peer) => Quiet(s)) /\ UNCHANGED <<conn, toServer, toClient>>
    BY <1>0, <1>1, DesktopFacts
  <2>2. Asked(toServer, peer, pf, new, pending, marked)
    BY DEF Continuous
  <2>3. Asked(toServer, s, pf, new, pending, marked)
    <3> HIDE DEF s, pf, new, pending, marked
    <3> QED
      BY <2>1, <2>2, AskedSame
  <2>4. Marked(toClient') = marked
    BY <2>1
  <2> QED
    BY <1>0, <2>1, <2>3, <2>4 DEF Types, Continuous
<1>2. CASE Refresh
  <2> DEFINE c == [conn EXCEPT !.forceNonincremental = TRUE]
  <2>1. conn' = NewUpdate(c) /\ toServer' = toServer \o NewUpdateMessages(c) /\ UNCHANGED <<peer, toClient>>
    BY <1>2 DEF Refresh
  <2>2. /\ c \in ConnType /\ c.continuousUpdates = TRUE /\ c.pf = conn.pf /\ c.reading = conn.reading
        /\ c.pendingPF = conn.pendingPF /\ c.pendingPFChange = conn.pendingPFChange
    BY <1>0 DEF ConnType
  <2>3. c.reading = TRUE => Len(toClient) >= 1 /\ ~Mark(toClient[1])
    BY <2>2 DEF Continuous
  <2> HIDE DEF c
  <2> QED
    BY <2>1, <2>2, <2>3, ContinuousAsks
<1>3. ASSUME NEW f \in Formats, SelectFormat(f)
      PROVE  Types' /\ Continuous' /\ conn'.continuousUpdates = TRUE
  <2>1. /\ conn' \in ConnType /\ conn'.pf = conn.pf /\ conn'.pendingPF = conn.pendingPF
        /\ conn'.pendingPFChange = conn.pendingPFChange /\ conn'.reading = conn.reading
        /\ conn'.continuousUpdates = conn.continuousUpdates /\ UNCHANGED <<peer, toServer, toClient>>
    BY <1>0, <1>3 DEF SelectFormat, ConnType
  <2>2. Marked(toClient') = Marked(toClient)
    BY <2>1
  <2> QED
    BY <1>0, <2>1, <2>2 DEF Types, Continuous
<1> QED
  BY <1>1, <1>2, <1>3 DEF User

----------------------------------------------------------------------------
(* The theorems *)

LEMMA UpdateInit == Init => UpdateInv
<1> SUFFICES ASSUME Init PROVE UpdateInv
  OBVIOUS
<1>1. PICK f \in Formats, size \in Sizes :
        /\ conn = Connected(f, size)
        /\ toServer = (IF f = Native THEN <<>> ELSE SetPixelFormat(f)) \o SetEncodings \o UpdateRequest(size, FALSE)
        /\ peer = [pf |-> Native, continuousUpdates |-> FALSE, cuRegion |-> {}, requested |-> {},
                   changed |-> Area(size), lossy |-> {}, size |-> size, desktopSize |-> FALSE,
                   cursor |-> FALSE]
        /\ toClient = <<>>
  BY DEF Init
<1> DEFINE a == [type |-> "SetPixelFormat", pf |-> f]
           b == [type |-> "SetEncodings"]
           d == [type |-> "Request", size |-> size, incremental |-> FALSE]
<1>2. /\ a \in ServerMessage /\ b \in ServerMessage /\ d \in ServerMessage
      /\ Selects(a, f) /\ b.type = "SetEncodings" /\ d.type = "Request"
  BY DEF ServerMessage, Selects
<1>3. SetPixelFormat(f) = <<a>> /\ SetEncodings = <<b>> /\ UpdateRequest(size, FALSE) = <<d>>
  BY DEF SetPixelFormat, SetEncodings, UpdateRequest
<1> HIDE DEF a, b, d
<1>4. /\ toServer \in Seq(ServerMessage)
      /\ f # Native => /\ Len(toServer) = 3 /\ toServer[1] = a /\ toServer[2] = b /\ toServer[3] = d
      /\ f = Native => /\ Len(toServer) = 2 /\ toServer[1] = b /\ toServer[2] = d
  <2>1. CASE f = Native
    <3>1. toServer = (<<>> \o <<b>>) \o <<d>>
      BY <1>1, <1>3, <2>1
    <3> QED
      BY <1>2, <2>1, <3>1
  <2>2. CASE f # Native
    <3>1. toServer = (<<a>> \o <<b>>) \o <<d>>
      BY <1>1, <1>3, <2>2
    <3> DEFINE q == Append(<<a>>, b)
    <3>2. <<a>> \in Seq(ServerMessage) /\ Len(<<a>>) = 1 /\ <<a>>[1] = a /\ <<a>> \o <<b>> = q
      BY <1>2, AppendIsConcat
    <3>3. q \in Seq(ServerMessage) /\ Len(q) = 2 /\ q[1] = a /\ q[2] = b
      BY <1>2, <3>2
    <3> HIDE DEF q
    <3>4. toServer = Append(q, d)
      BY <1>2, <3>1, <3>2, <3>3, AppendIsConcat
    <3>5. toServer \in Seq(ServerMessage) /\ Len(toServer) = 3
      <4>1. q \in Seq(ServerMessage) /\ Len(q) = 2 /\ d \in ServerMessage
        BY <1>2, <3>3
      <4>2. Append(q, d) \in Seq(ServerMessage) /\ Len(Append(q, d)) = Len(q) + 1
        BY ONLY <4>1, AppendProperties
      <4> QED
        BY <3>4, <4>1, <4>2
    <3>6. toServer[1] = q[1] /\ toServer[2] = q[2] /\ toServer[3] = d
      <4>1. (\A i \in 1 .. Len(q) : toServer[i] = q[i]) /\ toServer[Len(q) + 1] = d
        <5>1. IsSequence(q)
          BY <3>3, SequenceOf
        <5> QED
          BY <3>4, <5>1, AppendedTo
      <4>2. 1 \in 1 .. 2 /\ 2 \in 1 .. 2 /\ 2 + 1 = 3
        OBVIOUS
      <4> QED
        BY <3>3, <4>1, <4>2
    <3> QED
      BY <2>2, <3>3, <3>5, <3>6
  <2> QED
    BY <2>1, <2>2
<1>5. /\ conn \in ConnType /\ conn.pf = f /\ conn.pendingPFChange = FALSE /\ conn.supported = FALSE
      /\ conn.reading = FALSE /\ conn.firstUpdate = TRUE /\ conn.continuousUpdates = FALSE
  BY <1>1 DEF Connected, ConnType
<1>6. /\ peer \in PeerType /\ peer.pf = Native /\ peer.requested = {} /\ peer.continuousUpdates = FALSE
  <2> DEFINE region == Area(size)
             none == {}
  <2>1. region \in SUBSET Int /\ none \in SUBSET Int /\ Native \in Formats
    BY SizeFacts, UpdateAssumption
  <2>2. peer = [pf |-> Native, continuousUpdates |-> FALSE, cuRegion |-> none, requested |-> none,
                changed |-> region, lossy |-> none, size |-> size, desktopSize |-> FALSE,
                cursor |-> FALSE]
    BY <1>1
  <2> HIDE DEF region, none
  <2>3. peer \in PeerType /\ peer.pf = Native /\ peer.requested = none /\ peer.continuousUpdates = FALSE
    BY <2>1, <2>2 DEF PeerType
  <2> QED
    BY <2>3 DEF none
<1>7. Len(toClient) = 0 /\ IsSequence(toClient)
  <2>1. toClient \in Seq(Nat) /\ Len(toClient) = 0
    BY <1>1
  <2> QED
    BY <2>1, SequenceOf
<1>8. Opening
  BY <1>2, <1>4, <1>5, <1>6, <1>7 DEF Opening
<1> QED
  BY <1>4, <1>5, <1>6, <1>7, <1>8 DEF UpdateInv, Types, Before

LEMMA UpdateStep == UpdateInv /\ [Next]_vars => UpdateInv'
<1> SUFFICES ASSUME UpdateInv, [Next]_vars PROVE UpdateInv'
  OBVIOUS
<1>0. Types /\ conn.continuousUpdates \in BOOLEAN
  BY SideTypes DEF UpdateInv
<1>1. CASE conn.continuousUpdates = FALSE /\ Next
  <2>0. Before
    BY <1>1 DEF UpdateInv
  <2>1. CASE UpdateStart
    BY <1>0, <1>1, <2>0, <2>1, BeforeStarts DEF UpdateInv
  <2>2. CASE UpdateEnd
    BY <1>0, <1>1, <2>0, <2>2, BeforeEnds DEF UpdateInv
  <2>3. CASE EndOfUpdates
    BY <1>0, <1>1, <2>0, <2>3, BeforeMarks DEF UpdateInv
  <2>4. CASE User \/ Desktop
    BY <1>0, <1>1, <2>0, <2>4, BeforeRest DEF UpdateInv
  <2>5. CASE ReadMessage
    BY <1>0, <1>1, <2>0, <2>5, BeforeReads DEF UpdateInv
  <2>6. CASE WriteUpdate
    BY <1>0, <1>1, <2>0, <2>6, BeforeWrites DEF UpdateInv
  <2> QED
    BY <1>1, <2>1, <2>2, <2>3, <2>4, <2>5, <2>6 DEF Next, Viewer
<1>2. CASE conn.continuousUpdates = TRUE /\ Next
  <2>0. Continuous
    BY <1>2 DEF UpdateInv
  <2>1. CASE UpdateStart
    BY <1>0, <1>2, <2>0, <2>1, ContinuousStarts DEF UpdateInv
  <2>2. CASE UpdateEnd
    BY <1>0, <1>2, <2>0, <2>2, ContinuousEnds DEF UpdateInv
  <2>3. CASE EndOfUpdates
    BY <1>0, <1>2, <2>0, <2>3, ContinuousMarks DEF UpdateInv
  <2>4. CASE User \/ Desktop
    BY <1>0, <1>2, <2>0, <2>4, ContinuousRest DEF UpdateInv
  <2>5. CASE ReadMessage
    BY <1>0, <1>2, <2>0, <2>5, ContinuousReads DEF UpdateInv
  <2>6. CASE WriteUpdate
    BY <1>0, <1>2, <2>0, <2>6, ContinuousWrites DEF UpdateInv
  <2> QED
    BY <1>2, <2>1, <2>2, <2>3, <2>4, <2>5, <2>6 DEF Next, Viewer
<1>3. CASE UNCHANGED vars
  BY <1>3 DEF vars, UpdateInv, Types, Before, Opening, Reading, Then, Continuous
<1> QED
  BY <1>0, <1>1, <1>2, <1>3

\* CConnection and VNCSConnectionST keep to the protocol: one request or one answer before
\* continuous updates, and with them a format is selected only where the server is quiet.
THEOREM UpdateInvariant == Spec => []UpdateInv
<1>1. Init => UpdateInv
  BY UpdateInit
<1>2. UpdateInv /\ [Next]_vars => UpdateInv'
  BY UpdateStep
<1> QED
  BY <1>1, <1>2, PTL DEF Spec

\* Every update is decoded in the format it was encoded in, whatever formats are selected
\* while updates are on their way (requestNewUpdate(), endOfContinuousUpdates()).
THEOREM FormatsAgree == Spec => []DecodedInOwnFormat
<1>1. UpdateInv => DecodedInOwnFormat
  <2> SUFFICES ASSUME UpdateInv, conn.reading
               PROVE  Head(toClient).size # 0 \/ Head(toClient).pf = conn.pf
    BY DEF DecodedInOwnFormat
  <2>1. /\ Types /\ IsSequence(toClient) /\ Len(toClient) \in Nat /\ conn.continuousUpdates \in BOOLEAN
        /\ conn.reading = TRUE
    BY SideTypes DEF UpdateInv
  <2>2. Len(toClient) >= 1 /\ Fits(toClient[1], conn.pf)
    <3>1. CASE conn.continuousUpdates = FALSE
      BY <2>1, <3>1 DEF UpdateInv, Before, Reading
    <3>2. CASE conn.continuousUpdates = TRUE
      <4>1. /\ Answered(toClient, conn.pf, conn.pendingPF, conn.pendingPFChange)
            /\ Len(toClient) >= 1 /\ ~Mark(toClient[1])
        BY <2>1, <3>2 DEF UpdateInv, Continuous
      <4>2. 1 \in 1 .. Len(toClient) /\ ~\E j \in 1 .. 1 - 1 : Mark(toClient[j])
        BY <2>1, <4>1
      <4> QED
        BY <4>1, <4>2 DEF Answered
    <3> QED
      BY <2>1, <3>1, <3>2
  <2>3. Head(toClient) = toClient[1]
    <3>1. toClient # <<>>
      BY <2>2
    <3> QED
      BY <2>1, <3>1, TailOf
  <2> QED
    BY <2>2, <2>3 DEF Fits
<1> QED
  BY <1>1, UpdateInvariant, PTL

\* Without continuous updates a single update is in flight, as refreshFramebuffer() says and
\* relies on, whatever is refreshed, resized and selected meanwhile.
THEOREM OneUpdateInFlight == Spec => []SingleUpdateInFlight
<1>1. UpdateInv => SingleUpdateInFlight
  <2> SUFFICES ASSUME UpdateInv, ~conn.continuousUpdates PROVE InFlight <= 1
    BY DEF SingleUpdateInFlight
  <2>1. /\ Types /\ IsSequence(toClient) /\ Len(toClient) \in Nat /\ toServer \in Seq(ServerMessage)
        /\ Len(toServer) \in Nat /\ conn.reading \in BOOLEAN /\ Before
    BY SideTypes DEF UpdateInv
  <2> DEFINE S == Places(toServer, "Request")
             C == Places(toClient, "Update")
  <2>2. S = {i \in 1 .. Len(toServer) : toServer[i].type = "Request"}
    BY <2>1 DEF Places
  <2>3. C = {i \in 1 .. Len(toClient) : toClient[i].type = "Update"}
    <3> DEFINE E == {toClient[i] : i \in 1 .. Len(toClient)}
    <3>1. toClient \in Seq(E)
      BY <2>1 DEF IsSequence
    <3> HIDE DEF E
    <3>2. DOMAIN toClient = 1 .. Len(toClient)
      BY <3>1
    <3> QED
      BY <3>2 DEF Places
  <2> HIDE DEF S, C
  <2>4. Cardinality({}) = 0 /\ \A x : Cardinality({x}) = 1
    BY FS_EmptySet, FS_Singleton
  <2>5. \A n : /\ n = 0 => \A i : i \notin 1 .. n
               /\ n = 1 => \A i : i \in 1 .. n <=> i = 1
               /\ n = 2 => \A i : i \in 1 .. n <=> i = 1 \/ i = 2
               /\ n = 3 => \A i : i \in 1 .. n <=> i = 1 \/ i = 2 \/ i = 3
    OBVIOUS
  <2> DEFINE r == IF peer.requested # {} THEN 1 ELSE 0
             s == Cardinality(S)
             k == Cardinality(C)
             e == IF conn.reading THEN 1 ELSE 0
  <2>6. CASE conn.reading = FALSE
    <3>1. Opening
      BY <2>1, <2>6 DEF Before
    <3>2. (S = {} /\ C = {}) \/ (S = {} /\ C = {1} /\ peer.requested = {})
          \/ (S = {} /\ C = {2} /\ peer.requested = {})
          \/ (C = {} /\ peer.requested = {} /\ \E x \in {1, 2, 3} : S = {x})
      BY <2>2, <2>3, <2>5, <3>1 DEF Opening, Selects, Mark, Fits
    <3>3. s \in {0, 1} /\ k \in {0, 1} /\ r \in {0, 1} /\ e = 0 /\ s + r + k <= 1
      <4>1. e = 0 /\ r \in {0, 1} /\ (peer.requested = {} => r = 0)
        BY <2>6
      <4>2. CASE S = {} /\ C = {}
        <5>1. s = 0 /\ k = 0
          BY <2>4, <4>2
        <5> QED
          BY ONLY <4>1, <5>1
      <4>3. CASE S = {} /\ peer.requested = {} /\ \E x \in {1, 2} : C = {x}
        <5>1. s = 0 /\ k = 1 /\ r = 0
          BY <2>4, <4>1, <4>3
        <5> QED
          BY ONLY <4>1, <5>1
      <4>4. CASE C = {} /\ peer.requested = {} /\ \E x \in {1, 2, 3} : S = {x}
        <5>1. s = 1 /\ k = 0 /\ r = 0
          BY <2>4, <4>1, <4>4
        <5> QED
          BY ONLY <4>1, <5>1
      <4> QED
        BY <3>2, <4>2, <4>3, <4>4
    <3> HIDE DEF s, k, r, e
    <3>4. s + r + k - e <= 1
      BY <3>3
    <3> QED
      BY <3>4 DEF InFlight, s, k, r, e, S, C
  <2>7. CASE conn.reading = TRUE
    <3>1. Reading
      BY <2>1, <2>7 DEF Before
    <3>2. (S = {} /\ C = {1}) \/ (S = {} /\ C = {1, 2} /\ peer.requested = {})
          \/ (C = {1} /\ peer.requested = {} /\ \E x \in {1, 2} : S = {x})
      BY <2>2, <2>3, <2>5, <3>1 DEF Reading, Selects, Mark, Fits
    <3>3. Cardinality({1, 2}) = 2
      <4>1. IsFiniteSet({1}) /\ {1, 2} = {1} \cup {2} /\ 2 \notin {1}
        BY FS_Singleton
      <4> QED
        <5>1. Cardinality({1} \cup {2}) = Cardinality({1}) + 1
          BY <4>1, FS_AddElement
        <5> QED
          BY <2>4, <4>1, <5>1
    <3>4. s \in {0, 1} /\ k \in {1, 2} /\ r \in {0, 1} /\ e = 1 /\ s + r + k <= 2
      <4>1. e = 1 /\ r \in {0, 1} /\ (peer.requested = {} => r = 0)
        BY <2>7
      <4>2. CASE S = {} /\ C = {1}
        <5>1. s = 0 /\ k = 1
          BY <2>4, <4>2
        <5> QED
          BY ONLY <4>1, <5>1
      <4>3. CASE S = {} /\ C = {1, 2} /\ peer.requested = {}
        <5>1. s = 0 /\ k = 2 /\ r = 0
          BY <2>4, <3>3, <4>1, <4>3
        <5> QED
          BY ONLY <4>1, <5>1
      <4>4. CASE C = {1} /\ peer.requested = {} /\ \E x \in {1, 2} : S = {x}
        <5>1. s = 1 /\ k = 1 /\ r = 0
          BY <2>4, <4>1, <4>4
        <5> QED
          BY ONLY <4>1, <5>1
      <4> QED
        BY <3>2, <4>2, <4>3, <4>4
    <3> HIDE DEF s, k, r, e
    <3>5. s + r + k - e <= 1
      BY <3>4
    <3> QED
      BY <3>5 DEF InFlight, s, k, r, e, S, C
  <2> QED
    BY <2>1, <2>6, <2>7
<1> QED
  BY <1>1, UpdateInvariant, PTL
=============================================================================

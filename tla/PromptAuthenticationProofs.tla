--------------------- MODULE PromptAuthenticationProofs ---------------------
(***************************************************************************)
(* Proofs about PromptAuthentication for every number of prompts and       *)
(* attempts.                                                               *)
(***************************************************************************)
EXTENDS PromptAuthentication, TLAPS

USE PromptBounds

----------------------------------------------------------------------------
(* The inductive invariant *)

\* What request() returns for the reply it has.
Answer ==
  IF prompt.kind = "Credentials" THEN "credentials" ELSE IF allowed THEN "allow" ELSE "deny"

\* The installed prompt is the last one, belongs to the current attempt, is the
\* one the worker is in request() for, and has no outcome yet.
Installed ==
  /\ outstanding <=> worker # "idle"
  /\ outstanding => /\ prompt.id = lastId /\ lastId \in Ids
                    /\ prompt.generation = generation
                    /\ outcome[prompt.id] = "none"

\* Prompts that are still to come have no history.
FutureBlank ==
  /\ \A id \in Ids : id > lastId => decided[id] = {} /\ outcome[id] = "none"
  /\ \A id \in revoked : id <= lastId

\* While a prompt is installed its status tells which replies were accepted.
DecidedMatches ==
  outstanding =>
    /\ status = "Waiting" => decided[prompt.id] = {}
    /\ status = "Replied" => decided[prompt.id] = {Answer}
    /\ prompt.id \in revoked => status = "Interrupted"

\* An attempt that was closed is over, and accepts nothing.
ClosedForGood ==
  /\ \A g \in closed : g <= generation
  /\ accepting => generation \notin closed

PromptInv ==
  /\ TypeOK
  /\ Installed /\ FutureBlank /\ DecidedMatches /\ ClosedForGood
  /\ DecisionGenuine /\ CancellationWins /\ SecretsTransient /\ NoMissedWake

USE DEF Ids, Kinds, Reasons, Decisions, Prompt

LEMMA InitHolds == Init => PromptInv
<1> SUFFICES ASSUME Init PROVE PromptInv
  OBVIOUS
<1> USE DEF Init
<1>1. TypeOK
  <2>1. NoPrompt \in Prompt
    BY DEF NoPrompt
  <2>2. /\ decided \in [Ids -> SUBSET Decisions]
        /\ outcome \in [Ids -> {"none", "abandoned"} \cup Decisions \cup Reasons]
    OBVIOUS
  <2>3. lastId \in 0 .. MaxId /\ revoked \subseteq Ids /\ closed \subseteq Nat
    OBVIOUS
  <2> HIDE DEF Ids, Decisions, Prompt
  <2> QED BY <2>1, <2>2, <2>3 DEF TypeOK
<1>2. Installed BY DEF Installed
<1>3. FutureBlank BY DEF FutureBlank
<1>4. DecidedMatches /\ ClosedForGood BY DEF DecidedMatches, ClosedForGood
<1>5. DecisionGenuine /\ CancellationWins BY DEF DecisionGenuine, CancellationWins
<1>6. SecretsTransient /\ NoMissedWake BY DEF SecretsTransient, NoMissedWake
<1> QED BY <1>1, <1>2, <1>3, <1>4, <1>5, <1>6 DEF PromptInv

\* Steps that only deliver, wake or let time pass.
LEMMA QuietKeeps ==
  ASSUME PromptInv,
         UNCHANGED <<accepting, outstanding, generation, lastId, prompt, status, reason,
                     allowed, secret, decided, revoked, closed, outcome>>,
         delivered' \in BOOLEAN, expired' \in BOOLEAN, woken' \in BOOLEAN,
         worker' \in {"idle", "notifying", "parked"},
         worker' = "idle" <=> worker = "idle",
         worker' = "parked" /\ status # "Waiting" => woken'
  PROVE  PromptInv'
<1> USE DEF PromptInv
<1>1. TypeOK' BY DEF TypeOK
<1>2. Installed' BY DEF Installed
<1>3. FutureBlank' BY DEF FutureBlank
<1>4. DecidedMatches' BY DEF DecidedMatches, Answer
<1>5. ClosedForGood' BY DEF ClosedForGood
<1>6. DecisionGenuine' /\ CancellationWins' BY DEF DecisionGenuine, CancellationWins
<1>7. SecretsTransient' /\ NoMissedWake' BY DEF SecretsTransient, NoMissedWake
<1> QED BY <1>1, <1>2, <1>3, <1>4, <1>5, <1>6, <1>7

LEMMA BeginAttemptKeeps ==
  ASSUME PromptInv, NEW g \in Nat, BeginAttempt(g) PROVE PromptInv'
<1> USE DEF PromptInv, BeginAttempt, history
<1>1. TypeOK' BY DEF TypeOK
<1>2. Installed' BY DEF TypeOK, Installed
<1>3. FutureBlank' BY DEF TypeOK, FutureBlank
<1>4. DecidedMatches' BY DEF TypeOK, DecidedMatches
<1>5. ClosedForGood' BY DEF TypeOK, ClosedForGood
<1>6. DecisionGenuine' /\ CancellationWins'
  BY DEF TypeOK, DecisionGenuine, CancellationWins
<1>7. SecretsTransient' /\ NoMissedWake'
  BY DEF TypeOK, SecretsTransient, NoMissedWake
<1> QED BY <1>1, <1>2, <1>3, <1>4, <1>5, <1>6, <1>7

\* cancel(), cancelPending() and the deadline noticed by a host.
LEMMA InterruptKeeps ==
  ASSUME PromptInv, NEW why \in Reasons, Interrupt(why),
         UNCHANGED <<outstanding, delivered, generation, lastId, prompt, allowed,
                     expired, worker, decided, outcome>>
  PROVE  PromptInv'
<1> USE DEF PromptInv, Interrupt, Interrupted, NotifyAll
<1>1. TypeOK' BY DEF TypeOK, Installed
<1>2. Installed' BY DEF TypeOK, Installed
<1>3. FutureBlank' BY DEF TypeOK, FutureBlank, Installed
<1>4. DecidedMatches' BY DEF TypeOK, DecidedMatches
<1>5. ClosedForGood' BY DEF TypeOK, ClosedForGood
<1>6. DecisionGenuine' BY DEF TypeOK, DecisionGenuine
<1>7. CancellationWins' BY DEF TypeOK, CancellationWins, Installed
<1>8. SecretsTransient' /\ NoMissedWake'
  BY DEF TypeOK, SecretsTransient, NoMissedWake
<1> QED BY <1>1, <1>2, <1>3, <1>4, <1>5, <1>6, <1>7, <1>8

LEMMA TakeRequestKeeps ==
  ASSUME PromptInv, TakeRequest PROVE PromptInv'
<1>1. CASE Expire
  BY <1>1, InterruptKeeps DEF Expire
<1>2. CASE ~Expire
  <2>1. /\ delivered' = TRUE
        /\ UNCHANGED <<accepting, outstanding, generation, lastId, prompt, status, reason,
                       allowed, secret, expired, worker, woken, decided, revoked, closed,
                       outcome>>
    BY <1>2 DEF TakeRequest, history
  <2> QED BY <2>1, QuietKeeps DEF PromptInv, TypeOK, NoMissedWake
<1> QED BY <1>1, <1>2

\* A reply that is accepted, for credentials or for trust.
LEMMA ReplyKeeps ==
  ASSUME PromptInv, NEW id \in Ids, NEW g, NEW decision \in Decisions,
         Matches(id, g), Accept(id, decision),
         allowed' \in BOOLEAN, secret' \in BOOLEAN,
         decision = Answer',
         prompt.restricted => decision # "allow",
         secret' => prompt.kind = "Credentials"
  PROVE  PromptInv'
<1> USE DEF PromptInv, Matches, Accept, NotifyAll
<1>1. TypeOK' BY DEF TypeOK
<1>2. Installed' BY DEF TypeOK, Installed
<1>3. FutureBlank' BY DEF TypeOK, FutureBlank, Installed
<1>4. DecidedMatches'
  <2>1. decided'[prompt.id] = {decision}
    BY DEF TypeOK, DecidedMatches, Installed
  <2>2. prompt.id \notin revoked
    BY DEF TypeOK, DecidedMatches
  <2> QED BY <2>1, <2>2 DEF TypeOK, DecidedMatches
<1>5. ClosedForGood' BY DEF TypeOK, ClosedForGood
<1>6. DecisionGenuine'
  BY DEF TypeOK, DecisionGenuine, Installed, DecidedMatches
<1>7. CancellationWins' BY DEF TypeOK, CancellationWins
<1>8. SecretsTransient' BY DEF TypeOK, SecretsTransient, Installed
<1>9. NoMissedWake' BY DEF TypeOK, NoMissedWake
<1> QED BY <1>1, <1>2, <1>3, <1>4, <1>5, <1>6, <1>7, <1>8, <1>9

LEMMA ReplyCredentialsKeeps ==
  ASSUME PromptInv, NEW id \in Ids, NEW g, NEW b \in BOOLEAN, ReplyCredentials(id, g, b)
  PROVE  PromptInv'
<1>1. CASE Expire
  BY <1>1, InterruptKeeps DEF Expire
<1>2. CASE ~Expire
  <2>1. Matches(id, g) /\ Accept(id, "credentials") /\ secret' = TRUE
        /\ allowed' = allowed /\ prompt.kind = "Credentials"
    BY <1>2 DEF ReplyCredentials
  <2>2. "credentials" = Answer'
    BY <2>1 DEF Answer, Accept
  <2> QED BY <2>1, <2>2, ReplyKeeps DEF PromptInv, TypeOK
<1> QED BY <1>1, <1>2

LEMMA ReplyTrustKeeps ==
  ASSUME PromptInv, NEW id \in Ids, NEW g, NEW b \in BOOLEAN, ReplyTrust(id, g, b)
  PROVE  PromptInv'
<1>1. CASE Expire
  BY <1>1, InterruptKeeps DEF Expire
<1>2. CASE ~Expire
  <2> DEFINE d == IF b THEN "allow" ELSE "deny"
  <2>1. Matches(id, g) /\ Accept(id, d) /\ secret' = secret
        /\ allowed' = b /\ prompt.kind # "Credentials" /\ (b => ~prompt.restricted)
    BY <1>2 DEF ReplyTrust, MayAllow
  <2>2. d = Answer' /\ d \in Decisions
    BY <2>1 DEF Answer, Accept
  <2>3. ~secret
    BY <2>1 DEF PromptInv, SecretsTransient, Matches
  <2> HIDE DEF d
  <2>4. prompt.restricted => d # "allow"
    BY <2>1 DEF d
  <2> QED BY <2>1, <2>2, <2>3, <2>4, ReplyKeeps DEF PromptInv, TypeOK
<1> QED BY <1>1, <1>2

LEMMA RequestKeeps ==
  ASSUME PromptInv, NEW kind \in Kinds, NEW restricted \in BOOLEAN, Request(kind, restricted)
  PROVE  PromptInv'
<1> USE DEF PromptInv, Request, MayAsk, history
<1>1. TypeOK'
  <2>1. lastId + 1 \in 0 .. MaxId /\ lastId + 1 \in Nat
    BY DEF TypeOK
  <2>2. prompt' \in Prompt
    BY <2>1 DEF TypeOK
  <2> HIDE DEF Ids, Decisions, Prompt, Reasons
  <2> QED BY <2>1, <2>2 DEF TypeOK
<1>2. Installed' BY DEF TypeOK, Installed, FutureBlank
<1>3. FutureBlank' BY DEF TypeOK, FutureBlank
<1>4. DecidedMatches' BY DEF TypeOK, DecidedMatches, FutureBlank
<1>5. ClosedForGood' BY DEF TypeOK, ClosedForGood
<1>6. DecisionGenuine' BY DEF TypeOK, DecisionGenuine, FutureBlank
<1>7. CancellationWins' BY DEF TypeOK, CancellationWins
<1>8. SecretsTransient' /\ NoMissedWake'
  BY DEF TypeOK, SecretsTransient, NoMissedWake
<1> QED BY <1>1, <1>2, <1>3, <1>4, <1>5, <1>6, <1>7, <1>8

\* Leaving request(), by whatever way: the prompt gets its outcome.
LEMMA LeaveKeeps ==
  ASSUME PromptInv, outstanding, Finish, worker' = "idle",
         NEW o \in {"abandoned"} \cup Decisions \cup Reasons,
         outcome' = [outcome EXCEPT ![prompt.id] = o],
         o \in Decisions => status = "Replied" /\ o = Answer,
         accepting' \in BOOLEAN, woken' \in BOOLEAN, reason' \in Reasons,
         status' \in {"Waiting", "Replied", "Interrupted"},
         revoked' = revoked \/ (revoked' = revoked \cup {prompt.id} /\ o \notin Decisions),
         closed' = closed \/ closed' = closed \cup {generation},
         accepting' => accepting /\ closed' = closed,
         UNCHANGED <<generation, lastId, allowed, expired, decided>>
  PROVE  PromptInv'
<1> USE DEF PromptInv, Finish
<1>0. prompt.id \in Ids /\ prompt.id = lastId
  BY DEF Installed
<1>1. TypeOK' BY <1>0 DEF TypeOK, NoPrompt
<1>2. Installed' BY DEF TypeOK, Installed
<1>3. FutureBlank'
  <2>1. \A id \in Ids : id > lastId => outcome'[id] = outcome[id]
    BY <1>0 DEF TypeOK
  <2>2. \A id \in revoked' : id <= lastId
    <3>1. (\A id \in revoked : id <= lastId) /\ prompt.id <= lastId
      BY <1>0 DEF TypeOK, FutureBlank
    <3>2. \A id \in revoked' : id \in revoked \/ id = prompt.id
      OBVIOUS
    <3> QED BY <3>1, <3>2
  <2> QED BY <2>1, <2>2 DEF FutureBlank
<1>4. DecidedMatches' BY DEF DecidedMatches
<1>5. ClosedForGood'
  <2>1. CASE closed' = closed
    BY <2>1 DEF ClosedForGood
  <2>2. CASE closed' # closed
    <3>1. closed' = closed \cup {generation} /\ ~accepting'
      BY <2>2
    <3> QED BY <3>1 DEF ClosedForGood, TypeOK
  <2> QED BY <2>1, <2>2
<1>6. DecisionGenuine'
  <2>1. \A id \in Ids : outcome'[id] = IF id = prompt.id THEN o ELSE outcome[id]
    BY <1>0 DEF TypeOK
  <2>2. o \in Decisions => decided[prompt.id] = {o}
    BY DEF DecidedMatches
  <2> QED BY <2>1, <2>2 DEF DecisionGenuine
<1>7. CancellationWins'
  <2>1. \A id \in Ids : outcome'[id] = IF id = prompt.id THEN o ELSE outcome[id]
    BY <1>0 DEF TypeOK
  <2>2. prompt.id \in revoked' => o \in {"none", "abandoned"} \cup Reasons
    BY DEF DecidedMatches
  <2>3. revoked' \subseteq Ids
    BY <1>1 DEF TypeOK
  <2> QED BY <2>1, <2>2, <2>3 DEF CancellationWins
<1>8. SecretsTransient' /\ NoMissedWake'
  BY DEF TypeOK, SecretsTransient, NoMissedWake
<1> QED BY <1>1, <1>2, <1>3, <1>4, <1>5, <1>6, <1>7, <1>8

LEMMA NotifyThrowsKeeps ==
  ASSUME PromptInv, NotifyThrows PROVE PromptInv'
<1>1. outstanding
  BY DEF NotifyThrows, PromptInv, Installed
<1> QED BY <1>1, LeaveKeeps DEF NotifyThrows, PromptInv, TypeOK

LEMMA ResumeKeeps ==
  ASSUME PromptInv, worker # "idle", Resume PROVE PromptInv'
<1>1. outstanding
  BY DEF PromptInv, Installed
<1>2. CASE status = "Waiting"
  <2>1. /\ worker' = "parked" /\ woken' = FALSE
        /\ UNCHANGED <<accepting, outstanding, delivered, generation, lastId, prompt, status,
                       reason, allowed, secret, expired, decided, revoked, closed, outcome>>
    BY <1>2 DEF Resume, bridge, history
  <2> QED BY <1>2, <2>1, QuietKeeps DEF PromptInv, TypeOK
<1>3. CASE status # "Waiting"
  <2> DEFINE o == IF status = "Interrupted" THEN reason ELSE Answer
  <2>1. outcome' = [outcome EXCEPT ![prompt.id] = o] /\ worker' = "idle" /\ Finish
    BY <1>3 DEF Resume, Answer
  <2>2. o \in {"abandoned"} \cup Decisions \cup Reasons
        /\ (o \in Decisions => status = "Replied" /\ o = Answer)
    BY <1>3 DEF PromptInv, TypeOK, Answer
  <2>3. /\ woken' = FALSE
        /\ UNCHANGED <<accepting, generation, lastId, status, reason, allowed, expired,
                       decided, revoked, closed>>
    BY <1>3 DEF Resume
  <2>4. /\ accepting' \in BOOLEAN /\ woken' \in BOOLEAN /\ reason' \in Reasons
        /\ status' \in {"Waiting", "Replied", "Interrupted"}
    BY <2>3 DEF PromptInv, TypeOK
  <2> HIDE DEF o
  <2> QED BY <1>1, <2>1, <2>2, <2>3, <2>4, LeaveKeeps
<1> QED BY <1>2, <1>3

LEMMA WaitTimesOutKeeps ==
  ASSUME PromptInv, WaitTimesOut PROVE PromptInv'
<1>1. outstanding
  BY DEF WaitTimesOut, PromptInv, Installed
<1> QED BY <1>1, LeaveKeeps DEF WaitTimesOut, PromptInv, TypeOK

\* Every step of every thread keeps the invariant.
LEMMA NextKeeps == PromptInv /\ [Next]_vars => PromptInv'
<1> SUFFICES ASSUME PromptInv, [Next]_vars PROVE PromptInv'
  OBVIOUS
<1>1. ASSUME NEW g \in 1 .. MaxGeneration, BeginAttempt(g) PROVE PromptInv'
  BY <1>1, BeginAttemptKeeps
<1>2. ASSUME NEW why \in {"Cancelled", "PeerClosed"}, Cancel(why) PROVE PromptInv'
  BY <1>2, InterruptKeeps DEF Cancel
<1>3. CASE TakeRequest
  BY <1>3, TakeRequestKeeps
<1>4. ASSUME NEW id \in Ids, NEW g \in 1 .. MaxGeneration, NEW b \in BOOLEAN,
             ReplyCredentials(id, g, b) \/ ReplyTrust(id, g, b)
      PROVE  PromptInv'
  BY <1>4, ReplyCredentialsKeeps, ReplyTrustKeeps
<1>5. ASSUME NEW kind \in Kinds, NEW restricted \in BOOLEAN, Request(kind, restricted)
      PROVE  PromptInv'
  BY <1>5, RequestKeeps
<1>6. CASE NotifyThrows
  BY <1>6, NotifyThrowsKeeps
<1>7. CASE NotifyReturns \/ Wakes
  BY <1>7, ResumeKeeps DEF NotifyReturns, Wakes
<1>8. CASE WaitTimesOut
  BY <1>8, WaitTimesOutKeeps
<1>9. CASE DeadlinePasses \/ UNCHANGED vars
  <2>1. /\ expired' \in BOOLEAN
        /\ UNCHANGED <<accepting, outstanding, delivered, generation, lastId, prompt, status,
                       reason, allowed, secret, worker, woken, decided, revoked, closed, outcome>>
    BY <1>9 DEF DeadlinePasses, vars, bridge, history, PromptInv, TypeOK
  <2> QED BY <2>1, QuietKeeps DEF PromptInv, TypeOK, NoMissedWake
<1> QED
  BY <1>1, <1>2, <1>3, <1>4, <1>5, <1>6, <1>7, <1>8, <1>9
  DEF Next, Owner, Host, Worker, WorkerReturns, CancelAttempt

----------------------------------------------------------------------------
(* The theorems *)

\* The bridge satisfies its invariant in every state, whatever the interleaving
\* of the worker, the hosts, cancellations and the clock.
THEOREM PromptInvariant == Spec => []PromptInv
<1> QED BY InitHolds, NextKeeps, PTL DEF Spec

\* The protocol acts only on the one genuine decision for a prompt, and never on
\* an approval the policy forbids (check(), replyTrust(), request()).
THEOREM DecisionsAreGenuine == Spec => []DecisionGenuine
<1>1. PromptInv => DecisionGenuine
  BY DEF PromptInv
<1> QED BY <1>1, PromptInvariant, PTL

\* An accepted reply that was not consumed loses against an interruption (interrupt()).
THEOREM CancellationAlwaysWins == Spec => []CancellationWins
<1>1. PromptInv => CancellationWins
  BY DEF PromptInv
<1> QED BY <1>1, PromptInvariant, PTL

\* Secrets do not outlive the request they answer (interrupt(), finish()).
THEOREM SecretsAreTransient == Spec => []SecretsTransient
<1>1. PromptInv => SecretsTransient
  BY DEF PromptInv
<1> QED BY <1>1, PromptInvariant, PTL

\* No reply and no cancellation leaves the worker asleep (request(), notify_all()).
THEOREM WakeNeverMissed == Spec => []NoMissedWake
<1>1. PromptInv => NoMissedWake
  BY DEF PromptInv
<1> QED BY <1>1, PromptInvariant, PTL

\* An interrupted attempt asks nothing more (interrupt(), request()).
THEOREM InterruptedAttemptStaysClosed == Spec => InterruptedStaysClosed
<1>1. PromptInv /\ [Next]_vars => [lastId' # lastId => generation \notin closed]_vars
  <2> SUFFICES ASSUME PromptInv, Next, lastId' # lastId PROVE generation \notin closed
    OBVIOUS
  <2>1. PICK kind \in Kinds, restricted \in BOOLEAN : Request(kind, restricted)
    BY DEF Next, Owner, Host, Worker, WorkerReturns, BeginAttempt, Cancel, CancelAttempt,
       TakeRequest, Expire, ReplyCredentials, ReplyTrust, Accept, NotifyThrows, NotifyReturns,
       Wakes, Resume, WaitTimesOut, DeadlinePasses, bridge
  <2> QED BY <2>1 DEF Request, MayAsk, PromptInv, ClosedForGood
<1> QED BY <1>1, PromptInvariant, PTL DEF Spec, InterruptedStaysClosed
=============================================================================

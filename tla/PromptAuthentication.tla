------------------------ MODULE PromptAuthentication ------------------------
(***************************************************************************)
(* The prompt bridge of a session (PromptAuthentication.cxx): one protocol *)
(* worker parks in request() until a host thread answers, any thread       *)
(* cancels, or the prompt's deadline passes.                               *)
(*                                                                         *)
(* Methods run under the bridge mutex and are atomic, except request(),    *)
(* which releases it around notify() and while it waits on the condition   *)
(* variable; worker is its program counter.  A refused reply changes       *)
(* nothing and is a stuttering step, unless the refusal is Expired.        *)
(***************************************************************************)
EXTENDS Integers, FiniteSets

CONSTANTS
  MaxId,        \* last prompt id (2^64 - 1 in the code)
  MaxGeneration \* bound on connection attempts

ASSUME PromptBounds == MaxId \in Nat \ {0} /\ MaxGeneration \in Nat \ {0}

VARIABLES
  accepting,    \* the current attempt still admits prompts
  outstanding,  \* a prompt is installed
  delivered,    \* takeRequest() handed the prompt to the host
  generation, lastId,
  prompt,       \* the installed prompt
  status,       \* "Waiting", "Replied" or "Interrupted"
  reason,       \* why the last interruption happened
  allowed,      \* last trust decision
  secret,       \* username/password hold a reply
  expired,      \* the clock has passed the prompt's deadline
  worker,       \* "idle", "notifying" (unlocked in notify()), "parked"
  woken,        \* notify_all() reached the parked worker
  decided,      \* history: the reply that was accepted for each prompt
  revoked,      \* history: prompts interrupted before they were consumed
  closed,       \* history: attempts that were interrupted
  outcome       \* history: what request() returned or threw, per prompt

bridge == <<accepting, outstanding, delivered, generation, lastId, prompt,
            status, reason, allowed, secret>>
history == <<decided, revoked, closed, outcome>>
vars == <<bridge, expired, worker, woken, history>>

Ids == 1 .. MaxId
Kinds == {"Credentials", "Certificate", "HostKey"}
Reasons == {"Cancelled", "PeerClosed", "TimedOut"}
Decisions == {"credentials", "allow", "deny"}

\* restricted: a user name is required, the certificate policy forbids an
\* override, or the host key's encoding is not valid.
Prompt == [id : Nat, generation : Nat, kind : Kinds, restricted : BOOLEAN]
NoPrompt == [id |-> 0, generation |-> 0, kind |-> "Credentials", restricted |-> FALSE]

----------------------------------------------------------------------------
(* Helpers of PromptAuthentication::Impl *)

\* Mutant: the parked worker is not told.
NotifyAll_Lost == UNCHANGED woken

\* changed.notify_all(): heard only by a parked worker.
NotifyAll == woken' = (woken \/ worker = "parked")

Interrupted(why, open, state, kept) ==
  /\ accepting' = open
  /\ reason' = why
  /\ status' = state
  /\ secret' = kept
  /\ NotifyAll
  /\ revoked' = IF outstanding THEN revoked \cup {prompt.id} ELSE revoked
  /\ closed' = closed \cup {generation}

\* Mutant: an accepted reply wins over a later cancellation.
Interrupt_ReplyWins(why) ==
  Interrupted(why, FALSE, IF status = "Replied" THEN status ELSE "Interrupted", FALSE)

\* Mutant: the attempt goes on accepting prompts.
Interrupt_StillAccepting(why) == Interrupted(why, accepting, "Interrupted", FALSE)

\* interrupt(): closes the attempt, discards an unconsumed reply, wakes.
Interrupt(why) == Interrupted(why, FALSE, "Interrupted", FALSE)

\* finish(): request() leaves nothing of the prompt behind.
Finish ==
  /\ secret' = FALSE
  /\ prompt' = NoPrompt
  /\ outstanding' = FALSE
  /\ delivered' = FALSE

----------------------------------------------------------------------------
(* Owner: attempts and cancellation *)

\* beginAttempt() throws while a prompt is outstanding or does not advance.
BeginAttempt(g) ==
  /\ ~outstanding
  /\ g > generation
  /\ generation' = g
  /\ accepting' = TRUE
  /\ UNCHANGED <<outstanding, delivered, lastId, prompt, status, reason, allowed,
                 secret, expired, worker, woken, history>>

\* cancel() and cancelPending(): "Cancellation wins if an accepted reply has
\* not yet been consumed."
Cancel(why) ==
  /\ Interrupt(why)
  /\ UNCHANGED <<outstanding, delivered, generation, lastId, prompt, allowed,
                 expired, worker, decided, outcome>>

\* cancelAttempt(): a delayed cancellation of an earlier attempt is ignored.
CancelAttempt(g, why) ==
  /\ g = generation
  /\ Cancel(why)

----------------------------------------------------------------------------
(* Host: taking the request and answering it *)

\* The side effect shared by takeRequest() and check(): a host that comes too
\* late is what notices the deadline.
Expire ==
  /\ expired
  /\ Interrupt("TimedOut")
  /\ UNCHANGED <<outstanding, delivered, generation, lastId, prompt, allowed,
                 expired, worker, decided, outcome>>

TakeRequest ==
  /\ outstanding /\ ~delivered /\ status = "Waiting"
  /\ \/ Expire
     \/ /\ ~expired
        /\ delivered' = TRUE
        /\ UNCHANGED <<accepting, outstanding, generation, lastId, prompt, status,
                       reason, allowed, secret, expired, worker, woken, history>>

\* Mutant: a reply for an earlier prompt is taken for the current one.
Matches_AnyId(id, g) == outstanding /\ status = "Waiting" /\ g = prompt.generation

\* check(), up to the deadline test.
Matches(id, g) ==
  /\ outstanding /\ status = "Waiting"
  /\ id = prompt.id /\ g = prompt.generation

Accept(id, decision) ==
  /\ status' = "Replied"
  /\ NotifyAll
  /\ decided' = [decided EXCEPT ![id] = @ \cup {decision}]
  /\ UNCHANGED <<accepting, outstanding, delivered, generation, lastId, prompt,
                 reason, expired, worker, revoked, closed, outcome>>

\* replyCredentials(); passwordOnly and oversized replies are refused.
ReplyCredentials(id, g, passwordOnly) ==
  /\ Matches(id, g)
  /\ \/ Expire
     \/ /\ ~expired
        /\ prompt.kind = "Credentials"
        /\ ~(passwordOnly /\ prompt.restricted)
        /\ secret' = TRUE
        /\ UNCHANGED allowed
        /\ Accept(id, "credentials")

\* certificatePolicy().mayOverride, validRSAKeyEncoding().
MayAllow == ~prompt.restricted

\* replyTrust(): approving what policy forbids leaves the request pending.
ReplyTrust(id, g, allow) ==
  /\ Matches(id, g)
  /\ \/ Expire
     \/ /\ ~expired
        /\ prompt.kind # "Credentials"
        /\ allow => MayAllow
        /\ allowed' = allow
        /\ UNCHANGED secret
        /\ Accept(id, IF allow THEN "allow" ELSE "deny")

----------------------------------------------------------------------------
(* Worker: request() *)

MayAsk == accepting /\ ~outstanding /\ lastId < MaxId

\* Installs the prompt, then releases the mutex to call notify().
Request(kind, restricted) ==
  /\ worker = "idle"
  /\ MayAsk
  /\ lastId' = lastId + 1
  /\ prompt' = [id |-> lastId + 1, generation |-> generation, kind |-> kind,
                restricted |-> restricted]
  /\ status' = "Waiting"
  /\ outstanding' = TRUE
  /\ delivered' = FALSE
  /\ expired' = FALSE
  /\ worker' = "notifying"
  /\ woken' = FALSE
  /\ UNCHANGED <<accepting, generation, reason, allowed, secret, history>>

\* notify() threw: the bridge is closed for this attempt.
NotifyThrows ==
  /\ worker = "notifying"
  /\ Finish
  /\ accepting' = FALSE
  /\ worker' = "idle"
  /\ outcome' = [outcome EXCEPT ![prompt.id] = "abandoned"]
  /\ closed' = closed \cup {generation}
  /\ UNCHANGED <<generation, lastId, status, reason, allowed, expired, woken,
                 decided, revoked>>

\* The mutex is held again after notify() or a wake-up: leave or wait on.
Resume ==
  /\ woken' = FALSE
  /\ \/ /\ status = "Waiting"
        /\ worker' = "parked"
        /\ UNCHANGED <<bridge, expired, history>>
     \/ /\ status # "Waiting"
        /\ Finish
        /\ worker' = "idle"
        /\ outcome' = [outcome EXCEPT ![prompt.id] =
             IF status = "Interrupted" THEN reason
             ELSE IF prompt.kind = "Credentials" THEN "credentials"
             ELSE IF allowed THEN "allow" ELSE "deny"]
        /\ UNCHANGED <<accepting, generation, lastId, status, reason, allowed,
                       expired, decided, revoked, closed>>

NotifyReturns == worker = "notifying" /\ Resume

\* wait_until() returned because of notify_all(); a spurious return waits on.
Wakes == worker = "parked" /\ woken /\ Resume

\* Mutant: a timed-out wait goes round the loop again.
WaitTimesOut_Loops ==
  /\ worker = "parked"
  /\ expired
  /\ status = "Waiting"
  /\ woken
  /\ woken' = FALSE
  /\ UNCHANGED <<bridge, expired, worker, history>>

\* wait_until() timed out and nobody answered meanwhile.
WaitTimesOut ==
  /\ worker = "parked"
  /\ expired
  /\ status = "Waiting"
  /\ accepting' = FALSE
  /\ reason' = "TimedOut"
  /\ status' = "Interrupted"
  /\ Finish
  /\ worker' = "idle"
  /\ woken' = FALSE
  /\ outcome' = [outcome EXCEPT ![prompt.id] = "TimedOut"]
  /\ revoked' = revoked \cup {prompt.id}
  /\ closed' = closed \cup {generation}
  /\ UNCHANGED <<generation, lastId, allowed, expired, decided>>

\* The steady clock passes the deadline of the installed prompt.
DeadlinePasses ==
  /\ outstanding /\ ~expired
  /\ expired' = TRUE
  /\ UNCHANGED <<bridge, worker, woken, history>>

----------------------------------------------------------------------------
Init ==
  /\ accepting = FALSE /\ outstanding = FALSE /\ delivered = FALSE
  /\ generation = 0 /\ lastId = 0
  /\ prompt = NoPrompt
  /\ status = "Waiting" /\ reason = "Cancelled"
  /\ allowed = FALSE /\ secret = FALSE /\ expired = FALSE
  /\ worker = "idle" /\ woken = FALSE
  /\ decided = [id \in Ids |-> {}]
  /\ revoked = {} /\ closed = {}
  /\ outcome = [id \in Ids |-> "none"]

Owner ==
  \/ \E g \in 1 .. MaxGeneration : BeginAttempt(g)
  \/ \E why \in {"Cancelled", "PeerClosed"} :
       Cancel(why) \/ \E g \in 1 .. MaxGeneration : CancelAttempt(g, why)

Host ==
  \/ TakeRequest
  \/ \E id \in Ids, g \in 1 .. MaxGeneration, b \in BOOLEAN :
       ReplyCredentials(id, g, b) \/ ReplyTrust(id, g, b)

\* The worker's way out of request(), once it is inside.
WorkerReturns == NotifyReturns \/ Wakes \/ WaitTimesOut

Worker ==
  \/ \E kind \in Kinds, restricted \in BOOLEAN : Request(kind, restricted)
  \/ NotifyThrows
  \/ WorkerReturns

Next == Owner \/ Host \/ Worker \/ DeadlinePasses

Spec == Init /\ [][Next]_vars

\* notify() returns promptly (its contract), time passes, threads run.
FairSpec == Spec /\ WF_vars(WorkerReturns) /\ WF_vars(DeadlinePasses)

----------------------------------------------------------------------------
(* Properties *)

\* Types of the bridge.
TypeOK ==
  /\ accepting \in BOOLEAN /\ outstanding \in BOOLEAN /\ delivered \in BOOLEAN
  /\ generation \in Nat /\ lastId \in 0 .. MaxId
  /\ prompt \in Prompt
  /\ status \in {"Waiting", "Replied", "Interrupted"}
  /\ reason \in Reasons
  /\ allowed \in BOOLEAN /\ secret \in BOOLEAN /\ expired \in BOOLEAN
  /\ worker \in {"idle", "notifying", "parked"} /\ woken \in BOOLEAN
  /\ decided \in [Ids -> SUBSET Decisions]
  /\ revoked \subseteq Ids /\ closed \subseteq Nat
  /\ outcome \in [Ids -> {"none", "abandoned"} \cup Decisions \cup Reasons]

\* The protocol only acts on a decision that a reply to this very prompt made,
\* the only one accepted for it, and never on an approval that policy forbids
\* (check(), replyTrust(), request()).
DecisionGenuine ==
  /\ \A id \in Ids : outcome[id] \in Decisions => decided[id] = {outcome[id]}
  /\ outstanding /\ prompt.restricted => "allow" \notin decided[prompt.id]

\* A reply that was accepted but not yet consumed loses against a cancellation,
\* a peer closure or a timeout (interrupt()).
CancellationWins ==
  \A id \in revoked : outcome[id] \in {"none", "abandoned"} \cup Reasons

\* Secrets are in memory only between an accepted reply and the end of
\* request(), also on every error path (interrupt(), finish()).
SecretsTransient ==
  secret => /\ outstanding /\ status = "Replied" /\ prompt.kind = "Credentials"
            /\ worker # "idle"

\* The worker is never left waiting for the deadline by a reply or by a
\* cancellation that happened before or while it was going to sleep.
NoMissedWake == worker = "parked" /\ status # "Waiting" => woken

\* An interrupted attempt asks nothing more; only the next one does.
InterruptedStaysClosed ==
  [][lastId' # lastId => generation \notin closed]_vars

\* request() always comes back: a prompt nobody answers ends at its deadline.
RequestReturns == (worker # "idle") ~> (worker = "idle")
=============================================================================

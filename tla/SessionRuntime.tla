--------------------------- MODULE SessionRuntime ---------------------------
(***************************************************************************)
(* The service that owns the worker threads of all sessions                *)
(* (SessionRuntime in SessionWorker.cxx; ListenerRuntime in                *)
(* ListenerWorker.cxx has the same code for listeners).                    *)
(*                                                                         *)
(* One mutex guards the list of jobs, so every critical section is one     *)
(* action.  What happens between two of them is a program counter: a job   *)
(* thread marks itself finished and only then notifies; the coordinator    *)
(* takes a finished job off the list, joins its thread, gives its slot     *)
(* back and only then completes the drain future; shutdown() cancels the   *)
(* jobs it copied after unlocking.  What a session does inside run() is    *)
(* the subject of SessionWorker: here it may return at any time, and does  *)
(* so once cancelled.                                                      *)
(***************************************************************************)
EXTENDS Integers, Sequences, FiniteSets, SequencesExt

CONSTANTS
  Jobs,            \* sessions that may be admitted, each at most once
  RuntimeCapacity  \* capacity of the runtime, 1..64 in the code

ASSUME RuntimeAssumption == RuntimeCapacity \in 1 .. 64

VARIABLES
  runtime,      \* what the mutex guards
  job,          \* per session: its thread and its shared state
  coordinator,  \* the reaping thread
  shutdown      \* the call of shutdown() in progress

runtimeVars == <<runtime, job, coordinator, shutdown>>

Threads == {"none", "running", "marked", "exited"}
RuntimeTypeOK ==
  /\ runtime \in [jobs : Seq(Jobs), admitted : Nat, stopping : BOOLEAN]
  /\ job \in [Jobs -> [thread : Threads, finished : BOOLEAN, cancelled : BOOLEAN,
                       results : Nat]]
  /\ coordinator.at \in {"scan", "asleep", "join", "release", "settle", "done"}
  /\ shutdown.at \in {"idle", "cancel", "notify", "ended"}

NoJob == [thread |-> "none", finished |-> FALSE, cancelled |-> FALSE, results |-> 0]

RuntimeInit ==
  /\ runtime = [jobs |-> <<>>, admitted |-> 0, stopping |-> FALSE]
  /\ job = [j \in Jobs |-> NoJob]
  /\ coordinator = [at |-> "scan", retired |-> <<>>]
  /\ shutdown = [at |-> "idle", active |-> <<>>]

----------------------------------------------------------------------------
(* Admission, on a caller's thread. *)

Refused == runtime.stopping \/ runtime.admitted = RuntimeCapacity

\* admit(): the thread starts under the mutex, so it cannot mark itself first.
Admit(j) ==
  /\ job[j].thread = "none" /\ ~Refused
  /\ runtime' = [runtime EXCEPT !.jobs = Append(@, j), !.admitted = @ + 1]
  /\ job' = [job EXCEPT ![j].thread = "running"]
  /\ UNCHANGED <<coordinator, shutdown>>

----------------------------------------------------------------------------
(* A job's thread: run(), then finished under the mutex, then notify_one(). *)

\* Only the coordinator waits, so a notification wakes it or nobody.
Woken(c) == IF c.at = "asleep" THEN [c EXCEPT !.at = "scan"] ELSE c

\* run() returns and the job marks itself under the mutex.
Finish(j) ==
  /\ job[j].thread = "running"
  /\ job' = [job EXCEPT ![j].thread = "marked", ![j].finished = TRUE]
  /\ UNCHANGED <<runtime, coordinator, shutdown>>

NotifyFinished(j) ==
  /\ job[j].thread = "marked"
  /\ job' = [job EXCEPT ![j].thread = "exited"]
  /\ coordinator' = Woken(coordinator)
  /\ UNCHANGED <<runtime, shutdown>>

----------------------------------------------------------------------------
(* reap(). *)

\* The position of the first finished job, 0 if there is none.
Ready == SelectInSeq(runtime.jobs, LAMBDA j : job[j].finished)

MayLeave_Early == runtime.stopping  \* mutant: admitted jobs are not waited for
MayLeave == runtime.stopping /\ runtime.admitted = 0

\* The first finished job leaves the list; or the loop ends; or it waits.
Scan ==
  /\ coordinator.at = "scan"
  /\ IF Ready # 0
     THEN /\ runtime' = [runtime EXCEPT !.jobs = RemoveAt(@, Ready)]
          /\ coordinator' = [at |-> "join", retired |-> <<runtime.jobs[Ready]>>]
     ELSE /\ coordinator' = [coordinator EXCEPT !.at = IF MayLeave THEN "done" ELSE "asleep"]
          /\ UNCHANGED runtime
  /\ UNCHANGED <<job, shutdown>>

Spurious ==  \* a condition variable may wake without a notification
  /\ coordinator.at = "asleep"
  /\ coordinator' = [coordinator EXCEPT !.at = "scan"]
  /\ UNCHANGED <<runtime, job, shutdown>>

Join ==
  /\ coordinator.at = "join"
  /\ job[Head(coordinator.retired)].thread = "exited"
  /\ coordinator' = [coordinator EXCEPT !.at = "release"]
  /\ UNCHANGED <<runtime, job, shutdown>>

Release ==
  /\ coordinator.at = "release"
  /\ runtime' = [runtime EXCEPT !.admitted = @ - 1]
  /\ coordinator' = [coordinator EXCEPT !.at = "settle"]
  /\ UNCHANGED <<job, shutdown>>

\* completion.set_value() and the mailbox wake-up, outside the mutex.
Settle ==
  /\ coordinator.at = "settle"
  /\ job' = [job EXCEPT ![Head(coordinator.retired)].results = @ + 1]
  /\ coordinator' = [at |-> "scan", retired |-> <<>>]
  /\ UNCHANGED <<runtime, shutdown>>

----------------------------------------------------------------------------
(* shutdown(), on a caller's thread; the destructor calls it and joins. *)

BeginShutdown ==
  /\ shutdown.at = "idle"
  /\ runtime' = [runtime EXCEPT !.stopping = TRUE]
  /\ shutdown' = [at |-> "cancel", active |-> runtime.jobs]
  /\ UNCHANGED <<job, coordinator>>

CancelActive ==
  /\ shutdown.at = "cancel"
  /\ IF shutdown.active = <<>>
     THEN /\ shutdown' = [shutdown EXCEPT !.at = "notify"] /\ UNCHANGED job
     ELSE /\ job' = [job EXCEPT ![Head(shutdown.active)].cancelled = TRUE]
          /\ shutdown' = [shutdown EXCEPT !.active = Tail(@)]
  /\ UNCHANGED <<runtime, coordinator>>

EndShutdown_Silent ==  \* mutant: an idle coordinator is not woken
  /\ shutdown.at = "notify"
  /\ shutdown' = [shutdown EXCEPT !.at = "ended"]
  /\ UNCHANGED <<runtime, job, coordinator>>
EndShutdown ==
  /\ shutdown.at = "notify"
  /\ shutdown' = [shutdown EXCEPT !.at = "ended"]
  /\ coordinator' = Woken(coordinator)
  /\ UNCHANGED <<runtime, job>>

Reap == Scan \/ Join \/ Release \/ Settle
Shut == CancelActive \/ EndShutdown

\* The runtime's own steps: admission and the end of run() belong to the composition.
RuntimeNext ==
  (\E j \in Jobs : NotifyFinished(j)) \/ Reap \/ Spurious \/ BeginShutdown \/ Shut

\* Threads are scheduled; a spurious wake-up is never promised.
RuntimeFairness ==
  /\ \A j \in Jobs : WF_runtimeVars(NotifyFinished(j))
  /\ WF_runtimeVars(Reap) /\ WF_runtimeVars(Shut)

----------------------------------------------------------------------------
(* Properties *)

Alive(j) == job[j].thread \in {"running", "marked"}
Delivered(j) == job[j].results > 0

\* A slot is given back only when its session's thread has been joined ("Keep the
\* admission slot until resources and the thread are drained"): the threads that
\* exist never exceed the slots taken, and those never exceed the capacity.
SlotHeldUntilDrained ==
  /\ Cardinality({j \in Jobs : Alive(j)}) <= runtime.admitted
  /\ runtime.admitted <= RuntimeCapacity

\* A drain future completes once, after the thread is joined; when the coordinator
\* has left, which is what the destructor waits for, no job thread has a step
\* left that would touch the runtime, and every admitted session has its result.
DrainedMeansJoined ==
  /\ \A j \in Jobs : job[j].results <= 1 /\ (Delivered(j) => job[j].thread = "exited")
  /\ coordinator.at = "done" =>
       \A j \in Jobs : job[j].thread # "none" => job[j].thread = "exited" /\ Delivered(j)
  /\ SlotHeldUntilDrained

\* A shutdown drains the runtime: neither the last notification nor one sent to a
\* busy coordinator is lost, and no session escapes the cancellation.
ShutdownDrains == runtime.stopping ~> coordinator.at = "done"
=============================================================================

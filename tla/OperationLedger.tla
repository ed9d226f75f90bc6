-------------------------- MODULE OperationLedger --------------------------
(***************************************************************************)
(* What a session's event stream promises to the host that submits         *)
(* operations, without queue, stamps, generations or wake-ups: a ledger.   *)
(* An operation is owed an answer from its admission until it is settled,  *)
(* and then due until the host has been told.  A closed ledger owes        *)
(* nothing and admits nothing; a fault is the last thing the host is told. *)
(* SessionEvents implements it.                                            *)
(***************************************************************************)
EXTENDS Integers

VARIABLES
  issued,    \* ids handed out: 1 .. issued
  owed,      \* operations without an answer
  due,       \* operations whose answer waits for the host
  listening, \* the host has attached its wake-up
  phase      \* "open", "closed", or "faulted" once the fault was delivered

ledger == <<issued, owed, due, listening, phase>>

Init ==
  /\ issued = 0 /\ owed = {} /\ due = {}
  /\ listening = FALSE /\ phase = "open"

\* reserve() and reserveAttempt().
Admit ==
  /\ phase = "open"
  /\ issued' = issued + 1
  /\ owed' = owed \cup {issued + 1}
  /\ UNCHANGED <<due, listening, phase>>

\* complete() and cancelPending().
Settle ==
  /\ owed' \subseteq owed
  /\ due' = due \cup (owed \ owed')
  /\ UNCHANGED <<issued, listening, phase>>

\* seal() and overflow().
Close ==
  /\ phase = "open"
  /\ phase' = "closed"
  /\ owed' = {} /\ due' = due \cup owed
  /\ UNCHANGED <<issued, listening>>

\* take(): one answer at a time, and each of them once.
Deliver ==
  /\ listening /\ phase # "faulted"
  /\ \E id \in due : due' = due \ {id}
  /\ UNCHANGED <<issued, owed, listening, phase>>

\* take(): the fault, when there is nothing else left to tell.
Fault ==
  /\ listening /\ phase = "closed" /\ owed = {} /\ due = {}
  /\ phase' = "faulted"
  /\ UNCHANGED <<issued, owed, due, listening>>

\* setWakeup().
Listen ==
  /\ listening' = TRUE
  /\ UNCHANGED <<issued, owed, due, phase>>

Next == Admit \/ Settle \/ Close \/ Deliver \/ Fault \/ Listen

Spec == Init /\ [][Next]_ledger

\* A host that listens is told what is due.
FairSpec == Spec /\ WF_ledger(Deliver)
============================================================================

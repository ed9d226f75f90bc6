------------------------- MODULE ReverseConnections -------------------------
(***************************************************************************)
(* A listener that hands its peers to the session runtime                  *)
(* (ListenerWorker::accept): ListenerWorker and SessionRuntime composed.   *)
(* The session that a peer becomes has the peer's id.  The runtime may be  *)
(* full or shut down by the time a taken peer is handed to it.             *)
(***************************************************************************)
EXTENDS ListenerWorker, SessionRuntime

vars == <<listenerVars, runtimeVars>>

ASSUME JobsAssumption == Jobs = Peers

TypeOK ==
  /\ RuntimeTypeOK
  /\ listener.pending \in Seq(Peers) /\ listener.queue \in Seq(Event)
  /\ holder \in [Peers -> {"nobody", "listener", "host", "session", "closed"}]
  /\ late \in 0 .. MaxPeers

Init == ListenerInit /\ RuntimeInit

\* accept(), once takePeer() has returned: admission takes the transport, or throws
\* and closes it; the peer is never parked again.
StartSession(h) ==
  /\ host[h].then = "start"
  /\ host' = [host EXCEPT ![h] = Idle]
  /\ LET p == host[h].peer IN
     \/ /\ Admit(p) /\ holder' = [holder EXCEPT ![p] = "session"]
     \/ /\ Refused /\ holder' = [holder EXCEPT ![p] = "closed"] /\ UNCHANGED runtimeVars
  /\ UNCHANGED <<listener, thread, control, late, taken>>

\* SessionWorker::run() ends with its transport closed.
EndSession(j) ==
  /\ Finish(j)
  /\ holder' = [holder EXCEPT ![j] = "closed"]
  /\ UNCHANGED <<listener, thread, control, late, host, taken>>

Next ==
  \/ ListenerNext /\ UNCHANGED runtimeVars
  \/ \E h \in Hosts : StartSession(h)
  \/ \E j \in Jobs : EndSession(j)
  \/ RuntimeNext /\ UNCHANGED listenerVars

\* A cancelled session ends: the property CloseDrains of SessionWorker.
Spec == /\ Init /\ [][Next]_vars
        /\ ListenerFairness /\ RuntimeFairness
        /\ \A h \in Hosts : WF_vars(StartSession(h))
        /\ \A j \in Jobs : WF_vars(job[j].cancelled /\ EndSession(j))

----------------------------------------------------------------------------
(* Properties *)

Published == taken \o listener.queue
Told(p, kinds) == {i \in 1 .. Len(Published) : Published[i].peer = p /\ Published[i].kind \in kinds}

\* Every transport has one owner, and the host is told the truth about it: a peer
\* is parked exactly while the listener owns it, it gets at most one outcome, after
\* it was announced; "Accepted" is announced exactly for the peers that a host was
\* given to keep, and an expired or rejected one never reaches a session.  When the
\* listener has ended, it owns nothing, while accepted sessions live on.
OwnedOnce ==
  /\ \A p \in Peers :
       /\ Cardinality(Told(p, Outcomes)) <= 1
       /\ \A i \in Told(p, Outcomes) : \E k \in Told(p, {"Incoming"}) : k < i
       /\ holder[p] \in {"host", "session"} => Told(p, {"Accepted"}) # {}
       /\ Told(p, {"Rejected", "Expired"}) # {} => job[p].thread = "none"
       /\ p \in ToSet(listener.pending) => holder[p] = "listener"
       /\ \A i, k \in 1 .. Len(listener.pending) :
            i # k => listener.pending[i] # listener.pending[k]
  /\ At("done") => \A p \in Peers : holder[p] # "listener"

\* The two reserved places suffice: queue and stamps stay within their limits, the
\* stream ends with Stopping and one of Closed or Failed, and nothing follows it.
TerminalDelivered ==
  /\ Len(listener.queue) <= EventCapacity + 2 /\ listener.sequence <= MaxSequence
  /\ \A i \in 1 .. Len(Published) :
       /\ Published[i].state \in {"Closed", "Failed"} => i = Len(Published)
       /\ Published[i].state = "Stopping" => Published[i].kind = "State" /\ i >= Len(Published) - 1

\* A full listener makes room again: its peers are decided or expire, or it stops.
\* A listener told to stop ends, and its last event reaches the host.
ListenerMovesOn ==
  /\ Len(listener.pending) = PendingCapacity ~> Len(listener.pending) < PendingCapacity
  /\ listener.stopping ~> (At("done") /\ listener.queue = <<>>)

\* Neither service is stuck: the listener moves on and a shutdown drains the runtime.
NobodyStuck == ListenerMovesOn /\ ShutdownDrains
=============================================================================

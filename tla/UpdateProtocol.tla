--------------------------- MODULE UpdateProtocol ---------------------------
(***************************************************************************)
(* Who may send a framebuffer update, when, and in which pixel format: the *)
(* viewer's CConnection and the server's VNCSConnectionST, which are both  *)
(* part of this repository, over two reliable FIFO streams.                *)
(*                                                                         *)
(* A screen is a row of cells, each holding the number of its last change. *)
(* The server may answer after any message it has read, because a read     *)
(* event hands it any prefix of what was sent, and may hold an update back *)
(* for as long as the link is congested.  Both sides support fences,       *)
(* continuous updates, local cursors and ExtendedDesktopSize.              *)
(***************************************************************************)
EXTENDS Integers, Sequences, FiniteSets, FiniteSetsExt, SequencesExt

CONSTANTS
  Formats,     \* pixel formats
  Native,      \* the format the server announces
  Sizes,       \* desktop sizes, in cells
  MaxChanges,  \* bound: changes of the screen
  MaxResizes,  \* bound: changes of the desktop's size
  MaxSelects,  \* bound: formats the viewer selects
  MaxRefreshes \* bound: refreshes the viewer asks for

ASSUME UpdateAssumption ==
  /\ Native \in Formats /\ Sizes \subseteq Nat \ {0} /\ Sizes # {}
  /\ {MaxChanges, MaxResizes, MaxSelects, MaxRefreshes} \subseteq Nat

VARIABLES
  conn,     \* CConnection
  peer,     \* VNCSConnectionST and its writer
  toServer, \* messages on their way to the server
  toClient, \* messages on their way to the viewer
  screen,   \* per cell: the server's framebuffer
  shown,    \* per cell: the viewer's framebuffer
  used      \* what has been used of the bounds

vars == <<conn, peer, toServer, toClient, screen, shown, used>>

Cells == 1 .. Max(Sizes)
Area(size) == 1 .. size

SetPixelFormat(pf) == <<[type |-> "SetPixelFormat", pf |-> pf]>>
SetEncodings == <<[type |-> "SetEncodings"]>>
UpdateRequest(size, incremental) == <<[type |-> "Request", size |-> size, incremental |-> incremental]>>
Enable(size) == <<[type |-> "Enable", size |-> size]>>
Disable == <<[type |-> "Disable"]>>
EndOfContinuousUpdates == [type |-> "EndOfContinuousUpdates"]
\* An update with the desktop's size (no data), or with the cells' content in a format.
SizeUpdate(size) == [type |-> "Update", size |-> size, pf |-> Native, pixels |-> <<>>]
DataUpdate(pf, cells) == [type |-> "Update", size |-> 0, pf |-> pf, pixels |-> [c \in cells |-> screen[c]]]

----------------------------------------------------------------------------
(* CConnection. *)

\* The part of requestNewUpdate() that changes the format.
FormatRequest(c) ==
  IF ~(c.formatChange /\ ~c.pendingPFChange) THEN <<>>
  ELSE IF c.continuousUpdates THEN Disable \o SetPixelFormat(c.nextPF) \o Enable(c.size)
  ELSE SetPixelFormat(c.nextPF)
WithFormat(c) ==
  IF ~(c.formatChange /\ ~c.pendingPFChange) THEN c
  ELSE [c EXCEPT !.pendingPFChange = TRUE, !.pendingPF = c.nextPF, !.formatChange = FALSE]

\* requestNewUpdate(): the new state, and what is written.
Asks(c) == c.forceNonincremental \/ ~c.continuousUpdates
NewUpdate(c) == [WithFormat(c) EXCEPT !.pendingUpdate = @ \/ Asks(c), !.forceNonincremental = FALSE]
NewUpdateMessages(c) ==
  FormatRequest(c) \o (IF Asks(c) THEN UpdateRequest(c.size, ~c.forceNonincremental) ELSE <<>>)

SwitchFormat(c) == [c EXCEPT !.pf = c.pendingPF, !.pendingPFChange = FALSE]

\* serverInit(), with the format that the options select.
Connected(pf, size) ==
  [pf |-> pf, nextPF |-> pf, formatChange |-> FALSE, pendingPF |-> pf, pendingPFChange |-> FALSE,
   firstUpdate |-> TRUE, pendingUpdate |-> TRUE, continuousUpdates |-> FALSE,
   forceNonincremental |-> FALSE, supported |-> FALSE, size |-> size, reading |-> FALSE]

Init ==
  \E pf \in Formats, size \in Sizes :
    /\ conn = Connected(pf, size)
    /\ toServer = (IF pf = Native THEN <<>> ELSE SetPixelFormat(pf))
                  \o SetEncodings \o UpdateRequest(size, FALSE)
    /\ peer = [pf |-> Native, continuousUpdates |-> FALSE, cuRegion |-> {}, requested |-> {},
               changed |-> Area(size), lossy |-> {}, size |-> size, desktopSize |-> FALSE,
               cursor |-> FALSE]
    /\ toClient = <<>>
    /\ screen = [c \in Cells |-> 0] /\ shown = [c \in Area(size) |-> -1]
    /\ used = [changes |-> 0, resizes |-> 0, selects |-> 0, refreshes |-> 0]

\* setPF().
SelectFormat(pf) ==
  /\ used.selects < MaxSelects
  /\ used' = [used EXCEPT !.selects = @ + 1]
  /\ conn' = IF conn.pf = pf /\ ~conn.formatChange THEN conn
             ELSE [conn EXCEPT !.nextPF = pf, !.formatChange = TRUE]
  /\ UNCHANGED <<peer, toServer, toClient, screen, shown>>

\* refreshFramebuffer().
Refresh ==
  /\ used.refreshes < MaxRefreshes
  /\ used' = [used EXCEPT !.refreshes = @ + 1]
  /\ LET c == [conn EXCEPT !.forceNonincremental = TRUE] IN
     IF conn.continuousUpdates
     THEN conn' = NewUpdate(c) /\ toServer' = toServer \o NewUpdateMessages(c)
     ELSE conn' = c /\ UNCHANGED toServer
  /\ UNCHANGED <<peer, toClient, screen, shown>>

Arrived(type) == toClient # <<>> /\ Head(toClient).type = type

\* framebufferUpdateStart().
UpdateStart ==
  /\ Arrived("Update") /\ ~conn.reading
  /\ LET c == [conn EXCEPT !.pendingUpdate = FALSE, !.reading = TRUE] IN
     conn' = NewUpdate(c) /\ toServer' = toServer \o NewUpdateMessages(c)
  /\ UNCHANGED <<peer, toClient, screen, shown, used>>

\* setExtendedDesktopSize(): continuous updates are asked for the new size.
ResizeMessages_None(size) == <<>>  \* mutant: they stay as they were
ResizeMessages(size) == IF conn.continuousUpdates THEN Enable(size) ELSE <<>>
Resized(pixels, size) == [c \in Area(size) |-> IF c \in DOMAIN pixels THEN pixels[c] ELSE -1]

\* The format to use from the end of an update on.
AtUpdateEnd_Always(c) == IF c.pendingPFChange THEN SwitchFormat(c) ELSE c  \* mutant
AtUpdateEnd(c) == IF c.pendingPFChange /\ ~c.continuousUpdates THEN SwitchFormat(c) ELSE c

\* The rectangles, and framebufferUpdateEnd().
UpdateEnd ==
  /\ conn.reading
  /\ LET update == Head(toClient)
         size == IF update.size = 0 THEN conn.size ELSE update.size
         pixels == Resized(shown, size)
         begin == conn.firstUpdate /\ conn.supported
     IN /\ shown' = [c \in Area(size) |-> IF c \in DOMAIN update.pixels THEN update.pixels[c] ELSE pixels[c]]
        /\ conn' = [AtUpdateEnd(conn) EXCEPT !.reading = FALSE, !.firstUpdate = FALSE, !.size = size,
                                             !.continuousUpdates = @ \/ begin]
        /\ toServer' = toServer \o (IF update.size # 0 THEN ResizeMessages(size) ELSE <<>>)
                                \o (IF begin THEN Enable(size) ELSE <<>>)
  /\ toClient' = Tail(toClient)
  /\ UNCHANGED <<peer, screen, used>>

\* endOfContinuousUpdates().
EndOfUpdates ==
  /\ Arrived("EndOfContinuousUpdates")
  /\ LET c == [conn EXCEPT !.supported = TRUE]
         s == SwitchFormat(c)
     IN IF ~conn.pendingPFChange THEN conn' = c /\ UNCHANGED toServer
        ELSE IF ~conn.formatChange THEN conn' = s /\ UNCHANGED toServer
        ELSE conn' = NewUpdate(s) /\ toServer' = toServer \o NewUpdateMessages(s)
  /\ toClient' = Tail(toClient)
  /\ UNCHANGED <<peer, screen, shown, used>>

----------------------------------------------------------------------------
(* VNCSConnectionST. *)

ScreenChanges(c) ==
  /\ used.changes < MaxChanges /\ c \in Area(peer.size)
  /\ used' = [used EXCEPT !.changes = @ + 1]
  /\ screen' = [screen EXCEPT ![c] = used.changes + 1]
  /\ peer' = [peer EXCEPT !.changed = @ \cup {c}]
  /\ UNCHANGED <<conn, toServer, toClient, shown>>

\* pixelBufferChange().
DesktopResized(size) ==
  /\ used.resizes < MaxResizes /\ size # peer.size
  /\ used' = [used EXCEPT !.resizes = @ + 1]
  /\ peer' = [peer EXCEPT !.size = size, !.desktopSize = TRUE, !.changed = Area(size),
                          !.lossy = @ \cap Area(size)]
  /\ UNCHANGED <<conn, toServer, toClient, screen, shown>>

\* One message; what is written at once goes to `replies'.
Handled(m) ==
  CASE m.type = "SetPixelFormat" ->
         [peer EXCEPT !.pf = m.pf, !.cursor = TRUE, !.lossy = Area(peer.size)]
    [] m.type = "SetEncodings" -> peer
    [] m.type = "Request" ->
         [peer EXCEPT
            !.requested = IF m.incremental /\ peer.continuousUpdates THEN @
                          ELSE @ \cup (Area(m.size) \cap Area(peer.size)),
            !.changed = IF m.incremental THEN @ ELSE @ \cup (Area(m.size) \cap Area(peer.size)),
            !.desktopSize = @ \/ ~m.incremental]
    [] m.type = "Enable" ->
         [peer EXCEPT !.continuousUpdates = TRUE, !.cuRegion = Area(m.size), !.requested = {}]
    [] m.type = "Disable" -> [peer EXCEPT !.continuousUpdates = FALSE, !.cuRegion = {}]

ReadMessage ==
  /\ toServer # <<>>
  /\ peer' = Handled(Head(toServer))
  /\ toServer' = Tail(toServer)
  /\ toClient' = IF Head(toServer).type \in {"SetEncodings", "Disable"}
                 THEN Append(toClient, EndOfContinuousUpdates) ELSE toClient
  /\ UNCHANGED <<conn, screen, shown, used>>

\* writeNoDataUpdate(): "Make sure no data update is sent until next request".
AfterSize_Requested(p) == [p EXCEPT !.desktopSize = FALSE]  \* mutant: the request stands
AfterSize(p) == IF p.desktopSize THEN [p EXCEPT !.desktopSize = FALSE, !.requested = {}] ELSE p

\* writeDataUpdate(): the update for peer state p, if any, and the state after it.
Region(p) == p.requested \cup (IF p.continuousUpdates THEN p.cuRegion ELSE {})
HasData(p) == Region(p) # {} /\ (p.changed \cap Region(p) # {} \/ p.cursor)
HasRefresh(p) == ~HasData(p) /\ p.lossy \cap Region(p) # {}

WriteUpdate ==
  /\ peer.requested # {} \/ peer.continuousUpdates
  /\ LET p == AfterSize(peer)
         before == IF peer.desktopSize THEN <<SizeUpdate(peer.size)>> ELSE <<>>
     IN \/ /\ HasData(p)
           /\ toClient' = toClient \o Append(before, DataUpdate(p.pf, p.changed \cap Region(p)))
           /\ peer' = [p EXCEPT !.changed = @ \ Region(p), !.requested = {}, !.cursor = FALSE]
        \/ /\ HasRefresh(p)  \* writeLosslessRefresh()
           /\ toClient' = toClient \o Append(before, DataUpdate(p.pf, p.lossy \cap Region(p)))
           /\ peer' = [p EXCEPT !.lossy = @ \ Region(p), !.requested = {}]
        \/ /\ ~HasData(p) /\ peer.desktopSize  \* the refresh is not due, or there is none
           /\ toClient' = toClient \o before /\ peer' = p
  /\ UNCHANGED <<conn, toServer, screen, shown, used>>

----------------------------------------------------------------------------

Viewer == UpdateStart \/ UpdateEnd \/ EndOfUpdates
User == Refresh \/ \E pf \in Formats : SelectFormat(pf)
Desktop == (\E c \in Cells : ScreenChanges(c)) \/ \E size \in Sizes : DesktopResized(size)

Next == Viewer \/ User \/ Desktop \/ ReadMessage \/ WriteUpdate

\* The streams deliver, both sides read what has arrived, and congestion ends.
Spec == Init /\ [][Next]_vars /\ WF_vars(Viewer) /\ WF_vars(ReadMessage) /\ WF_vars(WriteUpdate)

----------------------------------------------------------------------------
(* Properties *)

\* Every update is decoded in the format it was encoded in, although the format changes
\* while updates are on their way, a refresh is asked for in between, and the server may
\* answer between any two messages of requestNewUpdate().
DecodedInOwnFormat ==
  conn.reading => Head(toClient).size # 0 \/ Head(toClient).pf = conn.pf

\* "Without continuous updates we have to make sure we only have a single update in
\* flight" (refreshFramebuffer()): requests and answers on their way, the update being
\* read aside, are at most one.
Places(q, type) == {i \in DOMAIN q : q[i].type = type}
InFlight ==
  Cardinality(Places(toServer, "Request")) + (IF peer.requested # {} THEN 1 ELSE 0)
    + Cardinality(Places(toClient, "Update")) - (IF conn.reading THEN 1 ELSE 0)
SingleUpdateInFlight == ~conn.continuousUpdates => InFlight <= 1

\* Once the screen no longer changes the viewer ends up with the server's size and picture,
\* whatever requests and continuous updates were in use when it changed.
ViewerCatchesUp ==
  <>[](conn.size = peer.size /\ shown = [c \in Area(peer.size) |-> screen[c]])
=============================================================================

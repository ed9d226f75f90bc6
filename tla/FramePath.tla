----------------------------- MODULE FramePath -----------------------------
(***************************************************************************)
(* The way of a framebuffer update to the views: the protocol thread       *)
(* (ProtocolSession's Connection on CConnection) feeds the decoder threads *)
(* of DecodeManager, and publishes what they produced to the views of      *)
(* FramePublisher, at once or from the retry timer.                        *)
(*                                                                         *)
(* The protocol thread waits in decodeRect() for a free buffer and in      *)
(* flush() for an empty queue: those waits are guards here, because the    *)
(* thread does nothing else meanwhile.  A failed session is closed:        *)
(* flush, delete the framebuffer, join the threads, reset the publisher.   *)
(***************************************************************************)
EXTENDS DecodeManager, FramePublisher

CONSTANTS
  Widths,        \* desktop widths, in pixels
  CursorChanges, \* bound: cursor shapes the server sends
  MaxRects,      \* bound: rectangles
  MaxUpdates,    \* bound: updates
  MaxGeneration  \* bound: attempts

ASSUME FramePathAssumption ==
  /\ Widths \subseteq Nat \ {0} /\ {CursorChanges, MaxRects, MaxUpdates, MaxGeneration} \subseteq Nat

VARIABLES
  main,  \* the protocol thread
  bound  \* what has been used of the bounds

vars == <<decodeVars, publisherVars, main, bound>>

Blank(w) == [c \in 1 .. w |-> Black]

\* A Connection as initDone() leaves it, about to publish the blank framebuffer.
Fresh(w) == [at |-> "publish", inUpdate |-> FALSE, damage |-> 1 .. w, cursor |-> <<>>,
             cursorChanged |-> FALSE, retry |-> FALSE, out |-> {}, left |-> {}, ok |-> TRUE]
Unused == [rects |-> 0, updates |-> 0, cursors |-> 0]

Init ==
  /\ \E w \in Widths : DecodeInit(Blank(w)) /\ main = Fresh(w)
  /\ PublisherInit /\ bound = Unused

Idle == main.at = "idle"
Reading == Idle /\ main.inUpdate /\ partialEntry = NoEntry

----------------------------------------------------------------------------
(* Messages of the server. *)

UpdateStart ==
  /\ Idle /\ ~main.inUpdate /\ bound.updates < MaxUpdates
  /\ main' = [main EXCEPT !.inUpdate = TRUE]
  /\ bound' = [bound EXCEPT !.updates = @ + 1]
  /\ UNCHANGED <<decodeVars, publisherVars>>

\* dataRect() with a rectangle whose data has not arrived yet.
RectStart ==
  /\ Reading /\ bound.rects < MaxRects
  /\ \E kind \in Kinds : Affected(kind) \subseteq DOMAIN fb /\ BeginRect(bound.rects + 1, kind)
  /\ bound' = [bound EXCEPT !.rects = @ + 1]
  /\ UNCHANGED <<publisherVars, main>>

\* dataRect() with the rest of the data: the rectangle is queued and is damage.
RectEnd ==
  /\ Idle /\ QueueRect
  /\ main' = [main EXCEPT !.damage = Unite(@, partialEntry.kind.writes)]
  /\ UNCHANGED <<publisherVars, bound>>

\* setDesktopSize() or setExtendedDesktopSize(), with resizeFramebuffer().
Resize(w) ==
  /\ Reading /\ w # Len(fb) /\ Flushed /\ ~threadException
  /\ fb' = [c \in 1 .. w |-> IF c \in DOMAIN fb THEN fb[c] ELSE Black]
  /\ ideal' = [c \in 1 .. w |-> IF c \in DOMAIN ideal THEN ideal[c] ELSE Black]
  /\ main' = [main EXCEPT !.damage = 1 .. w]
  /\ UNCHANGED <<workQueue, freeBuffers, contents, partialEntry, threadException, thread, stream,
                 sent, publisherVars, bound>>

\* setCursor(), with a shape or none.
SetCursor ==
  /\ Reading /\ bound.cursors < CursorChanges
  /\ \E shape \in {<<>>, <<bound.cursors + 1>>} :
       main' = [main EXCEPT !.cursor = shape, !.cursorChanged = TRUE]
  /\ bound' = [bound EXCEPT !.cursors = @ + 1]
  /\ UNCHANGED <<decodeVars, publisherVars>>

\* framebufferUpdateEnd(): join the decoders, then publish.
UpdateEnd ==
  /\ Reading /\ Flushed /\ ~threadException
  /\ main' = [main EXCEPT !.inUpdate = FALSE, !.at = "publish"]
  /\ UNCHANGED <<decodeVars, publisherVars, bound>>

----------------------------------------------------------------------------
(* publish(). *)

\* The retry timer fires; retryPublication() does the same.  During an update publish()
\* only arms the timer again.
Retry_InUpdate ==  \* mutant: a retry does not look at inUpdate
  /\ Idle /\ main.retry /\ Flushed
  /\ main' = [main EXCEPT !.retry = FALSE, !.at = "publish"]
  /\ UNCHANGED <<decodeVars, publisherVars, bound>>
Retry ==
  /\ Idle /\ main.retry /\ ~main.inUpdate /\ Flushed
  /\ main' = [main EXCEPT !.retry = FALSE, !.at = "publish"]
  /\ UNCHANGED <<decodeVars, publisherVars, bound>>

PublishFrame ==
  /\ main.at = "publish"
  /\ LET p == Remembered(fb, main.damage) IN
     IF main.damage = {}
     THEN main' = [main EXCEPT !.at = "cursor", !.ok = TRUE] /\ UNCHANGED publisher
     ELSE IF HasRoom(fb)
     THEN /\ publisher' = WithFrame(p, fb)
          /\ main' = [main EXCEPT !.at = "deliver", !.ok = TRUE, !.damage = {}, !.left = Open,
                                  !.out = FrameDamage(p, fb)]
     ELSE publisher' = p /\ main' = [main EXCEPT !.at = "cursor", !.ok = FALSE]
  /\ UNCHANGED <<decodeVars, mailbox, view, bound>>

DeliverToView ==
  /\ main.at = "deliver"
  /\ \/ /\ main.left = {}
        /\ main' = [main EXCEPT !.at = "cursor", !.out = {}] /\ UNCHANGED mailbox
     \/ \E v \in main.left :
          DeliverFrame(v, main.out) /\ main' = [main EXCEPT !.left = @ \ {v}]
  /\ UNCHANGED <<decodeVars, publisher, view, bound>>

\* publicationResult() last: success cancels the timer, failure arms it.
Published_Unarmed(m, ok) ==  \* mutant: only a new update publishes what was skipped
  [m EXCEPT !.at = "idle", !.ok = TRUE]
Published(m, ok) == [m EXCEPT !.at = "idle", !.ok = TRUE, !.retry = ~ok]
PublishCursor ==
  /\ main.at = "cursor"
  /\ LET hidden == main.cursor = <<>>
         shown == main.cursorChanged /\ (hidden \/ HasRoom(main.cursor))
     IN /\ publisher' = IF ~shown THEN publisher
                        ELSE IF hidden THEN [publisher EXCEPT !.cursor = NoImage]
                        ELSE WithCursor(main.cursor)
        /\ IF shown THEN DeliverCursor(publisher'.cursor) ELSE UNCHANGED mailbox
        /\ main' = Published([main EXCEPT !.cursorChanged = @ /\ ~shown],
                             main.ok /\ (main.cursorChanged => shown))
  /\ UNCHANGED <<decodeVars, view, bound>>

----------------------------------------------------------------------------
(* The end of an attempt, and the next one. *)

Finished == [main EXCEPT !.at = "closing", !.retry = FALSE]

\* A thread's failure surfaces in decodeRect() or in a flush().
Fail ==
  /\ Idle /\ main.inUpdate /\ threadException /\ (partialEntry # NoEntry \/ Flushed)
  /\ threadException' = FALSE
  /\ main' = Finished
  /\ UNCHANGED <<workQueue, freeBuffers, contents, partialEntry, thread, stream, fb, ideal, sent,
                 publisherVars, bound>>

\* The host or the transport ends the session, at any point of an update.
Close ==
  /\ Idle
  /\ main' = Finished
  /\ UNCHANGED <<decodeVars, publisherVars, bound>>

\* CConnection::close(): flush, ignoring failures, and delete the framebuffer.
MayDelete_Unflushed == TRUE  \* mutant: decoders may still be at work
MayDelete == Flushed
DeleteFramebuffer ==
  /\ main.at = "closing" /\ MayDelete
  /\ threadException' = FALSE /\ fb' = <<>> /\ ideal' = <<>>
  /\ main' = [main EXCEPT !.at = "join"]
  /\ UNCHANGED <<workQueue, freeBuffers, contents, partialEntry, thread, stream, sent,
                 publisherVars, bound>>

JoinThread ==
  /\ main.at = "join" /\ StopThread
  /\ UNCHANGED <<publisherVars, main, bound>>

\* The connection is gone: queued images are invalidated.
ResetPublisher ==
  /\ main.at = "join" /\ Exited = Threads
  /\ Reset(publisher.generation + 1)
  /\ main' = [main EXCEPT !.at = "closed"]
  /\ UNCHANGED <<decodeVars, bound>>

\* start() and initDone() of the next attempt.
Reconnect ==
  /\ main.at = "closed" /\ publisher.generation <= MaxGeneration
  /\ \E w \in Widths :
       /\ main' = Fresh(w) /\ fb' = Blank(w) /\ ideal' = Blank(w)
  /\ workQueue' = <<>> /\ freeBuffers' = [i \in Buffers |-> i]
  /\ contents' = [b \in Buffers |-> 0]
  /\ partialEntry' = NoEntry /\ threadException' = FALSE
  /\ thread' = [t \in Threads |-> Looking]
  /\ stream' = [l \in Lanes |-> 0] /\ sent' = [l \in Lanes |-> 0]
  /\ UNCHANGED <<publisherVars, bound>>

----------------------------------------------------------------------------
(* Views.  attachView() is called on the protocol thread. *)

AttachView(v) == (Idle \/ main.at = "closed") /\ Subscribe(v)
TakeUpdate(v) == Take(v)
DetachView(v) == Detach(v)

Protocol == PublishFrame \/ DeliverToView \/ PublishCursor \/ Retry
            \/ DeleteFramebuffer \/ JoinThread \/ ResetPublisher
Server == UpdateStart \/ RectStart \/ RectEnd \/ (\E w \in Widths : Resize(w)) \/ SetCursor \/ UpdateEnd
Decoders == DecodeNext /\ UNCHANGED <<publisherVars, main, bound>>
ViewsNext == /\ \E v \in Views : AttachView(v) \/ TakeUpdate(v) \/ DetachView(v)
             /\ UNCHANGED <<decodeVars, main, bound>>

Next == Protocol \/ Server \/ Fail \/ Close \/ Reconnect \/ Decoders \/ ViewsNext

\* The scheduler dispatches due timers, threads run, and a view takes what it is told of.
\* Nothing is assumed of the server or of the host.
Fairness ==
  /\ WF_vars(Protocol)
  /\ \A t \in Threads : WF_vars(DecodeThread(t) /\ UNCHANGED <<publisherVars, main, bound>>)
  /\ \A v \in Views : WF_vars(TakeUpdate(v) /\ UNCHANGED <<decodeVars, main, bound>>)

Spec == Init /\ [][Next]_vars /\ Fairness

----------------------------------------------------------------------------
(* Properties *)

\* Threads decode out of order and at the same time, and yet whenever the queue has
\* drained without a failure the picture is the one that decoding rectangle after
\* rectangle gives: overlaps, copies and stream decoders kept their order, and every
\* rectangle was decoded from its own data.
SequentialResult == Idle /\ Flushed /\ ~threadException => fb = ideal

\* One notification per queued rectangle, and one to all only while several are queued,
\* are enough: no thread sleeps while there are more rectangles it could decode than
\* threads about to look.
WorkersSuffice ==
  {t \in Threads : thread[t].at = "asleep"} = {} \/
  Cardinality({i \in 1 .. Len(workQueue) : Available(i)})
    <= Cardinality({t \in Threads : thread[t].at = "look"})

\* No decoder is at work when close() deletes the framebuffer, whatever the failure or
\* the partly read rectangle that ended the session.
FramebufferOutlivesDecoders == fb = <<>> => \A t \in Threads : thread[t].at # "decode"

\* No view is given a torn picture: what is published is the result of whole updates,
\* also from the retry timer while the server is in the middle of the next one.
PublishedWhole ==
  [][publisher'.latest \notin {publisher.latest, NoImage}
       => ~main.inUpdate /\ publisher'.latest.pixels = ideal]_vars

\* A view that repaints the damage only has the frame on its screen that it was given:
\* damage of frames that were skipped for lack of memory, replaced before the view looked,
\* or of another size, is never lost.
DamageComplete == \A v \in Open : view[v].shown = view[v].frame.pixels

\* When the server goes quiet every view ends up showing its last picture and cursor, also
\* after backpressure, if there is room for the frame on show, the next one and a cursor;
\* when the session is closed every view ends up cleared.
AmpleBudget == Budget >= 2 * Max(Widths) + 1
Quiet == Idle /\ ~main.inUpdate
ViewsCatchUp ==
  \A v \in Views :
    /\ <>[](AmpleBudget /\ Quiet /\ v \in Open)
         => <>[](view[v].shown = ideal /\ view[v].cursor.pixels = main.cursor)
    /\ <>[](main.at = "closed" /\ v \in Open)
         => <>[](view[v].shown = <<>> /\ view[v].cursor = NoImage)
=============================================================================

--------------------------- MODULE FramePublisher ---------------------------
(***************************************************************************)
(* Publication of frames and cursors to views (FramePublisher.cxx).  The   *)
(* protocol thread copies the framebuffer into budgeted storage and leaves *)
(* it in every view's mailbox; a view takes what is there whenever it      *)
(* likes and keeps the leases it was given.                                *)
(*                                                                         *)
(* An image is a row of pixels and costs a unit of the budget per pixel;   *)
(* damage is an interval of pixels, as it is one rectangle in the code.    *)
(* The publisher's own state belongs to the protocol thread.  A mailbox    *)
(* has a mutex, so delivery to each view is an action.  Readiness signals  *)
(* are those of SessionEvents.                                             *)
(***************************************************************************)
EXTENDS Integers, Sequences, FiniteSets, FiniteSetsExt

CONSTANTS
  Views,  \* views that may subscribe
  Budget  \* byteBudget, in pixels

ASSUME PublisherAssumption == Budget \in Nat \ {0}

VARIABLES
  publisher, \* FramePublisher::Impl
  mailbox,   \* per view: its ViewMailbox
  view       \* per view: the leases it holds, and what it has painted

publisherVars == <<publisher, mailbox, view>>

NoImage == [pixels |-> <<>>, sequence |-> 0, size |-> 0]
EmptyUpdate == [generation |-> 0, frameChanged |-> FALSE, cursorChanged |-> FALSE,
                frame |-> NoImage, cursor |-> NoImage, damage |-> {}]
NoView == [open |-> FALSE, generation |-> 0, frame |-> NoImage, cursor |-> NoImage,
           shown |-> <<>>]

PublisherInit ==
  /\ publisher = [generation |-> 1, size |-> 0, sequence |-> 0, latest |-> NoImage,
                  cursor |-> NoImage, skipped |-> {}, skippedResize |-> FALSE]
  /\ mailbox = [v \in Views |-> EmptyUpdate]
  /\ view = [v \in Views |-> NoView]

----------------------------------------------------------------------------
(* Damage and the budget. *)

Whole(pixels) == DOMAIN pixels
Unite(a, b) == IF a \cup b = {} THEN {} ELSE Min(a \cup b) .. Max(a \cup b)

Open == {v \in Views : view[v].open}
\* PixelStorage lives as long as a lease of it: the publisher's, a mailbox's, a view's.
Leases == {publisher.latest, publisher.cursor}
          \cup UNION {{mailbox[v].frame, mailbox[v].cursor, view[v].frame, view[v].cursor} : v \in Open}
Used == MapThenSumSet(LAMBDA image : Len(image.pixels), Leases)

\* copyPixels(): compare-and-exchange on the budget.
HasRoom(pixels) == Len(pixels) <= Budget - Used

----------------------------------------------------------------------------
(* publishFrame() and publishCursor(). *)

Resized(pixels) == Len(publisher.latest.pixels) # Len(pixels)  \* also: no frame yet

\* Unpublished damage, remembered before the copy is tried.
Remembered(pixels, damage) ==
  LET resize == publisher.skippedResize \/ Resized(pixels)
  IN [publisher EXCEPT !.skippedResize = resize,
                       !.skipped = IF resize THEN @ ELSE Unite(@, damage)]

\* The new publisher state and the damage to deliver, once there is room.
FrameDamage(p, pixels) == IF p.skippedResize THEN Whole(pixels) ELSE p.skipped
WithFrame(p, pixels) ==
  LET size == IF Resized(pixels) THEN p.size + 1 ELSE p.size
  IN [p EXCEPT !.size = size, !.sequence = @ + 1,
               !.latest = [pixels |-> pixels, sequence |-> p.sequence + 1, size |-> size],
               !.skipped = {}, !.skippedResize = FALSE]
WithCursor(pixels) ==
  [publisher EXCEPT !.sequence = @ + 1,
                    !.cursor = [pixels |-> pixels, sequence |-> publisher.sequence + 1, size |-> 0]]

\* frameUpdate() for one view: a pending frame is replaced, damage adds up.
Delivered_Replaces(update, damage) ==  \* mutant: the latest damage only
  [update EXCEPT !.generation = publisher.generation, !.frameChanged = TRUE,
                 !.frame = publisher.latest, !.damage = damage]
Delivered(update, damage) ==
  LET pending == update.frameChanged /\ update.frame # NoImage
      total == IF ~pending THEN damage
               ELSE IF update.frame.size = publisher.latest.size THEN Unite(update.damage, damage)
               ELSE Whole(publisher.latest.pixels)
  IN [update EXCEPT !.generation = publisher.generation, !.frameChanged = TRUE,
                    !.frame = publisher.latest, !.damage = total]

DeliverFrame(v, damage) ==
  mailbox' = [mailbox EXCEPT ![v] = IF v \in Open THEN Delivered(@, damage) ELSE @]

\* cursorUpdate(), for every view.
DeliverCursor(cursor) ==
  mailbox' = [v \in Views |-> IF v \notin Open THEN mailbox[v]
                ELSE [mailbox[v] EXCEPT !.generation = publisher.generation,
                                        !.cursorChanged = TRUE, !.cursor = cursor]]

\* reset(): queued images go, and every view is told to clear.
Reset(generation) ==
  /\ publisher' = [publisher EXCEPT !.generation = generation, !.latest = NoImage,
                     !.cursor = NoImage, !.skipped = {}, !.skippedResize = FALSE]
  /\ mailbox' = [v \in Views |-> IF v \notin Open THEN mailbox[v]
                   ELSE [EmptyUpdate EXCEPT !.generation = generation, !.frameChanged = TRUE,
                                            !.cursorChanged = TRUE]]
  /\ UNCHANGED view

----------------------------------------------------------------------------
(* Views. *)

\* subscribe(): a new view starts with a snapshot.
Subscribe(v) ==
  /\ v \notin Open
  /\ view' = [view EXCEPT ![v] = [NoView EXCEPT !.open = TRUE]]
  /\ mailbox' = [mailbox EXCEPT ![v] =
       [generation |-> publisher.generation, frameChanged |-> TRUE, cursorChanged |-> TRUE,
        frame |-> publisher.latest, cursor |-> publisher.cursor,
        damage |-> Whole(publisher.latest.pixels)]]
  /\ UNCHANGED publisher

\* What a view shows that repaints the damage only and keeps the rest.
Repainted(shown, update) ==
  LET pixels == update.frame.pixels
  IN [c \in DOMAIN pixels |-> IF c \in update.damage THEN pixels[c]
                              ELSE IF c \in DOMAIN shown THEN shown[c] ELSE -2]

\* take(): the view replaces the leases that the update brings.
Take(v) ==
  /\ v \in Open /\ (mailbox[v].frameChanged \/ mailbox[v].cursorChanged)
  /\ LET update == mailbox[v] IN
     view' = [view EXCEPT
       ![v].generation = update.generation,
       ![v].frame = IF update.frameChanged THEN update.frame ELSE @,
       ![v].shown = IF update.frameChanged THEN Repainted(@, update) ELSE @,
       ![v].cursor = IF update.cursorChanged THEN update.cursor ELSE @]
  /\ mailbox' = [mailbox EXCEPT ![v] = EmptyUpdate]
  /\ UNCHANGED publisher

\* The last reference to a subscription goes; its mailbox is pruned with it.
Detach(v) ==
  /\ v \in Open
  /\ view' = [view EXCEPT ![v] = NoView]
  /\ mailbox' = [mailbox EXCEPT ![v] = EmptyUpdate]
  /\ UNCHANGED publisher
=============================================================================

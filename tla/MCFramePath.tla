---- MODULE MCFramePath ----
(* Rectangles for FramePath, on two pixels: of one Tight stream, CopyRect, and Raw. *)
EXTENDS FramePath

Rectangle(encoding, order, pixel, from) ==
  [encoding |-> encoding, order |-> order, stream |-> 0, writes |-> {pixel}, reads |-> from]

Ordered == {Rectangle("Tight", "stream", 1, {}), Rectangle("Tight", "stream", 2, {}),
            Rectangle("CopyRect", "any", 2, {1}), Rectangle("Raw", "any", 2, {})}
Plain == {Rectangle("Raw", "any", 1, {})}
====

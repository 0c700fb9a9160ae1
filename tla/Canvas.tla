------------------------------- MODULE Canvas -------------------------------
(***************************************************************************)
(* src/src/rendering/software_renderer.c: a framebuffer and the primitives *)
(* drawn on it, one turn of their loops per step.  Coordinates may lie     *)
(* outside; they are small enough for int, as the code assumes.            *)
(***************************************************************************)
EXTENDS Integers, Sequences, FiniteSetsExt

CONSTANTS Width, Height,   \* of the framebuffer
          Coords,          \* coordinates of end points and centres
          MaxRadius, MaxSide,      \* bounds: of a circle, of a rectangle
          SizeMax,         \* SIZE_MAX
          Null

VARIABLES shape,           \* what is drawn: its kind and its arguments
          px, py, perr,    \* x0, y0, err of a line; x, y, d of a circle; col, row of a rectangle
          pixels,          \* offsets in the buffer that were coloured, or Null
          plotted,         \* history: the coordinates passed to set_pixel
          gpc              \* "create", "draw", "done" or "destroyed"

vars == <<shape, px, py, perr, pixels, plotted, gpc>>

Abs(n) == IF n < 0 THEN -n ELSE n
Sq(n) == n * n
Sign(from, to) == IF from < to THEN 1 ELSE -1

Shapes == [kind : {"line"}, x0 : Coords, y0 : Coords, x1 : Coords, y1 : Coords]
          \cup [kind : {"circle"}, x0 : Coords, y0 : Coords, r : -1 .. MaxRadius]
          \cup [kind : {"clear"}, x0 : {0}, y0 : {0}]
          \cup [kind : {"rect"}, x0 : Coords, y0 : Coords, w : -1 .. MaxSide, h : -1 .. MaxSide]

Dx(s) == Abs(s.x1 - s.x0)
Dy(s) == -Abs(s.y1 - s.y0)

\* The declarations at the head of framebuffer_line, _circle and _fill_rect.
Init == /\ shape \in Shapes
        /\ px = IF shape.kind = "circle" THEN shape.r ELSE shape.x0
        /\ py = IF shape.kind = "circle" THEN 0 ELSE shape.y0
        /\ perr = IF shape.kind = "line" THEN Dx(shape) + Dy(shape)
                  ELSE IF shape.kind = "circle" THEN 1 - shape.r ELSE 0
        /\ pixels = Null /\ plotted = {} /\ gpc = "create"

\* The argument checks of framebuffer_create, with four bytes per pixel.
CreateGuard(w, h) == IF w <= 0 \/ h <= 0 THEN "INVALID_ARG"
                     ELSE IF h > SizeMax \div w THEN "OVERFLOW"
                     ELSE IF w * h > SizeMax \div 4 THEN "OVERFLOW" ELSE "OK"

\* framebuffer_create: calloc may fail; then every primitive does nothing.
FramebufferCreate == /\ gpc = "create" /\ CreateGuard(Width, Height) = "OK"
                     /\ pixels' \in {Null, {}}
                     /\ gpc' = "draw"
                     /\ UNCHANGED <<shape, px, py, perr, plotted>>

\* framebuffer_destroy
FramebufferDestroy == /\ gpc = "done"
                      /\ pixels' = Null /\ gpc' = "destroyed"
                      /\ UNCHANGED <<shape, px, py, perr, plotted>>

\* Mutant: the right edge is taken to be inside.
InsideEdge(x, y) == x >= 0 /\ x <= Width /\ y >= 0 /\ y < Height

Inside(x, y) == x >= 0 /\ x < Width /\ y >= 0 /\ y < Height

\* framebuffer_set_pixel
SetPixels(points) ==
    /\ pixels' = IF pixels = Null THEN Null
                 ELSE pixels \cup {p[2] * Width + p[1] : p \in {q \in points : Inside(q[1], q[2])}}
    /\ plotted' = plotted \cup points

\* framebuffer_clear
Clear == /\ gpc = "draw" /\ shape.kind = "clear"
         /\ pixels' = IF pixels = Null THEN Null ELSE 0 .. Width * Height - 1
         /\ plotted' = {<<c, r>> : c \in 0 .. Width - 1, r \in 0 .. Height - 1}
         /\ gpc' = "done"
         /\ UNCHANGED <<shape, px, py, perr>>

\* Bresenham's algorithm.
LineStep ==
    LET right == 2 * perr >= Dy(shape)
        down == 2 * perr <= Dx(shape)
    IN /\ gpc = "draw" /\ shape.kind = "line"
       /\ SetPixels({<<px, py>>})
       /\ IF px = shape.x1 /\ py = shape.y1
          THEN gpc' = "done" /\ UNCHANGED <<px, py, perr>>
          ELSE /\ perr' = perr + (IF right THEN Dy(shape) ELSE 0) + (IF down THEN Dx(shape) ELSE 0)
               /\ px' = IF right THEN px + Sign(shape.x0, shape.x1) ELSE px
               /\ py' = IF down THEN py + Sign(shape.y0, shape.y1) ELSE py
               /\ UNCHANGED gpc
       /\ UNCHANGED shape

\* The midpoint algorithm: eight pixels per turn.
CircleStep ==
    /\ gpc = "draw" /\ shape.kind = "circle"
    /\ IF px < py THEN gpc' = "done" /\ UNCHANGED <<px, py, perr, pixels, plotted>>
       ELSE /\ SetPixels({<<shape.x0 + s * d[1], shape.y0 + t * d[2]>> :
                            s \in {1, -1}, t \in {1, -1}, d \in {<<px, py>>, <<py, px>>}})
            /\ py' = py + 1
            /\ IF perr <= 0 THEN px' = px /\ perr' = perr + 2 * py' + 1
                            ELSE px' = px - 1 /\ perr' = perr + 2 * (py' - px') + 1
            /\ UNCHANGED gpc
    /\ UNCHANGED shape

\* One row of a rectangle.
RectStep ==
    /\ gpc = "draw" /\ shape.kind = "rect"
    /\ IF py >= shape.y0 + shape.h THEN gpc' = "done" /\ UNCHANGED <<py, pixels, plotted>>
       ELSE /\ SetPixels({<<c, py>> : c \in shape.x0 .. shape.x0 + shape.w - 1})
            /\ py' = py + 1
            /\ UNCHANGED gpc
    /\ UNCHANGED <<shape, px, perr>>

Next == \/ FramebufferCreate \/ Clear \/ LineStep \/ CircleStep \/ RectStep
        \/ FramebufferDestroy
        \/ gpc = "destroyed" /\ UNCHANGED vars

Spec == Init /\ [][Next]_vars

(***************************************************************************)
(* software_renderer.c: what is written lies in the buffer and is what was *)
(* plotted and visible; a line runs from end to end, one pixel per step of *)
(* its longer axis, each within half a pixel of the ideal line; a circle's *)
(* pixels are within half a pixel of its radius; a rectangle is full.  On  *)
(* a framebuffer that could not be created nothing is written, and a size  *)
(* that is accepted fits in size_t in bytes.                               *)
(***************************************************************************)
LineIsStraight ==
    LET dx == shape.x1 - shape.x0
        dy == shape.y1 - shape.y0
        longer == Max({Abs(dx), Abs(dy)})
    IN /\ \A p \in plotted :
            2 * Abs(dx * (p[2] - shape.y0) - dy * (p[1] - shape.x0)) <= longer
       /\ Cardinality(plotted) <= longer + 1
       /\ gpc = "done" => /\ Cardinality(plotted) = longer + 1
                          /\ {<<shape.x0, shape.y0>>, <<shape.x1, shape.y1>>} \subseteq plotted

CircleIsRound ==
    /\ \A p \in plotted : Abs(Sq(p[1] - shape.x0) + Sq(p[2] - shape.y0) - Sq(shape.r)) <= shape.r
    /\ gpc = "done" /\ shape.r >= 0 =>
         \A k \in -shape.r .. shape.r : \E p \in plotted : p[1] = shape.x0 + k

ShapesAreExact ==
    /\ pixels # Null =>
         /\ pixels = {p[2] * Width + p[1] : p \in {q \in plotted : q[1] \in 0 .. Width - 1 /\ q[2] \in 0 .. Height - 1}}
         /\ pixels \subseteq 0 .. Width * Height - 1
    /\ gpc = "create" => \A w, h \in -1 .. SizeMax :
         CreateGuard(w, h) = "OK" <=> w > 0 /\ h > 0 /\ 4 * w * h <= SizeMax
    /\ shape.kind = "line" => LineIsStraight
    /\ shape.kind = "circle" => CircleIsRound
    /\ shape.kind = "rect" /\ gpc = "done" =>
         plotted = {<<c, r>> : c \in shape.x0 .. shape.x0 + shape.w - 1, r \in shape.y0 .. shape.y0 + shape.h - 1}
=============================================================================

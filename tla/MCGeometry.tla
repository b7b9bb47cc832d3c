------------------------------ MODULE MCGeometry ------------------------------
(***************************************************************************)
(* Model checking of Geometry.  All sizes are even, so that halves are     *)
(* exact: with odd ones a centred window creeps by a pixel.                *)
(***************************************************************************)
EXTENDS Geometry

\* The extent of the screen that the client may cover.
MCScreen == -4..2

\* Some hints for each gravity, with others to change to: none, a fixed size, increments
\* that count from the minimum, ones that count from a smaller base and so step below the
\* minimum, ones that step below the maximum, and a maximum below a minimum.
Free(g) == [base |-> None, min |-> None, max |-> 0, inc |-> 0, gravity |-> g]
Fixed(g) == [Free(g) EXCEPT !.min = 6, !.max = 6]
Stepped(g) == [Free(g) EXCEPT !.min = 2, !.inc = 4]
Undercut(g) == [Free(g) EXCEPT !.base = 0, !.min = 4, !.inc = 6]
Capped(g) == [Free(g) EXCEPT !.base = 2, !.min = 0, !.max = 4, !.inc = 4]
Crossed(g) == [Free(g) EXCEPT !.base = 4, !.min = 6, !.max = 2, !.inc = 4]

MCSizeHints == {Fixed("left"), Undercut("left"), Free("center"), Stepped("right"), Capped("right"),
                Crossed("static")}
=============================================================================

------------------------------- MODULE Geometry -------------------------------
(***************************************************************************)
(* Where a client is, along one axis: the geometry of its frame that        *)
(* awesome decides on (c->geometry), what the last refresh has sent to the  *)
(* X server, what the server has made of it, and what the application has   *)
(* been told.  Sizes come from three parties: Lua code, the application     *)
(* (ConfigureRequest, size hints) and the decoration around its window,     *)
(* two titlebars inside of the frame and the frame's border.  The window    *)
(* gravity says which point of the window must not move when they change.   *)
(*                                                                         *)
(* x and width are modelled; y and height are treated alike in the code,    *)
(* with the titlebars at the top and the bottom.                            *)
(***************************************************************************)
EXTENDS Integers

CONSTANTS Place,      \* the positions Lua code and the application ask for
          Width,      \* the widths they ask for
          BorderSize, \* the border widths they ask for
          BarSize,    \* the sizes of a titlebar
          SizeHints,  \* the WM_NORMAL_HINTS the application may have
          None,       \* no value: a flag that is not set, a request without it
          Screen,     \* bounds the positions a change may lead to
          MaxWidth,   \* bounds the widths it may lead to
          MaxPending  \* bounds the changes between two refreshes

Gravity == {"left", "center", "right", "static"}

\* base and min may be absent (None), which is not the same as being 0; no
\* gravity flag has the effect of "left".
Hints == [base : Nat \cup {None}, min : Nat \cup {None}, max : Nat, inc : Nat, gravity : Gravity]

ASSUME SizesAssumption ==
    /\ Place \subseteq Int /\ 0 \in BorderSize /\ 0 \in BarSize
    /\ Width \subseteq Nat \ {0} /\ BorderSize \subseteq Nat /\ BarSize \subseteq Nat
    /\ SizeHints \subseteq Hints /\ None \notin Int
    /\ Screen \subseteq Int /\ MaxWidth \in Nat /\ MaxPending \in Nat

VARIABLES client,  \* client_t: its fields below, and whether it is managed
          hints,   \* c->size_hints, the WM_NORMAL_HINTS of the window
          server,  \* the X server: frame and border, and the window inside
          told,    \* the last ConfigureNotify sent to the application
          asked,   \* a ConfigureRequest waits for an answer (history)
          anchor,  \* where the fixed point of the window belongs (history)
          pending  \* the number of changes since the last refresh (a bound)

vars == <<client, hints, server, told, asked, anchor, pending>>

Area == [x : Int, width : Nat]

ClientTypeOK ==
    client \in [managed : BOOLEAN, geometry : Area, border : Nat, left : Nat, right : Nat,
                fullscreen : BOOLEAN, honor : BOOLEAN, gotRequest : BOOLEAN,
                x11Frame : Area, x11Client : [x : Int, width : Int]]

TypeOK == /\ ClientTypeOK
          /\ hints \in Hints
          /\ server \in [frame : Area, border : Nat, window : Area]
          /\ told \in [area : [x : Int, width : Int], border : Nat] \cup {None}
          /\ asked \in BOOLEAN
          /\ anchor \in Int
          /\ pending \in 0..MaxPending

-----------------------------------------------------------------------------
(* Arithmetic of the decoration.                                           *)

\* n / 2 in C, which truncates toward zero.
Half(n) == IF n >= 0 THEN n \div 2 ELSE -((-n) \div 2)

\* xwindow_translate_for_gravity: what x moves by when the window grows by
\* before on its left and by after on its right.
Translate(before, after) ==
    CASE hints.gravity = "left"   -> 0
      [] hints.gravity = "center" -> Half(-(before + after))
      [] hints.gravity = "right"  -> -(before + after)
      [] hints.gravity = "static" -> -before

\* The fixed point of a window that is at x (its outer corner) with this width
\* and border.
FixedPoint(x, width, border) ==
    CASE hints.gravity = "left"   -> x
      [] hints.gravity = "center" -> x + border + Half(width)
      [] hints.gravity = "right"  -> x + 2 * border + width
      [] hints.gravity = "static" -> x + border

Bars(c) == c.left + c.right

\* client_get_undecorated_geometry.
Undecorated(c) ==
    IF c.fullscreen THEN c.geometry
    ELSE [x |-> c.geometry.x + Translate(-c.left - c.border, -c.right - c.border),
          width |-> c.geometry.width - Bars(c)]

\* The window inside of the frame: real_geometry of client_geometry_refresh.
RealGeometry(c) ==
    IF c.fullscreen THEN [x |-> 0, width |-> c.geometry.width]
    ELSE [x |-> c.left, width |-> c.geometry.width - Bars(c)]

\* client_isfixed.
IsFixed(c) == c.honor /\ hints.max > 0 /\ hints.min = hints.max

\* client_apply_size_hints, for the width without decoration.
ApplySizeHints(width) ==
    LET base == IF hints.base # None THEN hints.base
                ELSE IF hints.min # None THEN hints.min ELSE 0
        min  == IF hints.min # None THEN hints.min ELSE base
        raised  == IF width < min THEN min ELSE width
        lowered == IF hints.max > 0 /\ raised > hints.max THEN hints.max ELSE raised
        above   == IF lowered > base THEN lowered - base ELSE 0
    IN  IF hints.inc > 0 THEN lowered - (above % hints.inc) ELSE lowered

\* client_resize without its checks against the titlebars.
ResizeUnchecked(c, area, honor) ==
    LET width == IF honor /\ ~c.fullscreen THEN ApplySizeHints(area.width - Bars(c)) + Bars(c)
                 ELSE area.width
    IN  IF width <= 0 THEN c.geometry ELSE [x |-> area.x, width |-> width]

\* client_resize: the geometry that results, the old one if it refuses.
Resize(c, area, honor) ==
    LET width == IF honor /\ ~c.fullscreen THEN ApplySizeHints(area.width - Bars(c)) + Bars(c)
                 ELSE area.width
    IN  IF (honor /\ area.width < Bars(c)) \/ width < Bars(c) \/ width = 0
        THEN c.geometry
        ELSE [x |-> area.x, width |-> width]

\* luaA_client_geometry: the width of a client of fixed size is not changed.
LuaGeometry(c, area) ==
    Resize(c, IF IsFixed(c) THEN [area EXCEPT !.width = c.geometry.width] ELSE area, c.honor)

-----------------------------------------------------------------------------
(* Life.                                                                   *)

NoArea == [x |-> 0, width |-> 0]
NoClient == [managed |-> FALSE, geometry |-> NoArea, border |-> 0, left |-> 0, right |-> 0,
             fullscreen |-> FALSE, honor |-> FALSE, gotRequest |-> FALSE,
             x11Frame |-> NoArea, x11Client |-> NoArea]

\* The application has created its window, on the root window.  Until it is
\* managed, server.frame is the window's own geometry.
Init == /\ client = NoClient
        /\ hints \in SizeHints
        /\ \E x \in Place, w \in Width, b \in BorderSize :
            /\ server = [frame |-> [x |-> x, width |-> w], border |-> b,
                         window |-> [x |-> 0, width |-> w]]
            /\ anchor = FixedPoint(x, w, b)
        /\ told = None
        /\ asked = FALSE
        /\ pending = 0

\* One more change of the client before the next refresh.
Change(c) == /\ pending < MaxPending
             /\ c.geometry.x \in Screen /\ c.geometry.width <= MaxWidth
             /\ client' = c
             /\ pending' = pending + 1

AnchorOf(c) == LET g == Undecorated(c) IN FixedPoint(g.x, g.width, 0)

\* client_manage: the frame takes the window's place and its border.  The hints
\* are read afterwards, so the border's callback translates nothing.
Manage ==
    /\ ~client.managed
    /\ client' = [NoClient EXCEPT !.managed = TRUE, !.honor = TRUE,
                                  !.geometry = server.frame, !.border = server.border]
    /\ pending' = 0
    /\ UNCHANGED <<hints, server, told, asked, anchor>>

\* Nothing is pending: the last refresh has sent what awesome has decided on.
Settled == /\ client.x11Frame = client.geometry
           /\ client.x11Client = RealGeometry(client)
           /\ ~client.gotRequest
           /\ server.border = client.border

\* client_unmanage, and awesome_atexit for a restart: the window goes back to the
\* root window, where its undecorated geometry says, with the size it has now.
Unmanage ==
    LET x == Undecorated(client).x
        width == server.window.width
    IN  /\ client.managed
        /\ client' = NoClient
        /\ server' = [frame |-> [x |-> x, width |-> width], border |-> 0,
                      window |-> [x |-> 0, width |-> width]]
        /\ anchor' = IF Settled /\ RealGeometry(client).width > 0 /\ ~client.fullscreen
                     THEN anchor ELSE FixedPoint(x, width, 0)
        /\ told' = None
        /\ asked' = FALSE
        /\ pending' = 0
        /\ UNCHANGED hints

-----------------------------------------------------------------------------
(* What changes the geometry.                                              *)

\* client_resize_do stores the geometry; everything else it does is telling
\* Lua code and the titlebars' drawables.
ResizeDo(c, area) == [c EXCEPT !.geometry = area]

\* window_set_border_width and border_width_callback.
WithBorder(c, border) ==
    LET diff == border - c.border
    IN  [c EXCEPT !.border = border,
                  !.geometry = [x |-> c.geometry.x + Translate(diff, diff),
                                width |-> c.geometry.width]]

\* The frame's geometry that a ConfigureRequest asks for.
RequestedArea(c, x, width) ==
    LET asWide == IF width = None THEN c.geometry.width ELSE width + Bars(c)
    IN  [x |-> IF x = None
               THEN c.geometry.x + Translate(0, asWide - c.geometry.width)
               ELSE x + Translate(c.border + c.left, c.border + c.right),
         width |-> asWide]

\* event_handle_configurerequest: the border is set, then Lua code is asked for
\* the rest, which it grants with c:geometry() or does not.
ConfigureRequest(x, width, border) ==
    LET c == [WithBorder(client, IF border = None THEN client.border ELSE border)
                EXCEPT !.gotRequest = TRUE]
        area == RequestedArea(c, x, width)
        granted == ResizeDo(c, LuaGeometry(c, area))
    IN  /\ client.managed
        /\ asked' = TRUE
        /\ \/ /\ Change(granted)
              /\ anchor' = IF c.fullscreen THEN anchor
                           ELSE IF granted.geometry # area THEN AnchorOf(granted)
                           ELSE IF x = None THEN anchor
                           ELSE FixedPoint(x, area.width - Bars(c), 0)
           \/ Change(c) /\ UNCHANGED anchor
        /\ UNCHANGED <<hints, server, told>>

\* c:geometry() and, without hints, screen_client_moveto: Lua code puts the
\* client somewhere, which is where it belongs from then on.
LuaMoves(area) ==
    /\ client.managed
    /\ \E c \in {ResizeDo(client, LuaGeometry(client, area)),
                 ResizeDo(client, Resize(client, area, FALSE))} :
        Change(c) /\ anchor' = AnchorOf(c)
    /\ UNCHANGED <<hints, server, told, asked>>

\* c.border_width = border.
SetBorderWidth(border) ==
    /\ client.managed /\ border # client.border
    /\ Change(WithBorder(client, border))
    /\ UNCHANGED <<hints, server, told, asked, anchor>>

\* titlebar_resize without the translation for the gravity.
TitlebarResizeInPlace(left, right) ==
    /\ client.managed
    /\ (left = client.left) # (right = client.right)
    /\ Change([client EXCEPT !.left = left, !.right = right,
                              !.geometry.width = @ + left + right - Bars(client)])
    /\ UNCHANGED <<hints, server, told, asked, anchor>>

\* titlebar_resize, of one of the two titlebars: the frame grows or shrinks with
\* it, so that the window inside keeps its size.
TitlebarResize(left, right) ==
    LET area == [x |-> client.geometry.x + Translate(left - client.left, right - client.right),
                 width |-> client.geometry.width + left + right - Bars(client)]
    IN  /\ client.managed
        /\ (left = client.left) # (right = client.right)
        /\ Change(ResizeDo([client EXCEPT !.left = left, !.right = right], area))
        /\ UNCHANGED <<hints, server, told, asked, anchor>>

\* client_set_fullscreen: Lua code may resize the client when it is asked to
\* (request::geometry), the flag being set already.
SetFullscreen(fullscreen, area) ==
    LET c == [client EXCEPT !.fullscreen = fullscreen]
    IN  /\ client.managed /\ fullscreen # client.fullscreen
        /\ \E resized \in {c, ResizeDo(c, LuaGeometry(c, area))} :
            Change(resized) /\ anchor' = AnchorOf(resized)
        /\ UNCHANGED <<hints, server, told, asked>>

\* c.size_hints_honor = honor.
SetSizeHintsHonor(honor) ==
    /\ client.managed /\ honor # client.honor
    /\ Change([client EXCEPT !.honor = honor])
    /\ UNCHANGED <<hints, server, told, asked, anchor>>

\* property_update_wm_normal_hints: nothing is resized.  An application changes
\* its sizes only, and keeps its gravity.
UpdateNormalHints(h) ==
    /\ h # hints /\ h.gravity = hints.gravity
    /\ hints' = h
    /\ UNCHANGED <<client, pending, server, told, asked, anchor>>

-----------------------------------------------------------------------------
(* client_geometry_refresh, then client_border_refresh.                    *)

\* client_send_configure.
Notification == [area |-> [x |-> client.geometry.x + client.border + RealGeometry(client).x,
                           width |-> RealGeometry(client).width],
                 border |-> client.border]

\* The server refuses to make a window less than one pixel wide.
Configured(old, area) == IF area.width > 0 THEN area ELSE old

SendGeometry ==
    /\ server' = [frame |-> Configured(server.frame, client.geometry),
                  border |-> client.border,
                  window |-> Configured(server.window, RealGeometry(client))]
    /\ client' = [client EXCEPT !.x11Frame = client.geometry, !.gotRequest = FALSE,
                                !.x11Client = RealGeometry(client)]
    /\ told' = Notification
    /\ asked' = FALSE

\* client_refresh that compares the frames only.
RefreshFrameOnly ==
    /\ client.managed
    /\ IF client.x11Frame # client.geometry
       THEN SendGeometry
       ELSE /\ server' = [server EXCEPT !.border = client.border]
            /\ told' = IF client.gotRequest THEN Notification ELSE told
            /\ asked' = (asked /\ ~client.gotRequest)
            /\ client' = [client EXCEPT !.gotRequest = FALSE]
    /\ pending' = 0
    /\ UNCHANGED <<hints, anchor>>

\* client_refresh: what has changed is sent, and a request that has changed
\* nothing is answered too.
Refresh ==
    /\ client.managed
    /\ IF client.x11Frame # client.geometry \/ client.x11Client # RealGeometry(client)
       THEN SendGeometry
       ELSE /\ server' = [server EXCEPT !.border = client.border]
            /\ told' = IF client.gotRequest THEN Notification ELSE told
            /\ asked' = (asked /\ ~client.gotRequest)
            /\ client' = [client EXCEPT !.gotRequest = FALSE]
    /\ pending' = 0
    /\ UNCHANGED <<hints, anchor>>

Next == \/ Manage \/ Unmanage \/ Refresh
        \/ \E x \in Place \cup {None}, w \in Width \cup {None}, b \in BorderSize \cup {None} :
              ConfigureRequest(x, w, b)
        \/ \E x \in Place, w \in Width : LuaMoves([x |-> x, width |-> w])
        \/ \E b \in BorderSize : SetBorderWidth(b)
        \/ \E l, r \in BarSize : TitlebarResize(l, r)
        \/ \E f \in BOOLEAN, x \in Place, w \in Width : SetFullscreen(f, [x |-> x, width |-> w])
        \/ \E h \in BOOLEAN : SetSizeHintsHonor(h)
        \/ \E h \in SizeHints : UpdateNormalHints(h)

Spec == Init /\ [][Next]_vars

-----------------------------------------------------------------------------
(* Properties.                                                             *)

\* The titlebars of a client always fit into its frame: whatever Lua code, the
\* application and the hints ask for, the widths that awesome subtracts them
\* from, as unsigned numbers, never get below zero.
ContentFits == client.geometry.width >= Bars(client)

\* The application knows where it is: when nothing is pending, the last
\* ConfigureNotify it got says where its window is on the screen and how wide,
\* as long as the border has not been changed since.
AppKnowsItsPlace ==
    (client.managed /\ Settled /\ RealGeometry(client).width > 0
        /\ told # None /\ told.border = client.border) =>
        told.area = [x |-> server.frame.x + server.border + server.window.x,
                     width |-> server.window.width]

\* ICCCM 4.1.2.3: decorations come and go around the point that the window's
\* gravity names.  The undecorated window stays where the application, or Lua
\* code, has last put it, through titlebars, borders, the window's own resizing,
\* restarts and being managed again.
AnchorKept ==
    (client.managed /\ ~client.fullscreen) => AnchorOf(client) = anchor

\* What client_apply_size_hints makes of a width, said of the result alone.  The maximum
\* always holds.  Above the base the width is a whole number of increments.  The minimum
\* (or a maximum below it) may be missed, by less than an increment and not below the
\* base, since increments are taken off last: it holds where it is such a number itself.
Respected(h, width) ==
    LET base  == IF h.base # None THEN h.base ELSE IF h.min # None THEN h.min ELSE 0
        min   == IF h.min # None THEN h.min ELSE base
        least == IF h.max > 0 /\ h.max < min THEN h.max ELSE min
    IN  /\ h.max > 0 => width <= h.max
        /\ (h.inc > 0 /\ width >= base) => (width - base) % h.inc = 0
        /\ \/ width >= least
           \/ h.inc > 0 /\ width >= base /\ width + h.inc > least

\* While a client honours its hints and is not fullscreen, no ConfigureRequest
\* changes its window, inside of the titlebars, to a size that is not as the hints
\* say, however minimum, base, maximum and increment meet.
HintsObeyed ==
    (/\ ~asked /\ asked'
     /\ client.honor /\ ~client.fullscreen
     /\ RealGeometry(client').width # RealGeometry(client).width)
        => Respected(hints, RealGeometry(client').width)

\* ICCCM 4.1.5: every ConfigureRequest of a managed client is answered with a
\* ConfigureNotify, also one that is denied or changes nothing: when nothing is
\* pending, no request is left without an answer.
RequestsAnswered == (client.managed /\ Settled) => ~asked

\* Together: an application is never left without an answer, nor with a wrong idea of its place.
AppIsInformed == AppKnowsItsPlace /\ RequestsAnswered

\* Together: no step moves a window off its fixed point, and no request makes it a size
\* that is not as its hints say.
PlacesAreKept == [][AnchorKept' /\ HintsObeyed]_vars
=============================================================================

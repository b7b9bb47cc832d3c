------------------------------- MODULE Drawing -------------------------------
(***************************************************************************)
(* What awesome draws: the drawables (objects/drawable.c) of drawins       *)
(* (objects/drawin.c) and of titlebars (objects/client.c), into whose      *)
(* pixmaps Lua code draws, and the windows that show them.  The X server   *)
(* does not keep what windows show: it loses it when a window is unmapped, *)
(* resized or covered, and sends Expose events, on which awesome copies    *)
(* the pixmap again.  Windows are resized later than the drawables: a      *)
(* drawin before the next copy or when awesome is idle, the frame of a     *)
(* client when awesome is idle.                                            *)
(*                                                                         *)
(* Windows have one dimension and are a row of pixels from 1.  The requests*)
(* are executed at once: awesome reads no answer, and Expose events that   *)
(* arrive later are as good as requests that are executed later.           *)
(***************************************************************************)
EXTENDS Integers

CONSTANTS MaxWidth,     \* bound: widths of windows
          MaxX,         \* bound: their positions
          MaxBar,       \* bound: sizes of titlebars
          MaxDrawCalls  \* bound: calls of Lua code

ASSUME DrawingAssumption == MaxWidth \in Nat \ {0} /\ MaxX \in Nat /\ MaxBar \in Nat

Bar == {"left", "right"}
Content == {"lost", "undrawn", "white", "black"}   \* what a pixel of a window shows
Pixel == 1..MaxWidth

VARIABLES drawable,    \* of the drawin and of the titlebars: exists, the area [x, width], pixmap (what
                       \* it holds, or "none") and refreshed
          visible,     \* of the drawin
          place,       \* of the drawin and of the frame: geometry, [x, width]
          dirty,       \* geometry_dirty of the drawin; whether the frame's x11 geometry is another
          size,        \* of the titlebars
          fullscreen,
          window,      \* the server's drawin and frame: mapped, width, child (the pixels covered by the
                       \* client's window), content, and the pixels of Expose events to be handled
          moved,       \* history: the titlebars that have been drawn and have moved in the frame since,
                       \* but not on the root window
          drawCalls

drawingVars == <<drawable, visible, place, dirty, size, fullscreen, window, moved, drawCalls>>

DrawingTypeOK ==
    /\ DOMAIN drawable = Bar \cup {"drawin"}
    /\ \A d \in DOMAIN drawable : drawable[d].pixmap \in Content \cup {"none"}
    /\ \A w \in {"drawin", "frame"} : /\ window[w].width \in Pixel /\ place[w].width \in Pixel
                                      /\ window[w].content \in [Pixel -> Content]
                                      /\ window[w].expose \subseteq Pixel
    /\ size \in [Bar -> 0..MaxBar]

-----------------------------------------------------------------------------
(* The X server.  Neither window has a background.                         *)

Shown(w) == IF w.mapped THEN (1..w.width) \ w.child ELSE {}

\* A window after a request: what was shown and still is stays (the gravity is NorthWest),
\* what is shown from now on is exposed.
Changed(w, new) ==
    [new EXCEPT !.content = [p \in Pixel |-> IF p \in Shown(w) \cap Shown(new) THEN w.content[p] ELSE "lost"],
                !.expose = w.expose \cup (Shown(new) \ Shown(w))]

\* CopyArea from a pixmap to the pixels.
Copied(w, pixmap, pixels) ==
    [w EXCEPT !.content = [p \in Pixel |-> IF p \in pixels \cap Shown(w) THEN pixmap ELSE @[p]]]

-----------------------------------------------------------------------------
(* Drawables.                                                              *)

\* drawable_set_geometry, drawable_unset_surface: any change makes a new pixmap.
SetGeometry(d, x, width) ==
    IF d.x = x /\ d.width = width THEN d
    ELSE [d EXCEPT !.x = x, !.width = width, !.pixmap = IF width > 0 THEN "undrawn" ELSE "none",
                   !.refreshed = FALSE]

\* drawin_refresh_pixmap_partial and client_refresh_titlebar_partial copy nothing else.
Copies(d) == d.exists /\ d.pixmap # "none" /\ d.refreshed

-----------------------------------------------------------------------------
(* Drawins.                                                                *)

\* drawin_apply_moveresize.
ApplyMoveResize(w) == IF dirty["drawin"] THEN Changed(w, [w EXCEPT !.width = place["drawin"].width]) ELSE w

\* drawin_refresh_pixmap_partial.
DrawinPartial(d, pixels) ==
    IF Copies(d)
    THEN /\ window' = [window EXCEPT !["drawin"] = Copied(ApplyMoveResize(@), d.pixmap, pixels)]
         /\ dirty' = [dirty EXCEPT !["drawin"] = FALSE]
    ELSE UNCHANGED <<window, dirty>>

DrawCall == drawCalls > 0 /\ drawCalls' = drawCalls - 1

\* drawin_moveresize, from luaA_drawin_geometry and the setters of x and width.
DrawinMoveResize(x, width) ==
    /\ place' = [place EXCEPT !["drawin"] = [x |-> x, width |-> width]]
    /\ dirty' = [dirty EXCEPT !["drawin"] = TRUE]
    /\ drawable' = [drawable EXCEPT !["drawin"] = SetGeometry(@, x, width)]
    /\ DrawCall
    /\ UNCHANGED <<visible, size, fullscreen, window, moved>>

\* drawin_set_visible, drawin_map: the window, then a surface if there is none.
ShowDrawin ==
    /\ ~visible
    /\ visible' = TRUE
    /\ window' = [window EXCEPT !["drawin"] = LET w == ApplyMoveResize(@)
                                              IN  Changed(w, [w EXCEPT !.mapped = TRUE])]
    /\ dirty' = [dirty EXCEPT !["drawin"] = FALSE]
    /\ drawable' = [drawable EXCEPT !["drawin"] =
                        IF @.pixmap = "none" THEN SetGeometry(@, place["drawin"].x, place["drawin"].width)
                        ELSE @]
    /\ DrawCall
    /\ UNCHANGED <<place, size, fullscreen, moved>>

\* drawin_set_visible, drawin_unmap.
HideDrawin ==
    /\ visible
    /\ visible' = FALSE
    /\ window' = [window EXCEPT !["drawin"] = Changed(@, [@ EXCEPT !.mapped = FALSE])]
    /\ DrawCall
    /\ UNCHANGED <<drawable, place, dirty, size, fullscreen, moved>>

\* drawin_refresh, when awesome is idle.
DrawinRefresh ==
    /\ visible /\ dirty["drawin"]
    /\ window' = [window EXCEPT !["drawin"] = ApplyMoveResize(@)]
    /\ dirty' = [dirty EXCEPT !["drawin"] = FALSE]
    /\ UNCHANGED <<drawable, visible, place, size, fullscreen, moved, drawCalls>>

-----------------------------------------------------------------------------
(* Titlebars.                                                              *)

\* titlebar_get_area: the pixels of the frame, for a width of the frame.
First(b, width, sizes) == IF b = "left" THEN 1 ELSE width - sizes["right"] + 1
BarPosition(b) == First(b, place["frame"].width, size)
Area(b) == BarPosition(b)..(BarPosition(b) + size[b] - 1)

\* Stopping at the first that is to be drawn.
OneTitlebarShown(w, pixels) ==
    LET bar == {b \in Bar : Copies(drawable[b]) /\ Area(b) \cap pixels # {}}
    IN  IF bar = {} THEN w
        ELSE LET b == IF "right" \in bar THEN "right" ELSE "left"
             IN  Copied(w, drawable[b].pixmap, Area(b) \cap pixels)

\* client_refresh_partial: what is outside of a titlebar's pixmap stays, there being no
\* background.
TitlebarsShown(w, pixels) ==
    [w EXCEPT !.content = [p \in Pixel |->
        IF p \in pixels \cap Shown(w) /\ \E b \in Bar : Copies(drawable[b]) /\ p \in Area(b)
        THEN drawable[CHOOSE b \in Bar : Copies(drawable[b]) /\ p \in Area(b)].pixmap
        ELSE @[p]]]

\* client_resize_do: the titlebars; those of fullscreen clients have no surface.
ResizeDo(x, width, sizes, full) ==
    /\ place' = [place EXCEPT !["frame"] = [x |-> x, width |-> width]]
    /\ size' = sizes /\ fullscreen' = full
    /\ drawable' = [d \in DOMAIN drawable |->
           IF d = "drawin" \/ (~drawable[d].exists /\ sizes[d] = 0) THEN drawable[d]
           ELSE [SetGeometry(drawable[d], x + First(d, width, sizes), IF full THEN 0 ELSE sizes[d])
                 EXCEPT !.exists = TRUE]]
    /\ moved' = {b \in Bar : drawable'[b].refreshed /\
                             (b \in moved \/ First(b, width, sizes) # BarPosition(b))}
    /\ dirty' = [dirty EXCEPT !["frame"] = TRUE]
    /\ DrawCall
    /\ UNCHANGED <<visible, window>>

\* client_resize; nothing may be left to the client's window.
ResizeClient(x, width) == width >= size["left"] + size["right"] /\ ResizeDo(x, width, size, fullscreen)

\* titlebar_resize: the frame grows and shrinks with the titlebar, here never to nothing.
TitlebarResize(b, s) ==
    LET width == place["frame"].width + s - size[b]
    IN  /\ s # size[b] /\ width \in Pixel
        /\ ResizeDo(place["frame"].x, width, [size EXCEPT ![b] = s], fullscreen)

\* client_set_fullscreen.
SetFullscreen == ResizeDo(place["frame"].x, place["frame"].width, size, ~fullscreen)

\* client_geometry_refresh: the frame, then the client's window.  The server refuses a
\* window without pixels: the client's stays where it is then.
GeometryRefresh ==
    /\ dirty["frame"]
    /\ window' = [window EXCEPT !["frame"] =
           LET framed == Changed(@, [@ EXCEPT !.width = place["frame"].width])
               child  == IF fullscreen THEN 1..framed.width
                         ELSE IF size["left"] + size["right"] = framed.width THEN framed.child
                         ELSE (1..framed.width) \ (Area("left") \cup Area("right"))
           IN  Changed(framed, [framed EXCEPT !.child = child])]
    /\ dirty' = [dirty EXCEPT !["frame"] = FALSE]
    /\ UNCHANGED <<drawable, visible, place, size, fullscreen, moved, drawCalls>>

\* client_ban and client_unban unmap and map the frame.
BanOrUnban ==
    /\ \E mapped \in BOOLEAN \ {window["frame"].mapped} :
           window' = [window EXCEPT !["frame"] = Changed(@, [@ EXCEPT !.mapped = mapped])]
    /\ DrawCall
    /\ UNCHANGED <<drawable, visible, place, dirty, size, fullscreen, moved>>

-----------------------------------------------------------------------------
(* Both.                                                                   *)

\* Lua code draws into the surface and calls luaA_drawable_refresh, which copies it all.
Redraw(d) ==
    /\ drawable[d].pixmap # "none"
    /\ drawable' = [drawable EXCEPT ![d].refreshed = TRUE,
                                    ![d].pixmap = IF @ = "white" THEN "black" ELSE "white"]
    /\ IF d = "drawin" THEN DrawinPartial(drawable'[d], 1..place["drawin"].width)
       ELSE window' = [window EXCEPT !["frame"] = Copied(@, drawable'[d].pixmap, Area(d))] /\ dirty' = dirty
    /\ moved' = moved \ {d}
    /\ DrawCall
    /\ UNCHANGED <<visible, place, size, fullscreen>>

\* The rectangles of Expose events.
Rectangle(w) == {r \in {from..to : from, to \in Pixel} :
                     r # {} /\ r \subseteq window[w].expose}

\* event_handle_expose, which finds visible drawins and frames of clients.
HandleExpose(w, r) ==
    LET handled == [window EXCEPT ![w].expose = @ \ r]
    IN  IF w = "frame"
        THEN window' = [handled EXCEPT !["frame"] = TitlebarsShown(@, r)] /\ dirty' = dirty
        ELSE IF visible /\ Copies(drawable["drawin"])
        THEN /\ window' = [handled EXCEPT !["drawin"] =
                              Copied(ApplyMoveResize(@), drawable["drawin"].pixmap, r)]
             /\ dirty' = [dirty EXCEPT !["drawin"] = FALSE]
        ELSE window' = handled /\ dirty' = dirty

Expose == \E w \in {"drawin", "frame"} : \E r \in Rectangle(w) :
              /\ HandleExpose(w, r)
              /\ UNCHANGED <<drawable, visible, place, size, fullscreen, moved, drawCalls>>

DrawingInit ==
    /\ drawable = [d \in Bar \cup {"drawin"} |->
           [exists |-> d = "drawin", x |-> 0, width |-> 0, pixmap |-> "none", refreshed |-> FALSE]]
    /\ visible = FALSE
    /\ place = [w \in {"drawin", "frame"} |-> [x |-> 0, width |-> 1]]
    /\ dirty = [w \in {"drawin", "frame"} |-> FALSE]
    /\ size = [b \in Bar |-> 0] /\ fullscreen = FALSE
    /\ window = [w \in {"drawin", "frame"} |->
           [mapped |-> FALSE, width |-> place[w].width, child |-> IF w = "frame" THEN 1..place[w].width ELSE {},
            content |-> [p \in Pixel |-> "lost"], expose |-> {}]]
    /\ moved = {} /\ drawCalls = MaxDrawCalls

DrawingNext ==
    \/ ShowDrawin \/ HideDrawin \/ DrawinRefresh \/ GeometryRefresh \/ SetFullscreen \/ BanOrUnban \/ Expose
    \/ \E x \in 0..MaxX, width \in Pixel : DrawinMoveResize(x, width) \/ ResizeClient(x, width)
    \/ \E b \in Bar, s \in 0..MaxBar : TitlebarResize(b, s)
    \/ \E d \in Bar \cup {"drawin"} : Redraw(d)

DrawingSpec == DrawingInit /\ [][DrawingNext]_drawingVars

-----------------------------------------------------------------------------
\* A pixel shows what was drawn last or an Expose event for it is to be handled: whatever
\* happens to windows between the drawing, the refresh and the events, nothing that was
\* drawn is missing in the end, except in a titlebar that changes of the client's geometry
\* have left at its place on the root window but not in the frame (moved).
NothingDrawnIsLost ==
    /\ visible /\ drawable["drawin"].refreshed /\ ~dirty["drawin"] =>
           \A p \in 1..place["drawin"].width :
               window["drawin"].content[p] = drawable["drawin"].pixmap \/ p \in window["drawin"].expose
    /\ ~dirty["frame"] => \A b \in Bar \ moved : Copies(drawable[b]) =>
           \A p \in Area(b) \cap Shown(window["frame"]) :
               window["frame"].content[p] = drawable[b].pixmap \/ p \in window["frame"].expose

\* No window ever shows a new pixmap into which nothing has been drawn yet.
UndrawnIsNeverShown == \A w \in {"drawin", "frame"}, p \in Pixel : window[w].content[p] # "undrawn"

\* Together: windows show what was drawn into their drawables and nothing else.
DrawingInv == DrawingTypeOK /\ NothingDrawnIsLost /\ UndrawnIsNeverShown
=============================================================================

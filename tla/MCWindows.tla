------------------------------ MODULE MCWindows ------------------------------
(***************************************************************************)
(* Model checking of what awesome does with windows, screens and the root  *)
(* window.  The components share no state, so nothing is learnt from       *)
(* interleaving them:                                                      *)
(* a behaviour is about one of them, its part, and the others stay in one  *)
(* of their initial states.                                                *)
(***************************************************************************)
EXTENDS ClientList, Layers, Screens, Workarea, Drawing, Wallpaper, Takeover

VARIABLE part      \* the component that a behaviour is about

rootVars == <<wallpaperVars, takeoverVars>>

otherThanClientList == <<part, layersVars, screensVars, areaVars, drawingVars, rootVars>>
otherThanLayers     == <<part, vars, screensVars, areaVars, drawingVars, rootVars>>
otherThanScreens    == <<part, vars, layersVars, areaVars, drawingVars, rootVars>>
otherThanWorkarea   == <<part, vars, layersVars, screensVars, drawingVars, rootVars>>
otherThanDrawing    == <<part, vars, layersVars, screensVars, areaVars, rootVars>>
otherThanWallpaper  == <<part, vars, layersVars, screensVars, areaVars, drawingVars, takeoverVars>>
otherThanTakeover   == <<part, vars, layersVars, screensVars, areaVars, drawingVars, wallpaperVars>>

WindowsInit ==
    /\ part \in {"client list", "layers", "screens", "workarea", "drawing", "wallpaper", "takeover"}
    /\ Init /\ LayersInit /\ ScreensInit /\ WorkareaInit /\ DrawingInit
    /\ WallpaperInit /\ TakeoverInit
    /\ part # "screens" => monitors = <<>> /\ ~randr /\ position = [c \in ScreenClient |-> 0]
    /\ part # "workarea" => screen = [o \in Object |-> 1]

WindowsNext ==
    \/ part = "client list" /\ Next /\ UNCHANGED otherThanClientList
    \/ part = "layers" /\ LayersNext /\ UNCHANGED otherThanLayers
    \/ part = "screens" /\ ScreensNext /\ UNCHANGED otherThanScreens
    \/ part = "workarea" /\ WorkareaNext /\ UNCHANGED otherThanWorkarea
    \/ part = "drawing" /\ DrawingNext /\ UNCHANGED otherThanDrawing
    \/ part = "wallpaper" /\ WallpaperNext /\ UNCHANGED otherThanWallpaper
    \/ part = "takeover" /\ TakeoverNext /\ UNCHANGED otherThanTakeover

WindowsSpec == WindowsInit /\ [][WindowsNext]_<<vars, otherThanClientList>>

-----------------------------------------------------------------------------

\* The loop of client_find_transient_for, iteration by iteration: the window
\* tmp after counter iterations, and whether it stops by the loop's bound.
WalkAccepts(tf, c, tc, len) ==
    LET tmp[counter \in 0..(len + 1)] ==
            IF counter = 0 THEN tc
            ELSE IF tmp[counter - 1] = None THEN None ELSE tf[tmp[counter - 1]]
    IN  \E counter \in 0..len :
            /\ tmp[counter] = None
            /\ \A k \in 0..(counter - 1) : tmp[k] # c

\* The declarative test of ClientList is the loop of the code, for every relation,
\* client, candidate parent and length of the stack: TLC evaluates it.
ASSUME WalkMatchesLoop ==
    \A tf \in [Window -> Window \cup {None}], c, tc \in Window, len \in 0..Cardinality(Window) :
        EndsWithout(tf, c, tc, len) <=> WalkAccepts(tf, c, tc, len)

\* The monitors that RandR may report: one or two outputs A and B, side by side, of
\* different sizes, showing the same, in either order, and none at all.
OutputA(p, z) == [id |-> "A", x |-> p, w |-> z]
OutputB(p, z) == [id |-> "B", x |-> p, w |-> z]
MCLayout == {<<OutputA(0, 2)>>, <<OutputA(0, 2), OutputB(2, 2)>>, <<OutputB(0, 1), OutputA(0, 2)>>,
             <<OutputB(0, 2), OutputA(0, 2)>>, <<OutputA(0, 2), OutputB(0, 2)>>,
             <<OutputB(0, 2), OutputA(2, 1)>>, <<>>}

\* Struts: none, one that leaves room, and one that is wider than a screen.
MCNoStrut == [left |-> 0, right |-> 0]
MCStrut == {MCNoStrut, [left |-> 1, right |-> 0], [left |-> 2, right |-> 3]}
=============================================================================

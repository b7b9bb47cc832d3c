-------------------------------- MODULE Pointer --------------------------------
(***************************************************************************)
(* Mouse input: the button, motion, enter and leave handlers of event.c,   *)
(* mousegrabber.c and the button bindings of drawins and clients.          *)
(*                                                                         *)
(* A press of a bound button freezes the pointer in the server until       *)
(* awesome, having run Lua code, allows it to go on.  Which drawable is    *)
(* under the mouse is awesome's own opinion, formed from crossing events   *)
(* that arrive late, for windows that may be gone, and that the server     *)
(* does not send during a grab.                                            *)
(*                                                                         *)
(* There is one drawin, which may hold the tray, and one client with a     *)
(* titlebar.  Awesome's requests are executed at once: a grab is a round   *)
(* trip, and while it waits to be thawed the pointer sends nothing.        *)
(***************************************************************************)
EXTENDS Naturals, SequencesExt

CONSTANTS MaxPointerSteps   \* bound: what the user and other applications do

VARIABLES at,             \* where the pointer is
          frozen,         \* the window whose button grab has frozen it, or "none"
          pointerHolder,  \* who has grabbed the pointer: "none", "awesome" or "other"
          bound,          \* the windows with bound buttons
          trayInside,     \* the drawin holds the tray
          frameExists, clientExists,
          pointerEvents,
          clientManaged,        \* the client is in globalconf.clients
          underMouse,     \* globalconf.drawable_under_mouse
          mousegrabber,   \* globalconf.mousegrabber is set
          drifted,        \* history: the pointer has moved during a grab and not been heard of since
          trayPressed,    \* history: a bound button was pressed over the tray
          refused,        \* history: the mousegrabber was started while another application had the pointer
          pointerSteps

pointerServerVars == <<at, frozen, pointerHolder, bound, trayInside, frameExists, clientExists>>
pointerVars == <<pointerServerVars, pointerEvents, clientManaged, underMouse, mousegrabber, drifted,
                 trayPressed, refused, pointerSteps>>

\* "client" is the client's window, or its place in the frame once the window is gone.
Spots == {"root", "drawin", "tray", "titlebar", "client"}

\* Windows are those of awesome, the client's and the tray's.
PointerEvent == [kind : {"leave", "enter", "motion", "press", "destroyed"},
                 win : {"root", "drawin", "tray", "frame", "client"}, inferior : BOOLEAN, spot : Spots]

PointerTypeOK ==
    /\ pointerEvents \in Seq(PointerEvent)
    /\ at \in Spots /\ frozen \in {"none", "drawin", "client"}
    /\ pointerHolder \in {"none", "awesome", "other"} /\ bound \subseteq {"drawin", "client"}
    /\ underMouse \in {"none", "drawin", "titlebar"}
    /\ \A b \in {trayInside, frameExists, clientExists, clientManaged, mousegrabber, drifted, trayPressed,
                   refused} :
          b \in BOOLEAN

PointerInit ==
    /\ at = "root" /\ frozen = "none" /\ pointerHolder = "none" /\ bound = {}
    /\ trayInside \in BOOLEAN /\ frameExists = TRUE /\ clientExists = TRUE
    /\ pointerEvents = <<>> /\ clientManaged = TRUE /\ underMouse = "none" /\ mousegrabber = FALSE
    /\ drifted = FALSE /\ trayPressed = FALSE /\ refused = FALSE /\ pointerSteps = 0

-----------------------------------------------------------------------------
(* The server.                                                             *)

\* The window of awesome that a spot is in, and whether a window of another program within it is
\* what the pointer is over.
Outer(spot) == CASE spot \in {"drawin", "tray"} -> "drawin"
                 [] spot \in {"titlebar", "client"} -> "frame"
                 [] OTHER -> "root"
Inside(spot) == spot = "tray" \/ (spot = "client" /\ clientExists)
SamePlace(here, there) == Outer(here) = Outer(there) /\ (Inside(here) <=> Inside(there))

Crossing(kind, w, isInferior, spot) ==
    [kind |-> kind, win |-> w, inferior |-> isInferior, spot |-> spot]

\* What awesome hears of one end of a move, here, which the pointer enters from or leaves for
\* there.  A window whose inferior is at the other end is told so, as the root window always is.
Told(kind, here, there, spot) ==
    IF Outer(here) = Outer(there) /\ Inside(here) THEN <<>>
    ELSE <<Crossing(kind, Outer(here), Outer(here) \in {"root", Outer(there)}, spot)>>

\* The crossing events of a move; awesome hears of its own windows only.
Crossings(here, to) == Told("leave", here, to, to) \o Told("enter", to, here, to)

PointerStep == pointerSteps < MaxPointerSteps /\ pointerSteps' = pointerSteps + 1

Reachable(spot) == CASE spot = "tray" -> trayInside
                     [] spot \in {"titlebar", "client"} -> frameExists
                     [] OTHER -> TRUE

\* A move that tells nothing of what the pointer was over before: awesome ignores moves
\* between a drawin and the tray, and onto the frame of a client that is gone.
TellsLittle(spot) == \/ SamePlace(at, spot) \/ {at, spot} = {"drawin", "tray"}
                     \/ at = "root" /\ spot \in {"titlebar", "client"} /\ ~clientExists

\* During a grab nothing is told.
MovePointer(spot) ==
    /\ PointerStep /\ frozen = "none" /\ spot # at /\ Reachable(spot)
    /\ at' = spot
    /\ pointerEvents' = IF pointerHolder # "none" \/ SamePlace(at, spot) THEN pointerEvents
                        ELSE pointerEvents \o Crossings(at, spot)
    /\ drifted' = (pointerHolder # "none" \/ (drifted /\ TellsLittle(spot)))
    /\ UNCHANGED <<frozen, pointerHolder, bound, trayInside, frameExists, clientExists, clientManaged,
                   underMouse, mousegrabber, trayPressed, refused>>

\* The pointer moves on over the same drawable.
Jiggle ==
    /\ PointerStep /\ frozen = "none" /\ pointerHolder # "other" /\ at \in {"drawin", "titlebar"}
    /\ pointerEvents' = Append(pointerEvents,
           Crossing("motion", IF pointerHolder = "awesome" THEN "root" ELSE Outer(at), FALSE, at))
    /\ UNCHANGED <<pointerServerVars, clientManaged, underMouse, mousegrabber, drifted, trayPressed, refused>>

\* The window whose bound button is pressed.  It is searched for from the root window.
Grabbed == CASE at \in {"drawin", "tray"} /\ "drawin" \in bound -> "drawin"
             [] at = "client" /\ clientExists /\ "client" \in bound -> "client"
             [] OTHER -> "none"

Press ==
    /\ PointerStep /\ frozen = "none" /\ pointerHolder # "other"
    /\ frozen' = IF pointerHolder = "none" THEN Grabbed ELSE "none"
    /\ pointerEvents' = Append(pointerEvents,
           Crossing("press", IF pointerHolder = "awesome" THEN "root"
                             ELSE IF Grabbed # "none" THEN Grabbed
                             ELSE IF Inside(at) THEN at ELSE Outer(at), FALSE, at))
    /\ trayPressed' = (trayPressed \/ (frozen' = "drawin" /\ at = "tray"))
    /\ UNCHANGED <<at, pointerHolder, bound, trayInside, frameExists, clientExists, clientManaged, underMouse,
                   mousegrabber, drifted, refused>>

\* Another application grabs the pointer, or gives it back.
OtherGrabs ==
    /\ PointerStep /\ frozen = "none"
    /\ \/ pointerHolder = "none" /\ pointerHolder' = "other"
       \/ pointerHolder = "other" /\ pointerHolder' = "none"
    /\ UNCHANGED <<at, frozen, bound, trayInside, frameExists, clientExists, pointerEvents, clientManaged,
                   underMouse, mousegrabber, drifted, trayPressed, refused>>

\* The client's window is destroyed; a grab by a button on it ends.
ClientDies ==
    /\ PointerStep /\ clientExists
    /\ clientExists' = FALSE
    /\ frozen' = IF frozen = "client" THEN "none" ELSE frozen
    /\ pointerEvents' = pointerEvents
          \o (IF at = "client" /\ pointerHolder = "none" THEN <<Crossing("enter", "frame", TRUE, "client")>> ELSE <<>>)
          \o <<Crossing("destroyed", "client", FALSE, at)>>
    /\ UNCHANGED <<at, pointerHolder, bound, trayInside, frameExists, clientManaged, underMouse, mousegrabber,
                   drifted, trayPressed, refused>>

-----------------------------------------------------------------------------
(* Awesome: crossing events and motion.                                    *)

\* A leave event of a window that is no client's frame is ignored.
LeaveKnown(e) == IF e.win = "frame" /\ clientManaged THEN "none" ELSE underMouse

\* event_handle_leavenotify: for a drawin, or a frame that is not known any more, only
\* if the pointer has not gone to a window inside.
Leave(e) == IF (e.win = "frame" /\ clientManaged) \/ ~e.inferior THEN "none" ELSE underMouse

\* client_get_drawable.
ClientDrawable(spot) == IF spot = "titlebar" THEN "titlebar" ELSE "none"

\* event_handle_enternotify.
Enter(e) == CASE e.win = "drawin" /\ ~e.inferior -> "drawin"
              [] e.win = "frame" /\ clientManaged -> ClientDrawable(e.spot)
              [] OTHER -> underMouse

\* event_handle_motionnotify, without a mousegrabber.
Motion(e) == CASE e.win = "drawin" -> "drawin"
               [] e.win = "frame" /\ clientManaged /\ ClientDrawable(e.spot) # "none" -> ClientDrawable(e.spot)
               [] OTHER -> underMouse

\* client_unmanage: the titlebars' drawables are left before they are gone.
UnmanagedUnderMouse == IF underMouse = "titlebar" THEN "none" ELSE underMouse

HandleCrossing ==
    /\ pointerEvents # <<>>
    /\ LET e == Head(pointerEvents)
       IN  /\ e.kind \in {"leave", "enter", "motion", "destroyed"}
           /\ e.kind = "motion" => ~mousegrabber
           /\ underMouse' = CASE e.kind = "leave" -> Leave(e)
                              [] e.kind = "enter" -> Enter(e)
                              [] e.kind = "motion" -> Motion(e)
                              [] OTHER -> UnmanagedUnderMouse
           /\ clientManaged' = (clientManaged /\ e.kind # "destroyed")
    /\ pointerEvents' = Tail(pointerEvents)
    /\ UNCHANGED <<pointerServerVars, mousegrabber, drifted, trayPressed, refused, pointerSteps>>

\* client_destroy_later: the frame goes some time after the client.
DestroyFrame ==
    /\ frameExists /\ ~clientManaged
    /\ frameExists' = FALSE
    /\ at' = IF at \in {"titlebar", "client"} THEN "root" ELSE at
    /\ pointerEvents' = IF at' = at \/ pointerHolder # "none" THEN pointerEvents
                        ELSE pointerEvents \o Crossings(at, at')
    /\ bound' = bound \ {"client"}
    /\ UNCHANGED <<frozen, pointerHolder, trayInside, clientExists, clientManaged, underMouse, mousegrabber,
                   drifted, trayPressed, refused, pointerSteps>>

-----------------------------------------------------------------------------
(* Awesome: buttons and the mousegrabber.                                  *)

\* luaA_mousegrabber_run.  mousegrabber_grab takes any reply for a success; a grab of
\* one's own replaces the one of a button, and thaws the pointer.
RunGrabber ==
    /\ mousegrabber' = TRUE
    /\ pointerHolder' = IF pointerHolder = "other" THEN "other" ELSE "awesome"
    /\ refused' = (refused \/ pointerHolder = "other")

\* luaA_mousegrabber_stop.
StopGrabber ==
    /\ mousegrabber' = FALSE
    /\ pointerHolder' = IF pointerHolder = "awesome" THEN "none" ELSE pointerHolder

\* Lua code starts the mousegrabber, or stops it.
LuaGrabs ==
    /\ PointerStep
    /\ \/ ~mousegrabber /\ RunGrabber /\ frozen' = IF pointerHolder' = "awesome" THEN "none" ELSE frozen
       \/ mousegrabber /\ StopGrabber /\ UNCHANGED <<frozen, refused>>
    /\ UNCHANGED <<at, bound, trayInside, frameExists, clientExists, pointerEvents, clientManaged, underMouse,
                   drifted, trayPressed>>

\* luaA_window_buttons.
SetButtons(w) ==
    /\ PointerStep /\ (w = "client" => clientManaged /\ clientExists)
    /\ bound' \in {bound \cup {w}, bound \ {w}} /\ bound' # bound
    /\ UNCHANGED <<at, frozen, pointerHolder, trayInside, frameExists, clientExists, pointerEvents, clientManaged,
                   underMouse, mousegrabber, drifted, trayPressed, refused>>

\* event_handle_mousegrabber: the callback says whether to go on, or fails.
GrabberHears ==
    /\ pointerEvents # <<>> /\ mousegrabber
    /\ Head(pointerEvents).kind \in {"press", "motion"}
    /\ pointerEvents' = Tail(pointerEvents)
    /\ UNCHANGED <<mousegrabber, pointerHolder>> \/ StopGrabber
    /\ UNCHANGED <<at, frozen, bound, trayInside, frameExists, clientExists, clientManaged, underMouse, drifted,
                   trayPressed, refused, pointerSteps>>

\* Whether event_handle_button calls AllowEvents.
Allowed(e) == \/ e.win = "drawin" /\ e.spot # "tray"
              \/ e.win \in {"frame", "client"} /\ clientManaged

\* event_handle_button without a mousegrabber; the handlers may start one.
HandleButton ==
    /\ pointerEvents # <<>> /\ ~mousegrabber
    /\ Head(pointerEvents).kind = "press"
    /\ pointerEvents' = Tail(pointerEvents)
    /\ RunGrabber \/ UNCHANGED <<mousegrabber, pointerHolder, refused>>
    /\ frozen' = IF Allowed(Head(pointerEvents)) \/ pointerHolder' = "awesome" THEN "none" ELSE frozen
    /\ UNCHANGED <<at, bound, trayInside, frameExists, clientExists, clientManaged, underMouse, drifted,
                   trayPressed, pointerSteps>>

PointerNext ==
    \/ \E spot \in Spots : MovePointer(spot)
    \/ Jiggle \/ Press \/ OtherGrabs \/ ClientDies
    \/ HandleCrossing \/ DestroyFrame
    \/ LuaGrabs \/ GrabberHears \/ HandleButton
    \/ \E w \in {"drawin", "client"} : SetButtons(w)

PointerSpec == PointerInit /\ [][PointerNext]_pointerVars

-----------------------------------------------------------------------------
(* Properties.                                                             *)

\* When awesome has handled every event, no button grab keeps the pointer frozen, whatever
\* has happened to the window, its bindings or the mousegrabber since the press.  Two cases are
\* known to freeze it for good: a press over the tray inside a drawin with bound buttons,
\* and a press while a mousegrabber runs whose grab was refused.
PointerThaws == (pointerEvents = <<>> /\ ~trayPressed /\ ~refused) => frozen = "none"

\* The drawable that the pointer is over.
Over == CASE at \in {"drawin", "tray"} -> "drawin"
          [] at = "titlebar" /\ clientManaged -> "titlebar"
          [] OTHER -> "none"

\* When awesome has handled every event, drawable_under_mouse is the drawable under the
\* mouse, even if frames and clients have gone meanwhile.  A move during a grab is
\* noticed at the next crossing only.
UnderMouseIsRight == (pointerEvents = <<>> /\ ~drifted) => underMouse = Over

\* Together: when all events are handled the pointer moves again, and awesome knows what
\* is under it.
PointerInv == PointerTypeOK /\ PointerThaws /\ UnderMouseIsRight
=============================================================================

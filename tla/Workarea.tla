------------------------------- MODULE Workarea -------------------------------
(***************************************************************************)
(* The work area of each screen: what is left of it beside the struts of   *)
(* the visible clients and drawins on it.  It is not computed when it is   *)
(* asked for: whoever changes a strut, a place or a visibility has to call *)
(* screen_update_workarea (objects/screen.c) for the screens concerned, and*)
(* does it before or after signals whose handlers may do the same.         *)
(*                                                                         *)
(* Screens stay as they are and lie side by side; struts are on the left   *)
(* and on the right (those on the top and at the bottom are alike) and have*)
(* a width.  There is one tag.                                             *)
(***************************************************************************)
EXTENDS Integers, SequencesExt

CONSTANTS AreaClient, AreaDrawin, AreaScreen,
          Strut,            \* struts, [left, right], among them NoStrut
          NoStrut,
          ScreenWidth,      \* geometry.width of each screen
          MaxAreaCalls,     \* bound: calls and events
          MaxNesting        \* bound: calls inside of handlers inside of calls

ASSUME WorkareaAssumption ==
    /\ AreaClient \cap AreaDrawin = {} /\ IsFiniteSet(AreaScreen) /\ 0 \notin AreaScreen
    /\ NoStrut = [left |-> 0, right |-> 0] /\ NoStrut \in Strut /\ MaxNesting \in Nat /\ ScreenWidth \in Nat

VARIABLES managed,     \* globalconf.clients
          screen,      \* c->screen of clients; the screen at the place of drawins
          strut,       \* of clients and drawins
          flags,       \* of each client: which of minimized, hidden, sticky are set
          taggedWith,  \* the clients of the tag
          tag,         \* [selected, activated]
          shown,       \* the visible drawins
          workarea,    \* of each screen, [left, width]
          running,     \* the C functions that run, each called by a handler of the one before:
                       \* what is left to do, and whether a signal is being handled
          overlooked,  \* history: the screens whose work area a change was not followed by
          areaCalls

areaVars == <<managed, screen, strut, flags, taggedWith, tag, shown, workarea, running, overlooked,
              areaCalls>>

Object == AreaClient \cup AreaDrawin
Flag == {"minimized", "hidden", "sticky"}
WorkareaTypeOK ==
    /\ managed \subseteq AreaClient /\ taggedWith \subseteq AreaClient /\ shown \subseteq AreaDrawin
    /\ screen \in [Object -> AreaScreen] /\ strut \in [Object -> Strut]
    /\ flags \in [AreaClient -> SUBSET Flag]
    /\ DOMAIN workarea = AreaScreen /\ overlooked \subseteq AreaScreen
    /\ Len(running) <= MaxNesting

-----------------------------------------------------------------------------
\* client_isvisible: on a selected tag, and neither hidden nor minimized.
IsVisible(c) ==
    /\ c \in managed
    /\ "sticky" \in flags[c] \/ (tag.activated /\ tag.selected /\ c \in taggedWith)
    /\ flags[c] \cap {"minimized", "hidden"} = {}

\* screen_update_workarea: the area that the struts leave.
Counted(s) == {o \in Object : screen[o] = s /\ IF o \in AreaClient THEN IsVisible(o) ELSE o \in shown}
Computed(s) == LET left  == Max({strut[o].left : o \in Counted(s)} \cup {0})
                   right == Max({strut[o].right : o \in Counted(s)} \cup {0})
               IN  [left |-> left, width |-> ScreenWidth - Min({ScreenWidth, left + right})]

StrutHasValue(o) == strut[o] # NoStrut
Update(s) == [do |-> "update", screen |-> s]
UpdateAll == SetToSeq({Update(s) : s \in AreaScreen})
Emit == [do |-> "emit"]
IfStrut(o, todo) == IF StrutHasValue(o) THEN todo ELSE <<>>

\* Calls come from the main loop, or from a handler of the function that runs.
MayCall == /\ areaCalls > 0
           /\ Len(running) < MaxNesting
           /\ IF running = <<>> THEN TRUE ELSE running[Len(running)].calling
AreaCall(todo) == /\ MayCall
                  /\ areaCalls' = areaCalls - 1
                  /\ running' = Append(running, [todo |-> todo, calling |-> FALSE])
                  /\ workarea' = workarea

Noticed == overlooked' = overlooked
\* A change that the code never follows by an update.
Unnoticed == overlooked' = overlooked \cup {s \in AreaScreen : Computed(s) # Computed(s)'}

\* Running on: an update that changes nothing emits no signal.
Goes(rest, calling) ==
    running' = SubSeq(running, 1, Len(running) - 1) \o
               (IF rest = <<>> /\ ~calling THEN <<>> ELSE <<[todo |-> rest, calling |-> calling]>>)

DoUpdate == /\ running # <<>> /\ running[Len(running)].todo # <<>>
            /\ LET todo == running[Len(running)].todo
                   s == todo[1].screen
               IN  /\ todo[1].do = "update"
                   /\ workarea' = [workarea EXCEPT ![s] = Computed(s)]
                   /\ overlooked' = overlooked \ {s}
                   /\ Goes(Tail(todo), workarea' # workarea)
            /\ UNCHANGED <<managed, screen, strut, flags, taggedWith, tag, shown, areaCalls>>

DoEmit == /\ running # <<>> /\ running[Len(running)].todo # <<>>
          /\ LET todo == running[Len(running)].todo
             IN  /\ todo[1].do = "emit"
                 /\ Goes(Tail(todo), TRUE)
          /\ UNCHANGED <<managed, screen, strut, flags, taggedWith, tag, shown, workarea, overlooked,
                         areaCalls>>

Returns == /\ running # <<>> /\ running[Len(running)].todo = <<>>
           /\ running' = SubSeq(running, 1, Len(running) - 1)
           /\ UNCHANGED <<managed, screen, strut, flags, taggedWith, tag, shown, workarea, overlooked,
                          areaCalls>>
-----------------------------------------------------------------------------
(* Clients.                                                                *)

\* client_manage: the screen, then the strut that the window has, then the hints, of
\* which sticky is one.
ManageClient(c, s, v, isSticky) ==
    /\ running = <<>> /\ c \notin managed
    /\ managed' = managed \cup {c}
    /\ screen' = [screen EXCEPT ![c] = s]
    /\ strut' = [strut EXCEPT ![c] = v]
    /\ flags' = [flags EXCEPT ![c] = IF isSticky THEN {"sticky"} ELSE {}]
    /\ taggedWith' = taggedWith \ {c}
    /\ AreaCall((IF isSticky /\ v # NoStrut THEN <<Update(s), Emit>> ELSE <<Emit>>))
    /\ Noticed
    /\ UNCHANGED <<tag, shown>>

\* client_unmanage: untagged, with its signals, before the work area is updated.
UnmanageClient(c) ==
    /\ running = <<>> /\ c \in managed
    /\ managed' = managed \ {c}
    /\ taggedWith' = IF tag.activated THEN taggedWith \ {c} ELSE taggedWith
    /\ AreaCall((IF c \in taggedWith \ taggedWith' THEN <<Update(screen[c]), Emit>> ELSE <<>>)
            \o <<Emit>> \o IfStrut(c, <<Update(screen[c])>>))
    /\ Noticed
    /\ UNCHANGED <<screen, strut, flags, tag, shown>>

\* client_set_minimized, client_set_hidden, client_set_sticky.
SetFlag(c, f) ==
    /\ c \in managed
    /\ flags' = [flags EXCEPT ![c] = SymDiff(@, {f})]
    /\ AreaCall(IfStrut(c, <<Update(screen[c])>>) \o <<Emit>>)
    /\ Noticed
    /\ UNCHANGED <<managed, screen, strut, taggedWith, tag, shown>>

\* tag_client and untag_client.
TagClient(c) ==
    /\ c \in managed
    /\ taggedWith' = SymDiff(taggedWith, {c})
    /\ AreaCall(<<Update(screen[c]), Emit>>)
    /\ Noticed
    /\ UNCHANGED <<managed, screen, strut, flags, tag, shown>>

\* tag_view.
TagView ==
    /\ tag' = [tag EXCEPT !.selected = ~@]
    /\ AreaCall(UpdateAll \o <<Emit>>)
    /\ Noticed
    /\ UNCHANGED <<managed, screen, strut, flags, taggedWith, shown>>

\* luaA_tag_set_activated: a tag that is not activated any more is not selected either.
SetActivated ==
    /\ tag' = [selected |-> tag.selected /\ ~tag.activated, activated |-> ~tag.activated]
    /\ AreaCall(<<Emit>>)
    /\ UNCHANGED <<managed, screen, strut, flags, taggedWith, shown>>
    /\ Unnoticed

\* screen_client_moveto.
MoveClientTo(c, s) ==
    /\ c \in managed /\ screen[c] # s
    /\ screen' = [screen EXCEPT ![c] = s]
    /\ AreaCall(<<Emit>>)
    /\ UNCHANGED <<managed, strut, flags, taggedWith, tag, shown>>
    /\ Unnoticed

\* property_handle_net_wm_strut_partial: the client has changed its strut itself.
ClientChangesStrut(c, v) ==
    /\ running = <<>> /\ c \in managed /\ v # strut[c]
    /\ strut' = [strut EXCEPT ![c] = v]
    /\ AreaCall(<<Emit>>)
    /\ UNCHANGED <<managed, screen, flags, taggedWith, tag, shown>>
    /\ Unnoticed

-----------------------------------------------------------------------------
(* Clients and drawins, and drawins.                                       *)

\* luaA_window_struts: the signal first, then all screens.
WindowStruts(o, v) ==
    /\ o \in managed \cup AreaDrawin /\ v # strut[o]
    /\ strut' = [strut EXCEPT ![o] = v]
    /\ AreaCall(<<Emit>> \o UpdateAll)
    /\ Noticed
    /\ UNCHANGED <<managed, screen, flags, taggedWith, tag, shown>>

\* A step of drawin_set_visible and drawin_moveresize whose updates depend on what the
\* handlers have done meanwhile.
Late(d, old) == [do |-> "late", drawin |-> d, old |-> old]

\* Only the new screen.
LateTodoNew(d, old) == IfStrut(d, <<Update(screen[d])>>)

\* The screen that the drawin has left, unless it is still or again there, and the
\* screen that it is on.  After a change of the visibility, old is 0.
LateTodo(d, old) ==
    IfStrut(d, CASE old = 0 -> <<Update(screen[d])>>
                 [] old = screen[d] -> <<>>
                 [] OTHER -> <<Update(old), Update(screen[d])>>)

DoLate == /\ running # <<>> /\ running[Len(running)].todo # <<>>
          /\ LET todo == running[Len(running)].todo
             IN  /\ todo[1].do = "late"
                 /\ Goes(LateTodo(todo[1].drawin, todo[1].old), FALSE)
          /\ UNCHANGED <<managed, screen, strut, flags, taggedWith, tag, shown, workarea, overlooked,
                         areaCalls>>

\* drawin_moveresize, from its geometry or one of its coordinates.
MoveDrawin(d, s) ==
    /\ s # screen[d]
    /\ screen' = [screen EXCEPT ![d] = s]
    /\ AreaCall(<<Emit, Late(d, screen[d])>>)
    /\ Noticed
    /\ UNCHANGED <<managed, strut, flags, taggedWith, tag, shown>>

\* drawin_set_visible.
SetVisible(d) ==
    /\ shown' = SymDiff(shown, {d})
    /\ AreaCall(<<Emit, Late(d, 0)>>)
    /\ Noticed
    /\ UNCHANGED <<managed, screen, strut, flags, taggedWith, tag>>

-----------------------------------------------------------------------------
WorkareaInit ==
    /\ managed = {} /\ taggedWith = {} /\ shown = {}
    /\ \E s \in AreaScreen : screen = [o \in Object |-> s]
    /\ strut = [o \in Object |-> NoStrut]
    /\ flags = [c \in AreaClient |-> {}]
    /\ tag = [selected |-> FALSE, activated |-> TRUE]
    /\ workarea = [s \in AreaScreen |-> [left |-> 0, width |-> ScreenWidth]]
    /\ running = <<>> /\ overlooked = {} /\ areaCalls = MaxAreaCalls

WorkareaNext ==
    \/ DoUpdate \/ DoEmit \/ DoLate \/ Returns \/ TagView \/ SetActivated
    \/ \E c \in AreaClient :
           \/ UnmanageClient(c) \/ TagClient(c)
           \/ \E f \in Flag : SetFlag(c, f)
           \/ \E s \in AreaScreen : MoveClientTo(c, s)
           \/ \E v \in Strut : ClientChangesStrut(c, v)
           \/ \E s \in AreaScreen, v \in Strut, isSticky \in BOOLEAN : ManageClient(c, s, v, isSticky)
    \/ \E o \in Object, v \in Strut : WindowStruts(o, v)
    \/ \E d \in AreaDrawin : SetVisible(d) \/ \E s \in AreaScreen : MoveDrawin(d, s)

WorkareaSpec == WorkareaInit /\ [][WorkareaNext]_areaVars

\* Whenever awesome is done with a call, whatever the handlers of its signals have done,
\* the work area of each screen is what the struts leave of it now, except for changes
\* that the code never follows by an update (overlooked).
WorkareaIsCurrent ==
    running = <<>> => \A s \in AreaScreen \ overlooked : workarea[s] = Computed(s)

\* The same with the types.
WorkareaInv == WorkareaTypeOK /\ WorkareaIsCurrent
===============================================================================

--------------------------------- MODULE Tray ---------------------------------
(***************************************************************************)
(* The system tray: systray.c and common/xembed.c with the event handlers  *)
(* that call them, and drawin_systray_kickout.                             *)
(*                                                                         *)
(* Applications ask for their icons to be embedded, say in a property      *)
(* whether an icon is to be seen, and may move or destroy its window at    *)
(* any time.  Awesome keeps the icons in a window of its own, the tray,    *)
(* which Lua code puts into a drawin and lays out whenever it has heard    *)
(* "systray::update" and got round to it.                                  *)
(* A layout is one step of the server: it touches an icon once, as the     *)
(* applications do.  Awesome's exit is not part of this model.             *)
(***************************************************************************)
EXTENDS Naturals, FiniteSets, SequencesExt

CONSTANTS Icon,        \* windows that applications want in the tray
          TrayDrawin,  \* drawins which may hold the tray
          TrayRows,    \* the numbers of rows that Lua code asks for
          MaxIconCalls, \* bound: what applications ever do
          MaxTrayRequests, \* bound: Lua code does nothing while this many requests are not executed
          NoDrawin

ASSUME TrayAssumption ==
    /\ TrayRows \subseteq Nat \ {0}
    /\ NoDrawin \notin TrayDrawin /\ "root" \notin TrayDrawin /\ "gone" \notin TrayDrawin

VARIABLES trayPlace,         \* where an icon's window is: "root", "tray", "elsewhere" or "gone"
          xembedInfo,    \* its _XEMBED_INFO: "none", "hidden" or "shown"
          iconMapped, iconSelected, \* the icons that are mapped; that awesome hears from
          trayIn,        \* where the tray is: "root", a drawin or "gone"
          trayMapped,
          cells, traySize, \* the last layout: the icons' cells, and columns and rows
          trayDrawins,   \* the drawins whose windows exist
          trayRequests, trayReply, trayEvents,
          embedded,      \* globalconf.embedded, a sequence of [win, mapped]
          trayParent,    \* globalconf.systray.parent
          trayRegistered, \* globalconf.systray.registered
          collected,     \* the drawins that are no more
          handling,      \* the handler that waits for the reply, and its icon
          trayStale,     \* "systray::update" was emitted after the last luaA_systray
          asksMap,       \* history: icons mapped by their applications since they set the property
          missed,        \* history: icons whose property changed after it was read and before it was heard
          iconCalls

iconVars == <<trayPlace, xembedInfo, iconMapped, iconSelected, asksMap, missed>>
trayWindowVars == <<trayIn, trayMapped, cells, traySize, trayDrawins>>
trayLuaVars == <<embedded, trayParent, trayRegistered, collected, handling, trayStale>>
trayVars == <<iconVars, trayWindowVars, trayLuaVars, trayRequests, trayReply, trayEvents, iconCalls>>

Embedded == {embedded[i].win : i \in DOMAIN embedded}

TrayTypeOK ==
    /\ trayPlace \in [Icon -> {"root", "tray", "elsewhere", "gone"}]
    /\ xembedInfo \in [Icon -> {"none", "hidden", "shown"}]
    /\ iconMapped \subseteq Icon /\ iconSelected \subseteq Icon
    /\ trayIn \in TrayDrawin \cup {"root", "gone"} /\ trayMapped \in BOOLEAN
    /\ trayReply \in {"waiting", "none", "hidden", "shown"}
    /\ trayEvents \in Seq({"dock", "info", "map", "moved", "destroyed"} \X Icon)
    /\ embedded \in Seq([win : Icon, mapped : BOOLEAN])
    /\ trayParent \in TrayDrawin \cup {NoDrawin} /\ collected \subseteq TrayDrawin
    /\ trayRegistered \in BOOLEAN /\ trayStale \in BOOLEAN
    /\ handling \in {<<"nothing", NoDrawin>>} \cup {"dock", "info"} \X Icon

Idle == <<"nothing", NoDrawin>>

\* systray_init: a window outside the screen.
TrayInit ==
    /\ trayPlace = [w \in Icon |-> "root"]
    /\ xembedInfo \in [Icon -> {"none", "hidden", "shown"}]
    /\ iconMapped = {} /\ iconSelected = {} /\ asksMap = {} /\ missed = {}
    /\ trayIn = "root" /\ trayMapped = FALSE
    /\ cells = <<>> /\ traySize = <<0, 0>> /\ trayDrawins = TrayDrawin
    /\ trayRequests = <<>> /\ trayReply = "waiting" /\ trayEvents = <<>>
    /\ embedded = <<>> /\ trayParent = NoDrawin /\ trayRegistered = FALSE
    /\ collected = {} /\ handling = Idle /\ trayStale = FALSE /\ iconCalls = 0

-----------------------------------------------------------------------------
(* Applications.                                                           *)

IconCall == iconCalls < MaxIconCalls /\ iconCalls' = iconCalls + 1
Tell(kind, w) == trayEvents' = Append(trayEvents, <<kind, w>>)

\* A dock message to the tray, or for KDE's a property which says so and a MapRequest.
AppDocks(w) ==
    /\ IconCall /\ trayRegistered /\ trayPlace[w] # "gone"
    /\ Tell("dock", w)
    /\ UNCHANGED <<iconVars, trayWindowVars, trayLuaVars, trayRequests, trayReply>>

\* The request that reads the property has been executed and the next one has not.
BetweenReadAndSelect(w) ==
    /\ <<"select", w>> \in Range(trayRequests) /\ <<"read", w>> \notin Range(trayRequests)

AppSetsInfo(w) ==
    /\ IconCall /\ trayPlace[w] # "gone"
    /\ \E v \in {"hidden", "shown"} : xembedInfo' = [xembedInfo EXCEPT ![w] = v]
    /\ IF w \in iconSelected THEN Tell("info", w) ELSE UNCHANGED trayEvents
    /\ missed' = IF w \notin iconSelected /\ BetweenReadAndSelect(w) THEN missed \cup {w} ELSE missed \ {w}
    /\ asksMap' = asksMap \ {w}
    /\ UNCHANGED <<trayPlace, iconMapped, iconSelected, trayWindowVars, trayLuaVars, trayRequests, trayReply>>

\* MapWindow of an unmapped icon in the tray is redirected to awesome.
AppMaps(w) ==
    /\ IconCall /\ trayPlace[w] = "tray" /\ w \notin iconMapped
    /\ Tell("map", w) /\ asksMap' = asksMap \cup {w}
    /\ UNCHANGED <<trayPlace, xembedInfo, iconMapped, iconSelected, missed, trayWindowVars, trayLuaVars,
                   trayRequests, trayReply>>

AppMovesAway(w) ==
    /\ IconCall /\ trayPlace[w] = "tray"
    /\ trayPlace' = [trayPlace EXCEPT ![w] = "elsewhere"]
    /\ Tell("moved", w) /\ asksMap' = asksMap \ {w}
    /\ UNCHANGED <<xembedInfo, iconMapped, iconSelected, missed, trayWindowVars, trayLuaVars,
                   trayRequests, trayReply>>

AppDestroys(w) ==
    /\ IconCall /\ trayPlace[w] # "gone"
    /\ trayPlace' = [trayPlace EXCEPT ![w] = "gone"]
    /\ Tell("destroyed", w)
    /\ UNCHANGED <<xembedInfo, iconMapped, iconSelected, asksMap, missed, trayWindowVars, trayLuaVars,
                   trayRequests, trayReply>>

-----------------------------------------------------------------------------
(* The server executes awesome's requests.                                 *)

Exists(w) == trayPlace[w] # "gone"

ServeIcon(op, w) ==
    /\ op \in {"read", "select", "embed", "map", "unmap"}
    /\ trayReply' = IF op # "read" THEN trayReply ELSE IF Exists(w) THEN xembedInfo[w] ELSE "none"
    /\ iconSelected' = IF op = "select" THEN iconSelected \cup {w} ELSE iconSelected
    /\ trayPlace' = IF op = "embed" /\ Exists(w) THEN [trayPlace EXCEPT ![w] = "tray"] ELSE trayPlace
    /\ iconMapped' = CASE op = "map" -> iconMapped \cup {w}
                       [] op = "unmap" -> iconMapped \ {w}
                       [] OTHER -> iconMapped
    /\ UNCHANGED <<xembedInfo, asksMap, missed, trayWindowVars>>

ServeTray(op, d) ==
    /\ op \in {"put", "unmapTray", "destroy"}
    /\ trayIn' = CASE op = "put" /\ trayIn # "gone" /\ d \in trayDrawins \cup {"root"} -> d
                   [] op = "destroy" /\ trayIn = d -> "gone"
                   [] OTHER -> trayIn
    /\ trayMapped' = (trayMapped /\ op # "unmapTray")
    /\ trayDrawins' = IF op = "destroy" THEN trayDrawins \ {d} ELSE trayDrawins
    /\ UNCHANGED <<iconVars, cells, traySize, trayReply>>

\* A layout: the icons in its domain are placed and mapped, the others are unmapped.
ServeLayout(op, layout) ==
    /\ op = "layout"
    /\ cells' = layout.cells /\ traySize' = layout.size
    /\ iconMapped' = (iconMapped \cup DOMAIN layout.cells) \ layout.hidden
    /\ trayMapped' = TRUE
    /\ UNCHANGED <<trayPlace, xembedInfo, iconSelected, asksMap, missed, trayIn, trayDrawins, trayReply>>

ExecuteTrayRequest ==
    /\ trayRequests # <<>>
    /\ trayRequests' = Tail(trayRequests)
    /\ LET op == Head(trayRequests)[1]
           x  == Head(trayRequests)[2]
       IN  ServeIcon(op, x) \/ ServeTray(op, x) \/ ServeLayout(op, x)
    /\ UNCHANGED <<trayLuaVars, trayEvents, iconCalls>>

-----------------------------------------------------------------------------
(* Awesome: the embedded windows.                                          *)

\* systray_num_visible_entries.
Visible(list) == {i \in DOMAIN list : list[i].mapped}

\* luaA_systray_invalidate, after the list has become the given one and some requests.
InvalidateWith(list, reqs) ==
    /\ embedded' = list
    /\ trayStale' = TRUE
    /\ trayRequests' = trayRequests \o reqs
                           \o (IF Visible(list) = {} THEN <<<<"unmapTray", NoDrawin>>>> ELSE <<>>)

Wait(kind, w, reqs) ==
    /\ handling' = <<kind, w>>
    /\ trayReply' = "waiting"
    /\ trayRequests' = trayRequests \o reqs
    /\ UNCHANGED <<embedded, trayStale>>

\* systray_request_handle, up to the reply.
Dock(w) ==
    IF w \in Embedded THEN UNCHANGED <<embedded, trayStale, trayRequests, trayReply, handling>>
    ELSE Wait("dock", w, <<<<"read", w>>, <<"select", w>>, <<"embed", w>>>>)

\* Its end: without a property an icon is shown.
DockEnd ==
    /\ handling[1] = "dock" /\ trayReply # "waiting"
    /\ InvalidateWith(Append(embedded, [win |-> handling[2], mapped |-> trayReply # "hidden"]), <<>>)
    /\ handling' = Idle
    /\ UNCHANGED <<iconVars, trayWindowVars, trayReply, trayEvents, trayParent, trayRegistered,
                   collected, iconCalls>>

\* Flag the icon.
Flagged(w, shown) == [i \in DOMAIN embedded |-> IF embedded[i].win = w THEN [win |-> w, mapped |-> shown]
                                                ELSE embedded[i]]
IsFlagged(w) == \E i \in DOMAIN embedded : embedded[i] = [win |-> w, mapped |-> TRUE]

\* xembed_property_update, with the reply; without a property an icon is hidden.
InfoRead(w) ==
    LET shown == trayReply = "shown"
    IN  IF shown = IsFlagged(w) THEN UNCHANGED <<embedded, trayStale, trayRequests>>
        ELSE InvalidateWith(Flagged(w, shown), <<<<IF shown THEN "map" ELSE "unmap", w>>>>)

InfoEnd ==
    /\ handling[1] = "info" /\ trayReply # "waiting"
    /\ InfoRead(handling[2])
    /\ handling' = Idle
    /\ UNCHANGED <<iconVars, trayWindowVars, trayReply, trayEvents, trayParent, trayRegistered,
                   collected, iconCalls>>

\* property_handle_xembed_info, up to the reply.
InfoChanged(w) ==
    IF w \in Embedded THEN Wait("info", w, <<<<"read", w>>>>)
    ELSE UNCHANGED <<embedded, trayStale, trayRequests, trayReply, handling>>

\* event_handle_maprequest for an icon; a window that is gone has no attributes.
MapRequested(w) ==
    /\ IF w \in Embedded /\ Exists(w) THEN InvalidateWith(Flagged(w, TRUE), <<<<"map", w>>>>)
       ELSE UNCHANGED <<embedded, trayStale, trayRequests>>
    /\ UNCHANGED <<trayReply, handling>>

\* The end of an embedding: event_handle_destroynotify, and event_handle_reparentnotify
\* for a new parent other than the tray.
Take(w) ==
    /\ IF w \in Embedded
       THEN InvalidateWith(RemoveAt(embedded, CHOOSE i \in DOMAIN embedded : embedded[i].win = w), <<>>)
       ELSE UNCHANGED <<embedded, trayStale, trayRequests>>
    /\ UNCHANGED <<trayReply, handling>>

HandleTrayEvent ==
    /\ trayEvents # <<>> /\ handling = Idle
    /\ trayEvents' = Tail(trayEvents)
    /\ LET kind == Head(trayEvents)[1]
           w    == Head(trayEvents)[2]
       IN  \/ kind = "dock" /\ Dock(w)
           \/ kind = "info" /\ InfoChanged(w)
           \/ kind = "map" /\ MapRequested(w)
           \/ kind \in {"moved", "destroyed"} /\ Take(w)
    /\ UNCHANGED <<iconVars, trayWindowVars, trayParent, trayRegistered, collected, iconCalls>>

-----------------------------------------------------------------------------
(* Awesome: Lua code lays the tray out.                                    *)

\* The cells of systray_update for a list in drawing order: a hidden icon takes no cell,
\* but the column ends at an index that counts the hidden ones.
Cells(list, rows) ==
    LET next[n \in 0..Len(list)] ==   \* the cell after n icons
            IF n = 0 THEN <<0, 0>>
            ELSE IF ~list[n].mapped THEN next[n - 1]
            ELSE IF n % rows = 0 THEN <<next[n - 1][1] + 1, 0>>
            ELSE <<next[n - 1][1], next[n - 1][2] + 1>>
    IN  [w \in {list[i].win : i \in Visible(list)} |->
            next[(CHOOSE i \in Visible(list) : list[i].win = w) - 1]]

Columns(n, rows) == (n + rows - 1) \div rows

\* systray_update.
LayOut(list, rows) ==
    [cells |-> Cells(list, rows),
     size |-> <<Columns(Cardinality(Visible(list)), rows), rows>>,
     hidden |-> {list[i].win : i \in DOMAIN list \ Visible(list)}]

LuaCall == handling = Idle /\ Len(trayRequests) < MaxTrayRequests

\* systray_register and luaA_systray with a place for the tray.
RedrawTray(d, rows, isReversed) ==
    /\ LuaCall /\ d \notin collected
    /\ trayRegistered' = TRUE
    /\ trayParent' = d
    /\ trayStale' = FALSE
    /\ trayRequests' = trayRequests
         \o (IF trayParent # d THEN <<<<"put", d>>>> ELSE <<>>)
         \o (IF Visible(embedded) = {} THEN <<>>
             ELSE <<<<"layout", LayOut(IF isReversed THEN Reverse(embedded) ELSE embedded, rows)>>>>)
    /\ UNCHANGED <<iconVars, trayWindowVars, trayReply, trayEvents, embedded, collected, handling,
                   iconCalls>>

\* Nothing is moved.
NotKickedOut(d) == <<>>

\* drawin_systray_kickout.
KickedOut(d) == IF trayParent = d THEN <<<<"put", "root">>>> ELSE <<>>
NewParent(d) == IF trayParent = d THEN NoDrawin ELSE trayParent

\* luaA_systray with the drawin only.
Kickout(d) ==
    /\ LuaCall /\ d \notin collected
    /\ trayRegistered' = TRUE
    /\ trayParent' = NewParent(d)
    /\ trayRequests' = trayRequests \o KickedOut(d)
    /\ UNCHANGED <<iconVars, trayWindowVars, trayReply, trayEvents, embedded, collected, handling,
                   trayStale, iconCalls>>

\* drawin_wipe, for the garbage collector: nothing of Lua's refers to the drawin any more.
Wipe(d) ==
    /\ LuaCall /\ d \notin collected
    /\ collected' = collected \cup {d}
    /\ trayParent' = NewParent(d)
    /\ trayRequests' = trayRequests \o KickedOut(d) \o <<<<"destroy", d>>>>
    /\ UNCHANGED <<iconVars, trayWindowVars, trayReply, trayEvents, embedded, trayRegistered, handling,
                   trayStale, iconCalls>>

-----------------------------------------------------------------------------
TrayNext ==
    \/ \E w \in Icon : AppDocks(w) \/ AppSetsInfo(w) \/ AppMaps(w) \/ AppMovesAway(w) \/ AppDestroys(w)
    \/ ExecuteTrayRequest
    \/ HandleTrayEvent \/ DockEnd \/ InfoEnd
    \/ \E d \in TrayDrawin :
          \/ \E rows \in TrayRows, isReversed \in BOOLEAN : RedrawTray(d, rows, isReversed)
          \/ Kickout(d) \/ Wipe(d)

TraySpec == TrayInit /\ [][TrayNext]_trayVars

-----------------------------------------------------------------------------
(* Properties.                                                             *)

TrayQuiet == trayRequests = <<>> /\ trayEvents = <<>> /\ handling = Idle

\* Whatever applications do to their windows and whenever, in the end globalconf.embedded
\* has each window that is inside the tray, once, and nothing else.
EmbeddedIsInTheTray ==
    TrayQuiet => /\ Embedded = {w \in Icon : trayPlace[w] = "tray"}
                 /\ IsInjective([i \in DOMAIN embedded |-> embedded[i].win])

\* An icon can be seen.
Viewable(w) == w \in iconMapped /\ trayPlace[w] = "tray" /\ trayMapped /\ trayIn \in TrayDrawin

\* What its application wants.
Wanted(w) == xembedInfo[w] # "hidden" \/ w \in asksMap

\* When Lua code has laid the tray out after the last "systray::update", the icons to be
\* seen are those whose applications want it: flags set by a property, by a MapRequest or
\* by default, in any order.  A property that changes while its window is being docked
\* can be missed: it is read before its changes are asked for.
IconsAreShownAsWanted ==
    (TrayQuiet /\ ~trayStale /\ trayParent # NoDrawin) =>
        \A w \in Embedded \ missed : Viewable(w) = Wanted(w)

\* The tray is where awesome believes it is, and is never destroyed together with the
\* drawin that holds it (drawin_wipe: "make sure we don't accidentally kill the systray
\* window").
TrayOutlivesDrawins ==
    /\ trayIn # "gone" /\ trayParent \notin collected
    /\ trayRequests = <<>> => trayIn = IF trayParent = NoDrawin THEN "root" ELSE trayParent

\* A layout gives each icon to be seen a cell of its own inside the tray.  With several
\* rows it does so only if no icon is hidden: the index that ends a column counts them.
CellsFit ==
    (TrayQuiet /\ ~trayStale /\ trayMapped /\ (traySize[2] = 1 \/ \A i \in DOMAIN embedded : embedded[i].mapped)) =>
        /\ IsInjective(cells)
        /\ \A w \in DOMAIN cells : cells[w][1] < traySize[1] /\ cells[w][2] < traySize[2]

\* Together: the tray holds the icons that applications have docked, shows those that are
\* to be seen, side by side, and survives its drawins.
TrayInv ==
    TrayTypeOK /\ EmbeddedIsInTheTray /\ IconsAreShownAsWanted /\ TrayOutlivesDrawins /\ CellsFit
=============================================================================

------------------------------- MODULE Screens -------------------------------
(***************************************************************************)
(* objects/screen.c: the screens of awesome, which follow the monitors     *)
(* that the X server reports and to which Lua code adds others; the        *)
(* clients, each of which is on one screen; and the primary screen.        *)
(*                                                                         *)
(* Changes of the monitors are announced by events, which only ask for a   *)
(* refresh; the refresh compares the screens with the monitors when awesome*)
(* is idle.  Screens that go away emit "removed" before their clients are  *)
(* moved, and the handlers of this signal may do anything to screens.      *)
(* Places have one dimension, which is enough to be inside, beside, between*)
(* and on top of each other.                                               *)
(***************************************************************************)
EXTENDS Integers, SequencesExt

CONSTANTS Layout,        \* what the server may have: sequences of monitors [id, x, w]
          ScreenClient,  \* the clients
          Position,      \* where clients may be
          MaxScreens,    \* bound: screen objects that are ever created
          MaxScreenCalls,\* bound: changes of monitors and calls of Lua code
          NoScreen

NONE == "none"   \* the xid of the screen made when there is no monitor
FAKE == "fake"   \* FAKE_SCREEN_XID

Output == UNION {{ms[i].id : i \in DOMAIN ms} : ms \in Layout}
Monitor == [id : Output, x : Int, w : Nat \ {0}]

\* Monitors have ids of their own; and the bounds allow a screen for each.
ASSUME ScreensAssumption ==
    /\ Layout \subseteq Seq(Monitor) /\ NONE \notin Output /\ FAKE \notin Output
    /\ \A ms \in Layout : \A i, j \in DOMAIN ms : ms[i].id = ms[j].id => i = j
    /\ MaxScreens \in Nat \ {0} /\ \A ms \in Layout : Len(ms) <= MaxScreens
    /\ Position \subseteq Int /\ NoScreen \notin Int /\ NoScreen \notin Int \X Int

VARIABLES monitors,     \* the server's, in its order
          primaryOutput, \* the server's primary output: a monitor's id or NoScreen
          rootEvents,   \* to be handled: "configure" of the root window, "output" changes
          randr,        \* globalconf.have_randr_13: the server has RandR
          refreshPending, \* globalconf.screen_refresh_pending
          screens,      \* globalconf.screens
          info,         \* of each screen: xid, x, w, valid, and view, the viewport's place
          viewports,    \* the outputs that each viewport has, by the viewport's place
          primaryScreen, \* globalconf.primary_screen
          screenOf, position,   \* of the clients
          removing,     \* the frames of C code that removes screens, of each: the screens to go,
                        \* the stage, the signal that is being handled: "removed",
                        \* "property::screen" or "list"; and todo, the clients that have not
                        \* been looked at for the first of the screens
          meddled,      \* history: the screens that Lua code has changed since a refresh began, and
                        \* that its end has not put right
          stranded,     \* history: the clients that handlers have put on a screen that goes away,
                        \* after its clients have been looked at
          screensMade, screenCalls

monitorVars == <<monitors, primaryOutput, randr>>
listVars == <<screens, info, viewports, screensMade>>
placeVars == <<screenOf, position>>
screensVars == <<monitorVars, rootEvents, refreshPending, listVars, primaryScreen, placeVars,
                 removing, meddled, stranded, screenCalls>>

Screen == 1..MaxScreens
Place(m) == <<m.x, m.w>>

ScreensTypeOK ==
    /\ monitors \in Layout /\ rootEvents \in Seq({"configure", "output"})
    /\ screens \in Seq(Screen) /\ IsInjective(screens)
    /\ DOMAIN info = 1..screensMade /\ screensMade \in 0..MaxScreens
    /\ primaryScreen \in Screen \cup {NoScreen}
    /\ screenOf \in [ScreenClient -> Screen] /\ position \in [ScreenClient -> Position]

-----------------------------------------------------------------------------
(* Looking for monitors.                                                   *)

\* The elements of a sequence that are in S, in their order.
Kept(s, S) ==
    LET kept[n \in 0..Len(s)] ==
            IF n = 0 THEN <<>> ELSE IF s[n] \in S THEN Append(kept[n - 1], s[n]) ELSE kept[n - 1]
    IN  kept[Len(s)]

\* screen_deduplicate: of monitors at the same place the larger one stays, or the first.
Hidden(ms, i) == \E j \in DOMAIN ms \ {i} :
                     /\ ms[j].x = ms[i].x
                     /\ ms[j].w > ms[i].w \/ (ms[j].w = ms[i].w /\ j < i)
Deduplicated(ms) == LET kept == Kept([i \in DOMAIN ms |-> i], {i \in DOMAIN ms : ~Hidden(ms, i)})
                    IN  [k \in DOMAIN kept |-> ms[kept[k]]]

\* screen_scan_x11: without any monitor, one screen as large as the root window.
RootWindow == [id |-> NONE, x |-> 0, w |-> 4]

\* screen_scan_randr_monitors, deduplicated.
Scanned(ms) == IF ms = <<>> THEN <<RootWindow>> ELSE Deduplicated(ms)

\* viewport_add and viewport_purge: a viewport whose place is still a monitor's is kept
\* with all the outputs it has ever had, and has its outputs added.
Viewports(old, ms) ==
    [p \in {Place(ms[i]) : i \in DOMAIN ms} |->
        (IF p \in DOMAIN old THEN old[p] ELSE {}) \cup {ms[i].id : i \in {j \in DOMAIN ms : Place(ms[j]) = p}}]

\* screen_scan_xinerama: without RandR the screens have no xid of their own.
Xinerama(ms) == [i \in DOMAIN ms |-> [ms[i] EXCEPT !.id = NONE]]

\* screen_add and screen_added.
ScreenAt(m) == [xid |-> m.id, x |-> m.x, w |-> m.w, valid |-> TRUE, view |-> Place(m)]

Having(list, inf, views) ==
    {i \in DOMAIN list : inf[list[i]].view \in DOMAIN views /\ primaryOutput \in views[inf[list[i]].view]}

\* screen_update_primary: the last screen whose viewport has the output.
UpdatedPrimary(list, inf, views) ==
    LET having == Having(list, inf, views)
    IN  IF ~randr \/ having = {} THEN primaryScreen ELSE list[Max(having)]

-----------------------------------------------------------------------------
(* Finding a screen for a place.                                           *)

\* screen_coord_in_screen, screen_area_in_screen (a client is one unit wide) and
\* screen_get_distance_squared.
CoordInScreen(inf, s, x) == x >= inf[s].x /\ x < inf[s].x + inf[s].w
AreaInScreen(inf, s, x) == x < inf[s].x + inf[s].w /\ x + 1 > inf[s].x
Distance(inf, s, x) == IF x < inf[s].x THEN inf[s].x - x
                       ELSE IF x < inf[s].x + inf[s].w THEN 0 ELSE x - inf[s].x - inf[s].w

\* screen_getbycoord: the first that contains the place, else the first of the nearest.
GetByCoord(list, inf, x) ==
    LET inside == {i \in DOMAIN list : CoordInScreen(inf, list[i], x)}
        nearest == {i \in DOMAIN list : \A j \in DOMAIN list :
                        Distance(inf, list[i], x) <= Distance(inf, list[j], x)}
    IN  IF inside # {} THEN list[Min(inside)] ELSE list[Min(nearest)]

-----------------------------------------------------------------------------
(* screen_scan: the first screens.                                         *)

\* screen_scan_randr: RandR is not used if it has no monitors at first.
RandrWorks(isPresent, ms) == isPresent /\ ms # <<>>

ScreensInit ==
    /\ monitors \in Layout
    /\ \E isPresent \in BOOLEAN : randr = RandrWorks(isPresent, monitors)
    /\ primaryOutput = IF monitors = <<>> THEN NoScreen ELSE monitors[1].id
    /\ rootEvents = <<>> /\ refreshPending = FALSE
    /\ LET found == Scanned(IF randr THEN monitors ELSE Xinerama(monitors))
       IN  /\ screens = [i \in DOMAIN found |-> i]
           /\ info = [i \in DOMAIN found |-> ScreenAt(found[i])]
           /\ viewports = Viewports(<<>>, IF monitors = <<>> THEN <<RootWindow>> ELSE monitors)
           /\ screensMade = Len(found)
    /\ primaryScreen = 1
    /\ position \in [ScreenClient -> Position]
    /\ screenOf = [c \in ScreenClient |-> GetByCoord(screens, info, position[c])]
    /\ removing = <<>> /\ meddled = {} /\ stranded = {} /\ screenCalls = 0

-----------------------------------------------------------------------------
(* The server changes the monitors, or which of their outputs is primary.  *)

ScreenCall == screenCalls < MaxScreenCalls /\ screenCalls' = screenCalls + 1

ChangeMonitors ==
    /\ ScreenCall
    /\ monitors' \in Layout \ {monitors}
    /\ rootEvents' = Append(rootEvents, "configure")
    /\ UNCHANGED <<primaryOutput, randr, refreshPending, listVars, primaryScreen, placeVars, removing, meddled, stranded>>

ChangePrimary ==
    /\ ScreenCall
    /\ primaryOutput' \in {monitors[i].id : i \in DOMAIN monitors} \ {primaryOutput}
    /\ rootEvents' = IF randr THEN Append(rootEvents, "output") ELSE rootEvents
    /\ UNCHANGED <<monitors, randr, refreshPending, listVars, primaryScreen, placeVars, removing, meddled, stranded>>

\* screen_schedule_refresh.
ScheduleRefresh == refreshPending' = (refreshPending \/ randr)

\* event_handle_configurenotify, for the root window.
HandleConfigureNotify ==
    /\ Head(rootEvents) = "configure"
    /\ ScheduleRefresh
    /\ UNCHANGED primaryScreen

\* event_handle_randr_output_change_notify.
HandleOutputChange ==
    /\ Head(rootEvents) = "output"
    /\ primaryScreen' = UpdatedPrimary(screens, info, viewports)
    /\ UNCHANGED refreshPending

HandleRootEvent ==
    /\ removing = <<>> /\ rootEvents # <<>>
    /\ rootEvents' = Tail(rootEvents)
    /\ HandleConfigureNotify \/ HandleOutputChange
    /\ UNCHANGED <<monitorVars, listVars, placeVars, removing, meddled, stranded, screenCalls>>

-----------------------------------------------------------------------------
(* screen_refresh, from the idle source.                                   *)

\* Screens are known by their xids: new ones are appended, and those that awesome has
\* made itself for monitors that are gone leave the list together.
IsGone(inf, s, found) == inf[s].xid # FAKE /\ \A i \in DOMAIN found : found[i].id # inf[s].xid

Vanished(list, inf, found) == Kept(list, {s \in Range(list) : IsGone(inf, s, found)})

\* The signals of screens that are added are collapsed: their handlers act afterwards.
RefreshBegin ==
    /\ refreshPending /\ removing = <<>>
    /\ refreshPending' = FALSE
    /\ LET found == Scanned(monitors)
           new == Kept(found, {m \in Range(found) : \A i \in DOMAIN screens : info[screens[i]].xid # m.id})
           made == [i \in DOMAIN new |-> screensMade + i]
           all == info \o [i \in DOMAIN new |-> ScreenAt(new[i])]
           gone == Vanished(screens, info, found)
       IN  /\ screensMade + Len(new) <= MaxScreens
           /\ screensMade' = screensMade + Len(new)
           /\ info' = all
           /\ screens' = Kept(screens \o made, Range(screens \o made) \ Range(gone))
           /\ viewports' = Viewports(viewports, IF monitors = <<>> THEN <<RootWindow>> ELSE monitors)
           /\ removing' = <<[what |-> "refresh", gone |-> gone, found |-> found,
                            stage |-> "removed", todo |-> ScreenClient]>>
    /\ meddled' = {}
    /\ UNCHANGED <<monitorVars, rootEvents, primaryScreen, placeVars, stranded, screenCalls>>

\* A screen that is still in the list.
MovedOffLate(s, c) == [screenOf EXCEPT ![c] = GetByCoord(<<s>> \o screens, info, position[c])]

\* screen_client_moveto, without a resize.
MovedOff(s, c) == [screenOf EXCEPT ![c] = GetByCoord(screens, info, position[c])]

\* The rest of screen_removed, after the handlers of "removed" or of "property::screen" of
\* a client: the next client on the screen is moved, and its signal handled ...
MoveNext(frame, s) ==
    \E c \in frame.todo, rest \in SUBSET frame.todo :
        /\ screenOf[c] = s /\ c \notin rest
        /\ \A passed \in frame.todo \ (rest \cup {c}) : screenOf[passed] # s
        /\ screenOf' = MovedOff(s, c)
        /\ stranded' = stranded \ {c}
        /\ removing' = Front(removing) \o <<[frame EXCEPT !.stage = "property::screen", !.todo = rest]>>
        /\ UNCHANGED info

\* ... and when no client is left on it, a refresh turns to the next screen, while
\* fake_remove emits "list".
NoneLeft(frame, s) ==
    /\ \A c \in frame.todo : screenOf[c] # s
    /\ IF frame.what = "fake"
       THEN /\ removing' = Front(removing) \o <<[frame EXCEPT !.stage = "list", !.todo = {}]>>
            /\ UNCHANGED info
       ELSE /\ removing' = Front(removing) \o <<[frame EXCEPT !.gone = Tail(@), !.stage = "removed",
                                                              !.todo = ScreenClient]>>
            /\ info' = [info EXCEPT ![s].valid = FALSE]
    /\ UNCHANGED <<screenOf, stranded>>

RemovedReturns ==
    /\ removing # <<>> /\ Last(removing).gone # <<>> /\ Last(removing).stage # "list"
    /\ LET frame == Last(removing)
           s == Head(frame.gone)
       IN  /\ primaryScreen' = IF frame.stage = "removed" /\ primaryScreen = s THEN NoScreen ELSE primaryScreen
           /\ MoveNext(frame, s) \/ NoneLeft(frame, s)
    /\ UNCHANGED <<monitorVars, rootEvents, refreshPending, screens, viewports, screensMade, position,
                   meddled, screenCalls>>

\* The end of luaA_screen_fake_remove, after the handlers of "list": Lua code could use the
\* screen till then.
ListReturns ==
    /\ removing # <<>> /\ Last(removing).stage = "list"
    /\ info' = [info EXCEPT ![Head(Last(removing).gone)].valid = FALSE]
    /\ removing' = Front(removing)
    /\ UNCHANGED <<monitorVars, rootEvents, refreshPending, screens, viewports, screensMade, primaryScreen,
                   placeVars, meddled, stranded, screenCalls>>

\* The rest of the refresh: screen_modified and screen_update_primary.
Modified(found) ==
    [s \in DOMAIN info |->
        LET same == {i \in DOMAIN found : found[i].id = info[s].xid}
        IN  IF s \in Range(screens) /\ same # {} THEN ScreenAt(found[Max(same)]) ELSE info[s]]

RefreshEnd ==
    /\ removing # <<>> /\ Last(removing).gone = <<>>
    /\ info' = Modified(Last(removing).found)
    /\ primaryScreen' = UpdatedPrimary(screens, Modified(Last(removing).found), viewports)
    /\ removing' = Front(removing)
    /\ meddled' = meddled \ Range(screens)
    /\ UNCHANGED <<monitorVars, rootEvents, refreshPending, screens, viewports, screensMade, placeVars,
                   stranded, screenCalls>>

-----------------------------------------------------------------------------
(* Lua code, called from the main loop or as a handler of "removed", of    *)
(* "property::screen" or of "list" while a screen is removed.              *)

LuaActs == ScreenCall /\ IF removing = <<>> THEN TRUE ELSE Last(removing).gone # <<>>

\* luaA_screen_fake_add; every client moves to the screen its place is on.
FakeAdd(x, w) ==
    /\ LuaActs /\ screensMade < MaxScreens
    /\ screensMade' = screensMade + 1
    /\ screens' = Append(screens, screensMade')
    /\ info' = Append(info, [xid |-> FAKE, x |-> x, w |-> w, valid |-> TRUE, view |-> NoScreen])
    /\ screenOf' = [c \in ScreenClient |-> GetByCoord(screens', info', position[c])]
    /\ meddled' = meddled \cup {screensMade'}
    /\ stranded' = {}
    /\ UNCHANGED <<monitorVars, rootEvents, refreshPending, viewports, primaryScreen, position, removing>>

\* luaA_screen_fake_remove, up to its signal; the last screen is not removed.
FakeRemove(s) ==
    /\ LuaActs /\ Len(screens) > 1 /\ s \in Range(screens)
    /\ screens' = Kept(screens, Range(screens) \ {s})
    /\ removing' = Append(removing, [what |-> "fake", gone |-> <<s>>, found |-> <<>>,
                                        stage |-> "removed", todo |-> ScreenClient])
    /\ meddled' = meddled \cup {s}
    /\ UNCHANGED <<monitorVars, rootEvents, refreshPending, info, viewports, screensMade, primaryScreen, placeVars,
                   stranded>>

\* luaA_screen_fake_resize.
FakeResize(s, x, w) ==
    /\ LuaActs /\ info[s].valid /\ <<x, w>> # Place(info[s])
    /\ info' = [info EXCEPT ![s].x = x, ![s].w = w]
    /\ meddled' = meddled \cup {s}
    /\ UNCHANGED <<monitorVars, rootEvents, refreshPending, screens, viewports, screensMade, primaryScreen,
                   placeVars, removing, stranded>>

\* luaA_screen_swap.
SwapScreens(i, j) ==
    /\ LuaActs /\ i < j
    /\ screens' = [screens EXCEPT ![i] = screens[j], ![j] = screens[i]]
    /\ UNCHANGED <<monitorVars, rootEvents, refreshPending, info, viewports, screensMade, primaryScreen,
                   placeVars, removing, meddled, stranded>>

\* screen_get_primary, for Lua code that asks for screen.primary.
GetPrimary ==
    /\ LuaActs /\ primaryScreen = NoScreen
    /\ primaryScreen' = screens[1]
    /\ UNCHANGED <<monitorVars, rootEvents, refreshPending, listVars, placeVars, removing, meddled, stranded>>

\* The screens being removed whose clients are still to be looked at, c among them.
Coming(c) == {s \in Screen : \E i \in DOMAIN removing : \E k \in DOMAIN removing[i].gone :
                                removing[i].gone[k] = s /\ (k = 1 => c \in removing[i].todo)}

\* luaA_client_set_screen with screen_client_moveto: the client keeps its offset and
\* stays on the new screen.
SetScreen(c, s) ==
    /\ LuaActs /\ info[s].valid /\ s # screenOf[c]
    /\ screenOf' = [screenOf EXCEPT ![c] = s]
    /\ LET moved == info[s].x + position[c] - info[screenOf[c]].x
           kept == IF moved + 1 > info[s].x + info[s].w THEN info[s].x + info[s].w - 1 ELSE moved
       IN  position' = [position EXCEPT ![c] = IF AreaInScreen(info, s, kept) THEN kept ELSE info[s].x]
    /\ position' \in [ScreenClient -> Position]
    /\ stranded' = IF s \in Range(screens) \cup Coming(c) THEN stranded \ {c} ELSE stranded \cup {c}
    /\ UNCHANGED <<monitorVars, rootEvents, refreshPending, listVars, primaryScreen, removing, meddled>>

\* client_resize_do: a client that leaves its screen moves to the one it comes to.
MoveClient(c, x) ==
    /\ LuaActs /\ x # position[c]
    /\ position' = [position EXCEPT ![c] = x]
    /\ screenOf' = [screenOf EXCEPT ![c] = IF AreaInScreen(info, @, x) THEN @ ELSE GetByCoord(screens, info, x)]
    /\ stranded' = IF AreaInScreen(info, screenOf[c], x) THEN stranded ELSE stranded \ {c}
    /\ UNCHANGED <<monitorVars, rootEvents, refreshPending, listVars, primaryScreen, removing, meddled>>

ScreensNext ==
    \/ ChangeMonitors \/ ChangePrimary \/ HandleRootEvent
    \/ RefreshBegin \/ RemovedReturns \/ ListReturns \/ RefreshEnd
    \/ \E x \in Position : FakeAdd(x, 1)
    \/ \E s \in 1..screensMade : FakeRemove(s) \/ FakeResize(s, 1, 2)
    \/ \E i, j \in DOMAIN screens : SwapScreens(i, j)
    \/ GetPrimary
    \/ \E c \in ScreenClient : \/ \E s \in 1..screensMade : SetScreen(c, s)
                               \/ \E x \in Position : MoveClient(c, x)

ScreensSpec == ScreensInit /\ [][ScreensNext]_screensVars

-----------------------------------------------------------------------------
\* Outside of C code, no client is on a screen that has been removed and the primary
\* screen is none of these, even when handlers of "removed" have put clients there,
\* removed further screens or asked for the primary one; but for the clients that a
\* handler of "property::screen" or "list" puts on a screen whose clients have been moved.
NothingOnDeadScreens ==
    removing = <<>> => /\ \A c \in ScreenClient \ stranded : screenOf[c] \in Range(screens)
                       /\ primaryScreen \in Range(screens) \cup {NoScreen}

UpToDate == randr /\ rootEvents = <<>> /\ ~refreshPending /\ removing = <<>>

\* With RandR, once all changes have been heard of, the screens are those of the monitors that are
\* not hidden behind others, each at its place, whatever changed while the refresh was
\* under way, but for what Lua code has done to them since.
ScreensFollowMonitors ==
    UpToDate => LET found == Scanned(monitors)
                    own == {s \in Range(screens) : info[s].xid # FAKE}
                IN  /\ \A s \in own \ meddled : <<info[s].xid, Place(info[s])>> \in
                                                    {<<found[i].id, Place(found[i])>> : i \in DOMAIN found}
                    /\ \A i \in DOMAIN found : \E s \in own \cup meddled : info[s].xid = found[i].id

\* Then the screen of the primary output is the primary screen, provided that the
\* viewports have no outputs that have gone elsewhere since (they do after mirrored
\* outputs are separated), and that Lua code leaves the screens alone.
PrimaryFollowsServer ==
    UpToDate /\ meddled = {}
    /\ (\A p \in DOMAIN viewports :
            viewports[p] = {monitors[i].id : i \in {j \in DOMAIN monitors : Place(monitors[j]) = p}})
    => \A s \in Range(screens) : info[s].xid = primaryOutput => primaryScreen = s

\* Together: the screens, their primary one and the clients on them follow the monitors
\* that RandR reports, whatever the handlers of "removed" do in the middle.
ScreensInv == ScreensTypeOK /\ NothingOnDeadScreens /\ ScreensFollowMonitors /\ PrimaryFollowsServer
=============================================================================

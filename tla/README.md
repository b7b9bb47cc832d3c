# A verification project for the awesome window manager

awesome is an X11 window manager: a single-threaded C program that owns the
state (clients, tags, stacking, focus), embeds Lua for every policy, and talks
to the X server over an asynchronous connection. What is hard about it is not
parallelism inside of it but the three things around it:

* **the X server**, which executes requests later, refuses some of them, and
  reports what happened with events that are old when they are read;
* **Lua code**, which runs inside signal emissions in the middle of C functions
  and may call back into any operation;
* **deferred work**: most operations only set a flag, and `awesome_refresh` does
  the work once per main loop iteration, in a fixed order of stages.

The modules here model the core where these meet. They are written from the
source in `src/`; `PROJECT.json` maps every definition to the lines it stands for.

## Inventory

| component | state | operations | hard because | what makes it correct | modelled in |
|---|---|---|---|---|---|
| client list, `transient_for` (`objects/client.c`, `client.h`, `property.c`) | `globalconf.clients`, `globalconf.stack`, `c->transient_for_window`, `c->transient_for` | manage, unmanage, property change, raise, lower, swap, map request | applications choose the hints; three walks over the relation have no bound | no loop, no dangling pointer, the lists agree | `ClientList` |
| stacking (`stack.c`) | the stack, `need_stack_refresh`, layer flags, drawins, the X order | the above, layer setters, drawin map/unmap/ontop, `stack_refresh` | requests are relative to other windows; several causes, one refresh | the X order respects layers, families and the stack | `Stacking` |
| special layers (`objects/client.c`) | `fullscreen`, `above`, `below`, `ontop` | the setters | signals between clearing and setting | at most one flag, a restack for every change | `Layers` |
| banning (`banning.c`) | `need_lazy_banning`, `c->isbanned` | `banning_need_update`, `banning_refresh` | every visibility change anywhere must announce itself | banned = invisible when nothing is pending | `Banning` |
| tags (`objects/tag.c`) | `globalconf.tags`, `selected`, `activated`, `clients` | tag, untag, view, activate | inactive tags keep selected flags and clients | tags hold live clients, visibility follows | `Banning` |
| focus (`objects/client.c`, `event.c`) | `globalconf.focus`, `globalconf.timestamp`; the server's focus and focus time | `client.focus = c`, `client_focus_refresh`, FocusIn, unmanage | two asynchronous channels, timestamps, applications that focus themselves | the two opinions agree in the end, the last assignment wins | `Focus` |
| enter/leave brackets (`objects/client.c`, `event.c`) | `ignore_enter_leave_events`, `pending_enter_leave_begin` | ignore, restore, `should_ignore` | 32 bit sequence numbers, late events | exactly the crossings caused by awesome are ignored | `EnterLeave` |
| main loop (`awesome.c`, `event.h`) | `pending_event`, libxcb's queue and output buffer, deferred flags | `a_glib_poll`, `awesome_refresh`, `a_xcb_check` | events hide in libxcb's queue; refreshing runs Lua | no sleep over work, motion events in order, nothing lost | `MainLoop` |
| selection transfer and getter (`objects/selection_transfer.c`, `selection_getter.c`, `selection_acquire.c`) | transfer objects, properties, event masks | request, `send`, `continue`, property events | a protocol of two clients and the server | a stream: all bytes, once, in order, with an end | `Selection`, `Stream` |
| selection ownership (`selection_acquire.c`, `selection_watcher.c`) | the table of active acquire objects, timestamps, active watchers | acquire, release, SelectionClear, XFixes events | the release signal is emitted before the release; a reply is awaited in the middle | registry and server agree on the owner, watchers know who it is | `SelectionOwner` |
| client life cycle (`objects/client.c`, `event.c`) | the windows' parents, map states, save-set and event masks; `globalconf.clients` | manage, unmanage, minimize, MapRequest, UnmapNotify, DestroyNotify, ReparentNotify, WM_CHANGE_STATE | requests and events cross; awesome's own reparenting looks like the application's | clients = mapped windows; each in its frame, observed, in the save-set | `Lifecycle` |
| re-entrant signals in manage and unmanage | all of the above | handlers of `unfocus`, `untagged`, `request::unmanage` ... | a client half taken apart | what is told of it is right in the end | `Ewmh` for focus, tags and states; single steps in the modules above |
| geometry (`objects/client.c`, `event.c`, `xwindow.c`) | `c->geometry`, `c->x11_client_geometry`, `c->x11_frame_geometry`, titlebar sizes, border, size hints | resize, titlebar and border changes, fullscreen, ConfigureRequest, `client_geometry_refresh` | four copies of a rectangle, brought in line later; gravity; requests answered by a real or a synthetic notification | titlebars fit, the application knows its place, its window keeps the point that its gravity names, requests are answered, size hints hold | `Geometry` |
| restart and startup (`awesome.c`, `options.c`, `luaa.c`) | `AWESOME_CLIENT_ORDER`, the save-set, `WM_Sn`, options | `awesome_atexit`, crash, `scan`, `restore_client_order`, `acquire_WM_Sn`, modelines, configuration files | state in the server across processes, nobody listening in between; two instances; a hand-written parser | order restored for the surviving clients, no window lost; one manager at a time; modelines mean what they say | `Lifecycle`, `Takeover`, `Options` |
| screens (`objects/screen.c`) | `globalconf.screens`, viewports, `primary_screen`, `c->screen` | RandR scan and refresh, fake screens, swap, moving clients | clients of a screen that goes, handlers of "removed" | every client is on a live screen; screens follow the monitors | `Screens` |
| work area (`objects/screen.c`, `strut.h`) | `s->workarea`, struts | every change of a strut, a place or a visibility | each has to update the right screens, between signals | stored = computed | `Workarea` |
| drawing (`objects/drawin.c`, `drawable.c`, `client.c`) | pixmaps, `refreshed`, `geometry_dirty` | refresh, resize, Expose, titlebars | windows are resized later than their drawables | what was drawn is shown, what was not is not | `Drawing` |
| systray and XEmbed (`systray.c`, `common/xembed.c`) | `globalconf.embedded`, `globalconf.systray` | dock, configure, kick out | third party windows, several requests each | embedded = in the tray, shown as wanted | `Tray` |
| key bindings and xkb (`xkb.c`, `objects/key.c`) | key objects, bindings, keysyms, `xkb_update_pending` | layout and group changes, binding changes, setters of key objects, managing | deferred refresh with handlers | grabs = bindings in the server's layout | `Keyboard` |
| pointer (`event.c`, `mousegrabber.c`) | `drawable_under_mouse`, `mousegrabber` | button, motion and crossing events, grabs | frozen pointers, windows that are gone | the pointer thaws; the drawable under the mouse is known | `Pointer` |
| Lua objects and signals (`common/luaobject.c`, `luaclass.c`, `signal.h`) | reference counts, signal tables | ref, unref, connect, disconnect, emit, collect | disconnecting during an emission | what C points to is alive | `Objects` |
| spawn (`spawn.c`, SIGCHLD in `awesome.c`) | running children, the pipe, startup sequences | spawn, SIGCHLD, reap, libsn's messages, timeouts | merged signals, reused pids, counted memory | each exit function runs once, for its child; sequences are freed once | `Spawn` |
| EWMH, properties, xwindow (`ewmh.c`, `property.c`, `xwindow.c`) | properties on windows | client messages, property events, signal handlers in C | changes inside of changes | others read what is the case | `Ewmh`; initial state in `Stacking`, hints in `ClientList` |
| root window (`root.c`) | `globalconf.wallpaper`, two properties, retained pixmaps | set, update; other programs | two connections, nested handlers | the wallpaper is current, none is leaked | `Wallpaper` |
| D-Bus (`dbus.c`) | Lua's stack | messages, replies, signals | indices from the top of the stack | values keep their meaning | `Dbus` |
| icons (`ewmh.c`, `property.c`, `objects/client.c`) | `c->icons`, `have_ewmh_icon` | property events, managing, `c.icon` | two properties of any content, read after they have changed again | the application's last word is shown, in the size that fits | `Icons` |
| X properties (`property.c`, `objects/window.c`), and awful's on top of them (`lib/awful/client.lua`) | `globalconf.xproperties`; the server; a table for each client | register, set, get, events; `client.property.*` | other programs write too; clients' objects come and go | what is set is got, listeners know, persistent ones are kept | `Xproperties` |
| colours (`color.c`, `objects/window.c`, `systray.c`) | `border_color`, `background_pixel` | setting colours, the border's refresh | visuals of every width, colormaps | shown = asked = read | `Colors` |
| keygrabber and keys pressed (`keygrabber.c`, `event.c`) | `globalconf.keygrabber`, the server's grab | run, stop, key events | functions that replace or fail each other while keys wait | no grab without a function; bindings that match are called | `Keygrabber` |
| fake input, images, text encodings | - | conversions and I/O | - | - | not modelled |
| Lua libraries (`lib/`) | policies | tags, layouts, rules, notifications, widgets | user code | - | `gears.timer.delayed_call` in `MainLoop`, `awful.client.property` in `Xproperties`; otherwise Lua code is "anything, at any time" |

Interaction: X events arrive through `a_xcb_check`, whose handlers (`event.c`,
`property.c`) change clients, tags, focus and selections and emit signals; Lua
code, in signal handlers and key bindings, calls the operations of client, tag
and drawin objects; these record deferred work, which `awesome_refresh` turns
into X requests in the order Lua delayed calls, drawins, geometry and focus,
banning, stacking, destroying windows, flush.

## The modules

Every module takes the code's functions as its actions; the comment on an action
names the function. Definitions such as `UnmanageDangling` that stand right
before another one and say "as ..., without ..." are mutated forms: plausible
slips in that function, used to see that each property notices one.

**ClientList** - `clients`, `stack`, `hint` (`transient_for_window`) and
`transientFor`. A client is its window. `Ancestors` is the set that the walk of
`client_find_transient_for` meets, `EndsWithout` what the loop with its bound
accepts (`WalkMatchesLoop` compares it with the loop, iteration by iteration).
`Manage` keeps the order of the code: the client enters the client list, its
own hint and the hints of waiting clients are resolved, and only then it
enters the stack, which matters for the loop's bound.

**Stacking** - instantiates `ClientList` for the list operations and adds layers,
drawins and `xorder`, the X server's order of frames and drawin windows. A refresh
is a fold of "put w right above the previous window" requests as the server
executes them. `unasked` records the changes for which the code asks for no
refresh (a focus change of a fullscreen client, `WM_TRANSIENT_FOR`).

**Layers** - the four setters with their call stack. `Stacking` takes a setter
as one step; here every signal is a point at which a handler may call another
setter, with either value. `crossed` is history: a handler has set a layer that a
setter around it had cleared already.

**Banning** - clients' visibility (tags, sticky, minimized, hidden), the deferred
banning and the focus as far as it depends on visibility. `Refresh` is
`client_focus_refresh`, with the unbanning it does, followed by
`banning_refresh`. The X server takes the focus away from windows that are unmapped.

**Focus** - awesome's `globalconf.focus` against the server's focus, with the
queue of requests and the queue of events between them, timestamps, applications
that focus themselves or act on `WM_TAKE_FOCUS`, and windows that die. `InputWindow` is the
window that gets a client's keys: its own, or the nofocus window inside the frame, whose focus no event
reports. A dead client's frame is there until the server executes the request to destroy it.

**EnterLeave** - requests have true numbers; the code sees them modulo `Modulus`.
`brackets` is the history the property speaks of.

**MainLoop** - the control flow of an iteration with libxcb's queue, the socket,
the output buffer and the server. An event is its number; `sent` has its kind.
`RoundTrip` is any request for a reply in the middle of Lua or C code.

**Selection** - transfers between an owner and askers, either of which may be
awesome, with properties, event masks and one event queue per X client.
**Stream** is the abstract specification: a growing amount of given data, a
received prefix, an end when all is received. `ImplementsStream` is the
refinement: `given` and `got` are the same, `ended` is the set of transfers that
the asker considers over.

**Geometry** - one axis (position and width) of one client: `client` is what
awesome wants (`c->geometry`, `c->titlebar`, `c->border_width`, fullscreen), `server`
what the X server has been told, `told` what the application was told
last, `asked` whether it waits for an answer. `Resize`, `ApplySizeHints`, `Translate` and
`RealGeometry` are the functions of these names in the code as operators on records;
`Refresh` is `client_border_refresh` and `client_geometry_refresh` with the notification
that the server or awesome itself sends. `anchor` is the point of the application's
window that its gravity names, as the last change that was meant to move it left it.

**Lifecycle** - windows on the server (`win`: parent, map state, WM_STATE, save-set, event
masks), what their applications want (`wish`), and awesome's client list, with the
queues of events and requests between them. `Effect` says what a request does to a
window; the grabbed sequences of `client_manage` and `client_set_minimized` are one
request each ("adopt", "hide"), while those of `client_unmanage`, which are not grabbed, are
single ones that applications may get in between. `managing` is a window whose
`client_manage` waits for replies. `Exit`, `Crash`, `CloseDown` and the `Scan*` actions take
awesome from one instance to the next. `excepted` is a history variable: it collects the windows
whose last change awesome cannot know of (see the known limits).

**SelectionOwner** - requests and events between awesome and the server, the objects with
their windows, and `calls`: what C code is in the middle of. `AcquireBegin`,
`AcquireEnd` and `Register` are the parts of `luaA_selection_acquire_new` around the
reply it awaits and the release signal of the object it replaces. Lua code runs from
the main loop and inside of "release".

**Screens** - `monitors` is the server's, `screens` and `info` awesome's;
`viewports` remembers outputs by place as the code does. `RefreshBegin`, `RemovedReturns`
and `RefreshEnd` are `screen_refresh`, and `FakeRemove`, `RemovedReturns` and `ListReturns`
`luaA_screen_fake_remove`, around the signals "removed", "property::screen" of every client that leaves,
and "list", whose handlers may call every other operation; `removing` holds what is being removed,
with the `stage` of each. Places have one dimension.

**Workarea** - `running` holds the C functions that run, each called by a handler of the
one before, with what is left to do: updates of a screen, signals, and steps whose
updates depend on what handlers have done meanwhile (`Late`). `Computed` is
`screen_update_workarea`.

**Drawing** - a drawin and a frame with two titlebars, each window a row of pixels that
shows what was copied to it last; `Copied` and the operators before it are what the server does.
`moved` records the titlebars that have moved in the frame, but not on the root window, since
they were drawn: the code does not draw them again.

**Wallpaper** - pixmaps with the state of the connection that keeps them, the two
properties, and nested calls of `root_set_wallpaper`.

**Takeover** - processes that read the owner of `WM_Sn`, take the selection, wait for the
old window and select SubstructureRedirect; and end, restart or are killed anywhere.

**Pointer** - where the pointer is, who has frozen or grabbed it, and awesome's opinion
of what is under it, with crossing events in a queue.

**Keyboard** - the server's layout and group, awesome's keysyms, the key objects, the lists
that hold them (an object may be in several) and the grabs on each window; `SetKey` and
`SetModifiers` change an object, bound or not; `depth` tells the main loop from the handlers of `xkb_refresh`.

**Tray** - the icons' windows on the server, the requests of `systray_request_handle` one
by one (`handling`), the layout of `systray_update`, and drawins that hold the tray.

**Ewmh** - like `Workarea`, a stack of C functions with what they have yet to do.
`Connected` lists, for each signal, the functions that `ewmh_init_lua` connects, which run
after the object's handlers and before the configuration's. `RootHints`, `StateAtoms` and
`DesktopOf` say what the properties ought to be.

**Spawn** - processes with reused pids, SIGCHLD, the pipe and `reap_children`'s loop; and
the references to startup sequences that libsn, the list `sn_waits` and timeouts hold.

**Objects** - which objects and functions are alive, the counts in the reference tables, the
plain pointers of C, and the emissions that run, each with what it still has to call.

**Dbus** - conversion in both directions on a model of Lua's stack with its indices from
the top. An error that nothing catches restarts awesome (`RestartAfterError`). `Meaning`, `CanBeSent` and
`Wanted` say the same without a stack. The conversions are recursive, as in the code, so
that this module stays with TLC.

**Options** - the automaton of `options_init_config` character by character, with lines
read a buffer at a time, then `getopt` and the configurations tried in turn.
`ModelineMeaning` reads a modeline in another way, by cutting it at its separators.

**Icons** - the properties of one window, the events that announce their changes, and the
client's images. `IconsIn` cuts a list into images, `GetIcon` is the search of `c.icon`;
an event is handled with the properties as they are by then.

**Xproperties** - properties on windows as the server keeps them, with types; the registry;
the events; and, for clients, awful's tables (`private`, `loaded`). `heard` is what a
handler of "xproperty::name" has read last, `lastSet` what Lua code set last.

**Colors** - strings are sequences of hexadecimal digits, pixels are records of fields, so that
`ApplyMask` does what the code's shifts do without bit operations. `Garbage` stands for the uninitialized
`color_t` in `luaA_systray`.

**Keygrabber** - keys that wait, the function or the bindings on Lua's stack that the key
being handled goes to, and who has the keyboard. Any function that is called may start
and stop keygrabbers, change the bindings or fail.

The modules `MC*` instantiate these for TLC; the `.cfg` files choose constants.
`MCWindows`, `MCInput`, `MCServices`, `MCClients` and `MCLifecycle` each hold several components, which
share no variable. An interleaving of two of them would show nothing that each alone does not,
so the variable `part` chooses the one that a behaviour is about, and the others stay
where they started. A property of one component thus is checked in all of its own states,
and a run has the sum of their states instead of the product. Names ending in
`Inv` are the conjunction of the type invariant of a component and its properties.

## The runs

| run | question | properties | result |
|---|---|---|---|
| `windows` | client list: can applications' hints or any order of operations break the relation or the lists? | `NoTransientLoop`, `TransientForIsLive`, `ListsFollowTheRelation` | no |
| | layers: how many can a client get by nested setters, and are the windows restacked? | `OneLayerUnlessCrossed`, `LayerChangesRestack` | one, unless a handler sets one that was cleared for another; yes |
| | screens: do screens, clients and the primary screen follow the monitors, whatever the handlers of a screen that is removed do? | `ScreensInv` | yes, but for stale viewports and clients that come back late |
| | is the stored work area the right one? | `WorkareaInv` | yes, but for three callers that forget it |
| | is what was drawn shown, and nothing else? | `DrawingInv` | yes, but for moved titlebars |
| | is the wallpaper current, and is none left behind? | `WallpaperInv` | yes, but for one that is replaced before its connection is closed |
| | does one window manager take over from another? | `TakeoverInv` | yes, if no two do at once |
| `input` | does every change of visibility reach the screen, does the focus reach the server? | `BanningFollowsVisibility`, `FocusReachesTheServer`, `TagsHoldManagedClients` | yes, while Lua leaves inactive tags alone |
| | are exactly the own crossings ignored, across wrap-arounds? | `EnterLeaveInv` | yes, if no bracket straddles one |
| | does a frozen pointer thaw, is what is under it known? | `PointerInv` | yes, but for two presses |
| | are keys grabbed as the layout and the bindings say? | `KeyboardInv` | yes, unless handlers run a nested loop or a bound key object is changed |
| | does every binding that matches a key hear it, whatever the first of them do? | `KeygrabberInv` | yes |
| | is the keyboard let go with the function it was grabbed for? | `KeygrabberInv` | yes |
| | is the tray's list what is in the tray, and seen as wanted? | `TrayInv` | yes, with a gap when docking and with hidden icons |
| `services` | do awesome and the server agree on a selection's owner? | `OwnershipInv` | yes, but for two races |
| | does every child's function run once, is every sequence freed once? | `SpawnInv` | yes |
| | do D-Bus values keep their meaning both ways? | `DbusInv` | yes, except beside arrays of descriptors |
| | can a pointer of C outlive what it points to? | `ObjectsInv` | no |
| | does a modeline give its options, within the buffers? | `OptionsInv` | yes, if its last option has a value |
| `options_separated` | also if the last option has none? | `OptionsAreSeparated` | no |
| `banning_late_tag` | is activating a tag announced? | `BanningFollowsVisibility` | no |
| `clients` | does the X order follow layers, families, the stack and the drawins' places? | `StackingInv` | yes, once a requested refresh is done |
| | are icons read whole, shown in the right size, and those that the application set last; are colours shown and read as they were asked for? | `AppearanceInv` | yes; colours in visuals with masks |
| | do X properties reach listeners, read back, and survive their clients' objects? | `XpropertiesInv` | yes, but for two kinds of values |
| `focus` | does the last `client.focus = c` win over late FocusIn events, and who has the focus in the end? | `FocusInv` (with `LastAssignmentWins`), `FocusBecomesQuiet` | it wins; never the dead; the exchange ends |
| `main_loop` | does it sleep over work, lose or reorder events? | `NoSleepOverWork`, `LeftoverWorkWakesUp`, `MotionInOrder`, `EventsAreHandled` | no |
| `selection` | do the two sides implement a stream? | `SelectionInv`, `TransfersEnd`, `ImplementsStream` | yes, one transfer per window |
| `selection_two` | also for two transfers to one window? | `TransfersEnd` | no: the second never ends |
| `geometry` | do the four rectangles of a client agree again after any sequence of changes? | `ContentFits`, `AppIsInformed`, `PlacesAreKept` | yes |
| `lifecycle` | do awesome's clients, the server's windows and the applications' wishes agree in the end, through crossing events, restarts and crashes? | `ClientsLiveOn` | yes, but for windows whose change nobody heard |
| | do others read in EWMH properties what is the case? | `EwmhInv` | yes, but for what is never asked for |

`PlacesAreKept` is `AnchorKept` and `HintsObeyed`, `ClientsLiveOn` is `LifecycleInv` and
`OrderRestored`: each an invariant of the state that a step leads to, and what the step itself must not do.

The three runs that are expected to be violated check one property each, which is about a promise of a comment or of the documentation; `PROJECT.json` lists them as
findings.

### Known limits of the code

What the runs assume is not decoration: each assumption below stands for something
that the code does not do, met while modelling it.

* *Inactive tags* (`InactiveTagsInUse`). `client_unmanage` untags from
  `globalconf.tags` only, so that a deactivated tag keeps dead clients, and
  activating a tag that is selected does not ask for a banning (`banning_late_tag`).
* *Minimized focus*. `client_focus_refresh` unbans the focused client if one of its
  tags is selected, minimized or hidden or not; until the refresh, a minimized client
  may be the focused one.
* *Fullscreen layer*. Only a focused fullscreen client is in the fullscreen layer
  (`client_layer_translator`), but a change of the focus asks for no
  restacking; neither does `WM_TRANSIENT_FOR`. `unasked` in `Stacking` records this.
* *A window above itself*. A transient in its parent's layer is visited twice in a row;
  the second request names the window as its own sibling, and the server refuses it.
* *Setters in handlers*. A signal handler that sets a layer which the setter around it
  has cleared already leaves the client with two, against the comment at client.c:2738 (`crossed` in
  `Layers`): `client_set_above` clears fullscreen, a handler of "property::fullscreen" sets it again,
  and `above` is set all the same.
* *Undercut minimum*. `client_apply_size_hints` raises a size to the minimum first and then steps down to
  a whole number of increments above the base (client.c:2459-2480): if the minimum is none, the
  result is smaller than it, by less than an increment (`Respected` in `Geometry`).
* *Refused focus*. A focus request that the server refuses (a window that is not
  viewable any more) leaves `client.focus` as it is.
* *Stale FocusIn*. `event_handle_focusin` believes every event. If Lua sets `client.focus` to
  nil and the server executes that while the event of the previous change is unread, the
  handler makes the old client the focused one, and nothing corrects it
  (`disturbed` in `Focus`; its properties except it). The same happens when Lua moves the focus to a client
  that takes no input, as no event reports the focus of its nofocus window: the server's focus
  is right then, `client.focus` need not be, and `LastAssignmentWins` promises no more.
* *Unheard windows*. Four things happen without awesome hearing of them, and `Lifecycle` keeps
  the windows in `excepted`: a window that vanishes between the grab of
  `client_manage` and the selection of its events (it remains a client for ever); one that is
  mapped again before `client_unmanage` has come to its end, against the ICCCM; one that is
  mapped or withdrawn while no instance is running or is read by none (it is mapped by the save-set,
  or not managed because its WM_STATE still says withdrawn); and one that goes to another
  application while its MapRequest is unread (awesome takes it over).
  `c:unmanage()` from Lua leaves a mapped window alone by design.
* *Late deferral*. Work that a stage of the refresh defers for an earlier stage waits
  for the next iteration; `LeftoverWorkWakesUp` shows that an event will start it.
* *Pasting from itself*. With awesome as owner and asker at once, the size estimate
  of an incremental transfer is taken as data: the property handler calls the
  sending side's and the getter's handler in turn.
* *Wrapping brackets*. A bracket that straddles the wrap of 32 bit sequence numbers has
  its begin above its end, and `should_ignore` then ignores nothing.
* *Border without a move*. A border that changes alone is not told to the
  application, although the comment in `border_width_callback` promises to, unless
  the gravity moves the frame along. `AppKnowsItsPlace`
  speaks of the times when the border is the one that the last notification counted.
* *Creeping windows*. A request for a size that the hints forbid is granted at the nearest
  one, but its position is translated for the size asked: a client that is not
  anchored at its left moves with every such request.
* *Two acquisitions*. A handler of "release" that acquires the selection, while an acquisition
  outside of it has its registration still to come, is forgotten; and a new object whose
  window has lost the selection again before the reply dies without releasing the older
  one, which is registered or about to be (`confused` in `SelectionOwner`).
* *Stranded clients*. Lua code can use a screen that is being removed until the handlers of "list" are
  done (screen.c:1752-1754); a client that one of them, or one of "property::screen", puts on it after its clients have
  been moved stays there (`stranded`).
* *Stale viewports*. `viewport_add` adds outputs to a viewport at their place and takes
  none away; after mirrored outputs are separated the primary screen may be the wrong one
  (`PrimaryFollowsServer`).
* *Forgotten work areas*. Changing the screen of a client, removing its strut by deleting
  the property, and activating or deactivating a tag are not followed by
  `screen_update_workarea` (`overlooked`).
* *Moved titlebars*. A titlebar whose area on the root window is the same as before is not
  drawn again, even if the frame has moved under it; it shows what it was drawn as at its old
  place in the frame (`moved`).
* *Kept wallpapers*. `xcb_kill_client` for a pixmap whose connection is still open
  closes that connection, which is in the mode RetainPermanent, and the pixmap stays: this happens when a
  handler of "wallpaper_changed" sets another wallpaper (`survivors`).
* *Racing takeovers*. `acquire_WM_Sn` does not look whether it has become the owner, and waits
  for the owner it has seen only: of two instances that replace a third at once, one may
  manage windows without the selection and the other be refused (`raced`).
* *Frozen pointers*. A press over the tray inside a drawin with bound buttons has a child
  window, and `event_handle_button` then does not allow the pointer to go on; nor does it
  while a mousegrabber runs whose grab was refused (`trayPressed`, `refused` in `Pointer`).
* *Nested keyboard changes*. `xkb_refresh` clears its flags after the signals: what a nested
  main loop hears of inside of a handler is forgotten (`nested`).
* *Changed key objects*. `luaA_key_set_key` and `luaA_key_set_modifiers` change a key object and
  grab nothing: while it is bound, the windows keep the grabs of the old key until their list of
  keys is set or the layout is read again (`unregrabbed`).
* *Hidden icons*. `systray_update` counts hidden icons for the end of a column, so that with
  several rows icons may lie outside of the tray (`CellsFit`); `_XEMBED_INFO` is read before
  changes to it are selected, so that a change in between is missed (`missed`).
* *Untold desktops*. Activating, deactivating or reordering tags changes `_NET_WM_DESKTOP` and
  `_NET_CURRENT_DESKTOP` without writing them (`untold`).
* *Two atoms*. `_NET_WM_STATE` messages with two atoms are handled one after the other, each with
  its signals; adding both of two special layers leaves the second.
* *Modelines without a value at the end*. See `options_separated`.
* *Descriptors in D-Bus messages*. An array of file descriptors counts as an argument, but no case pushes
  a value for it (dbus.c:139-186, 223): what is below on Lua's stack moves into its place, and the stack
  loses a value that was there before (`shifted`). The model has one such value, and
  messages with one such array; with more, or with an empty stack, the indices are out of range.
* *Keys of D-Bus dictionaries*. An object path or a signature becomes nil, also as the key of a dictionary:
  `lua_rawset` (dbus.c:203) then raises an error that nothing catches, and `luaA_panic` restarts awesome, whether
  a handler for the message is connected or not. `HandlersGetTheArguments` says that nothing else does.
* *Refused keyboards*. `keygrabber_grab` takes any reply of the server for a success, also
  AlreadyGrabbed (keygrabber.c:45): a keygrabber that is started while another program has the
  keyboard runs without a key reaching it (`denied` in `Keygrabber`).
* *Indexed colours*. In a visual with a colormap `color_init_reply` leaves a `color_t` alone that is
  initialized already (color.c:180): a border keeps its first colour there. `ColorsInv` claims
  `BorderIsAsked` for visuals with masks only.
* *Persistent properties*. A persistent string that is not there becomes the empty string at the first
  get (window.c:412, client.lua:1435), and a nil that is set before the first get deletes nothing
  (client.lua:1458). `PersistentIsKept` excepts both.
* *Icons that stay*. An application that has ever had a list of images keeps the last of them after it
  deletes the list: an empty list is not stored, and `have_ewmh_icon` keeps pixmaps out.

### Bounds, and why they are enough

* `ClientList`: three windows. A loop needs two, a chain that a third closes
  needs three, and the walk's bound (the stack's length) is met exactly.
* `Stacking`: three clients, two of which may be dialogs (families of three
  generations, and siblings), one of these that may be fullscreen or ontop (so that it
  is visited with its parent and on its own), one client that may be a desktop window,
  and a drawin with ontop on and off. Every relation that is checked is between two
  windows, with one more in between.
* `Banning`: two clients and two tags; the properties relate one client to the
  focused one and one tag to another.
* `Layers`: three nested setters; every setter clears three flags.
* `Focus`: three clients (one that takes input and nothing else, one that takes no input and the focus by
  `WM_TAKE_FOCUS`, one that takes no input and focuses itself; two may die), `MaxChanges` 3 assignments (one that is late, one that is pending,
  one that is newer) and a clock of up to 1. The queues are unbounded, but what
  they hold is caused by the assignments, the deaths and the clock.
* `MainLoop`: three events, which suffices for motion, button, motion or one
  event in each of socket, queue and `pending_event`.
* `Selection`: `MaxPiece` 2 and `MaxData` 4, so that contents fit, fit exactly or
  need two pieces and a rest; two windows at the same time.
* `EnterLeave`: a modulus of 10 and 22 requests, so that the numbers wrap around
  twice; `MaxBehind` 4 keeps the distance of live numbers below half of
  the modulus, as 2^31 requests without an event do not happen.
* `Geometry`: all sizes are even, as an odd one makes a centred window creep by a
  pixel; two widths, borders and titlebars each, one gravity of every kind, no hints,
  fixed and stepped sizes, ones that step below their minimum or maximum or have them crossed, and `MaxPending` 2 changes between two refreshes. A third would
  repeat one of the two, since every change depends only on the current geometry.
* `SelectionOwner`: two objects and a watcher, four changes by others: one object that
  replaces the other, and applications that take the selection before, between and after; an
  object is released up to `MaxReleases` 2 times, by a handler of the release outside of it.
* `Screens`: one or two outputs in every relation of place and size; four screens and four
  changes, so that a screen goes, comes back and goes while "removed" is handled; one client, as
  clients do not touch each other (the theorem is about any number).
* `Workarea`: one client and one drawin on two screens, four calls nested twice: the area of a
  screen depends on the sum of the struts on it, and a handler's call may undo the outer one.
* `Drawing`: three pixels at two places, titlebars of up to two pixels (so that two fill or overfill
  a window), five calls of Lua code and any Expose events.
* `Wallpaper`: six pixmaps, three nested settings and four steps of other programs.
* `Takeover`: three processes, the smallest number for which one replaces another that has
  not yet replaced the first; four starts.
* `Pointer`: one drawin, one client with a titlebar, five steps of the user: a press, a move
  and a release with something that vanishes in between.
* `Keyboard`: two keycodes and keysyms that the layout exchanges or gives the same meaning, two
  clients, two sets of modifiers, two key objects made of a keycode or a keysym, four changes.
* `Tray`: two icons in two rows, two drawins; three steps of applications, and Lua code that acts
  when the server has executed all requests: an icon docked by several requests while it or the other one changes.
* `Ewmh`: two clients, two tags, `sticky` (set like most states, and the one that changes the desktop)
  and `maximized_horizontal` (left to Lua's handlers, and combined with its vertical half); four
  calls, nested twice; a new client asks for at most one state.
* `Spawn`: two pids for two children, a pipe that one byte fills, two launches, two messages
  at a time.
* `Objects`: two objects and functions, three signals of which one announces connections to
  another; five calls, emissions nested twice.
* `Dbus`: values of every kind nested twice, up to two arguments; a dictionary with a key that is not
  converted, or one array of descriptors, at every place that counts its values; results with up to two
  values of every type, well typed or not, tables that end before a value or have a wrong one, and
  no tables. Strings have at most one character: a longer one, or an object, that a handler returns
  for an array is read like a table by `lua_rawgeti`, which is undefined (dbus.c:291).
* `Options`: all lines of up to three characters after the marker, longer documented ones, other
  lines before and after, an empty file; buffers of 16 and 5, so that lines and keys meet their ends.
* `Icons`: ten lists (none, one or two images, cut off in a header or in an image, with an empty
  image), pixmaps that are there or not, three changes, which is one more than it takes to change a
  property again before its event is handled; preferred sizes around those of the images.
* `Colors`: five visuals (fields of 5, 6, 8 and 10 bits, alpha, a colormap of two cells for
  three colours), eight strings of every accepted and refused shape, four changes.
* `Xproperties`: a name that programs share, two persistent ones (the two that awful has, a boolean and a
  string), the root window and a client, four calls: set, withdraw, and two after its return.
* `Keygrabber`: two functions, three keys, three bindings in three orders, two keys that wait, five changes:
  a function started and replaced inside of its own call, and another program before and after.
* `Lifecycle`: three windows, which is where restoring an order by swapping can go wrong;
  five changes by applications and Lua code, so that one window can be mapped, withdrawn and mapped
  again while another changes; two instances, the first of which ends at any moment.
  The same properties hold with two windows and six changes, and with three instances.

### Fairness

* `Focus`: weak fairness of handling an event, of the refresh, of the server
  executing requests and of applications acting on `WM_TAKE_FOCUS`; nobody has to
  assign `client.focus`, press a key or focus a window.
* `MainLoop`: the process runs on (`WF_vars(Loop)`; waiting in `g_poll` is not
  enabled until something is there) and the server executes what it has. Timers
  and users owe nothing.
* `Selection`: each X client handles its events.
* The other modules state no liveness and no fairness.

## The proofs

TLAPS proves the following for every value of the constants.

* **ClientList_proofs**, of two components.
  *ClientList*: `Spec => []NoTransientLoop`, `[]TransientForIsLive`, and
  the types of the relation. The invariant is the conjunction of the types,
  distinct clients in the list, `NoTransientLoop` and `TransientForIsLive`. Loop
  freedom is the statement that every non-empty set of windows has a member whose
  parent is outside of it, so that the argument needs no counting: if the
  assignment of a parent closed a set, this set would contain the client and thus
  the new parent's ancestors, in which nothing has changed. Needs only that `None`
  is no window.
  *Ewmh*: `EwmhInv`, for any clients, tags, flags and depth of nested handlers. In the middle of calls
  a property is right, or untold, or a function that runs has yet to do what writes it (`RootTold`,
  `StateTold`; the desktop of a client is written at once, `DesktopTold`). That the current desktop stays
  as it is while a client loses its tags needs that a client which is leaving is not
  focused (`FocusInv`).
* **Banning_proofs**, of two components.
  *Banning*: `BanningFollowsVisibility`, `FocusReachesTheServer` and
  `TagsHoldManagedClients`, each under the assumption `~InactiveTagsInUse`, without
  which the runs above refute the first and the third; the types and
  `HidingUnfocuses` (a focused client that becomes invisible loses the focus in
  the same step) without it. The strengthening is `InactiveTagsUnused` (an inactive
  tag is neither selected nor in use) and `FocusSettled`, which holds in the middle of
  pending work too.
  *Screens*: `ScreensInv`, for any sequences of monitors and any handlers of a screen that is removed. What is not in the list
  is leaving it and still valid (`Going`), may still be primary (`Due`) or have a client that is to be looked at (`Coming`),
  or it is dead, not the primary screen and without clients but `stranded` ones (`DeadInv`). With RandR, and without
  news of another change, every monitor found has a screen and every screen a monitor (`Present`, `Owned`), no
  two have the same xid, and they are in their places once the refresh is over (`Placed`); in the middle of a refresh this
  is about the monitors that it has found, since the list is changed before the handlers run and the places after them
  (`FollowInv`). Only the refresh itself and events of outputs settle the primary screen, hence `PrimaryInv`. Which
  elements a filtered sequence keeps is shown from the least length for which it would not keep them
  (`KeptElements`), and that some monitor at every place is not hidden from the largest one there (`SomeIsNotHidden`).
* **MainLoop_proofs**, of two components.
  *MainLoop*: the types (with the assertion of `a_glib_poll` that no event
  is pending), `NoSleepOverWork`, `LeftoverWorkWakesUp` and `MotionInOrder`. The invariant says for
  each place of the loop what must be empty (`PcInv`) and that deferred work is
  either still to come in this refresh or accompanied by something on its way
  between here and the server (`LeftoverInv`). For the order of motion events, what has been
  handled, `pending_event`, libxcb's queue and the socket are one line of increasing numbers
  (`InLine`), and the motion event that is kept is the last one before what comes next (`MotionInv`).
  *Objects*: `ObjectsInv`, for any objects, functions and signals and any depth of emissions. A count in the table of
  an object or in the registry is at least the number of places where C has the pointer it stands for
  (`CountsInv`; a disconnection takes one place out of a list and moves the others up), and the tables of
  what is alive lead only to what is alive (`LivingInv`), so that what lives is a closed set and the
  collector, which keeps the smallest one, marks nothing else.
* **Geometry_proofs**: `ContentFits` and the two parts of `AppIsInformed`, `RequestsAnswered` and `AppKnowsItsPlace`, with the
  types, for all sizes, hints and sequences of requests. The invariant adds three things
  to the goals: an application that waits for an answer has `got_configure_request` set
  (`AskedIsRecorded`); the server has what awesome remembers of its last requests, and
  the application was told what follows from them (`SentInv`); an unmanaged client
  has nothing left over (`WithdrawnIsClean`). `ContentFits` rests
  on `Resize` alone, which refuses what leaves no room for the titlebars, and on
  `TitlebarResize`, which grows the frame with them.
* **Selection_proofs**, of two components.
  *Selection*: `SelectionInv` and the refinement `ImplementsStream`, for any number of transfers, of any
  amount of data. Every transfer is in one of ten stages (`Protocol`), each of which
  says what the property holds, what either side believes, and the one event about it that
  somebody has yet to handle; late events that nobody waits for may be in the queues besides.
  `MasksInv` says what awesome listens to. A step maps to the step of `Stream` that its stage
  allows, or to a stutter. The theorems assume `OneSideOnly`, that awesome does not paste from itself, for
  the reason given under the known limits.
  *SelectionOwner*: `OwnershipInv`, for any objects and watchers. Awesome sends nothing while
  it waits for a reply (`AskingInv`); who lives is registered or about to be, and owns the selection
  or will hear that it does not, unless one of the two known races has happened (`HeldInv`); and the
  last event on its way to a watcher tells what is the case (`WatchInv`).
* **Windows_proofs**, of five components.
  *Layers*: `OneLayerUnlessCrossed`, for any handlers and at any depth of nested calls. The
  invariant speaks of the call stack (`ClearingInv`): as long as no handler has crossed a setter around
  it, what is set while a setter clears is what it has yet to clear, or what
  it has just called the setter of. `LayerChangesRestack`, for any handlers: a change is followed by
  `stack_windows`, at the latest when the setter of `fullscreen` that runs its signals returns (`RestackInv`).
  *Takeover*: `TakeoverInv`, for any number of processes. Without a race those that have been the owner
  form a line in the order of their timestamps, each waiting for the one before it; the
  first may have the redirect and the last owns the selection (`LineInv`). A restarted process keeps
  its name and not its window, hence `InstancesInv` and `SeenInv`.
  *Wallpaper*: `WallpaperInv`. A connection that is open is that of a running call, and a pixmap that its
  connection will keep is the one that `ESETROOT_PMAP_ID` names, if it was not killed
  (`ConnectionsInv`); `TopInv` says what the innermost call is about to do.
  *Workarea*: `WorkareaInv`, for any screens, struts and depth of handlers. The area of a screen is
  right, or overlooked, or some running function has an update of it still to come (`IsFollowed`), where
  the update that a moved drawin or client owes is decided only when its signals have returned.
  *Drawing*: `DrawingInv`, for any widths. Whether or not its place is about to change, each visible
  pixel of a window shows the pixmap, or an Expose event for it is on its way (`DrawinDrawn`, `FrameDrawn`);
  titlebars do not overlap, a pixmap that has not been drawn into is never copied (`PixmapInv`).
* **Input_proofs**, of five components.
  *Keygrabber*: `KeygrabberInv`, for any functions, bindings, keys and other programs. The invariant
  adds types, and that the function kept with an event is one (`CalledInv`): it may
  be another than the one that runs by the time it fails, and its failure stops whichever runs. The bindings that match
  are a recursive function of the number of bindings walked through; that it exists, and has sequences of bindings
  as values, is shown from the least number for which it would not (`PushedExists`, `PushedTyped`).
  *EnterLeave*: `EnterLeaveInv`, for any modulus. It is an invariant about true numbers: the ranges kept are in
  order and apart (`RangesInOrder`), events come in order (`EventsInOrder`), all live numbers lie within half
  of the modulus (`NumbersInv`); comparisons modulo the modulus are then those of the numbers, which is the lemma
  the other steps rest on.
  *Keyboard*: `KeyboardInv`, for any layouts and bindings. The grabs are always those of the layout that awesome knows,
  except where a key object was changed since they were made (`GrabsInv`), and what it knows is right, or will be after the events and the refresh to come
  (`LayoutInv`, `GroupInv`), as long as no nested loop has heard of a change inside of a refresh.
  *Pointer*: `PointerInv`, for any number of events. `Ends(q, s, F)` says that however the events of `q`
  are handled, what awesome knows is in `F` in the end; the invariant is that the events that are waiting end at the
  drawable that the pointer is over now, or at any, if it has moved unheard (`TellingInv`). An event at the
  end or one less at the front keeps that (`EndsAppend`, `EndsTail`), and each kind of move is told so that it does
  (`MoveIsKnown`). While the pointer is frozen the press that froze it is waiting, of a window that is still
  managed when it is handled, or of a drawin (`ThawInv`, `EndIsTold`).
  *Tray*: `TrayInv`, for any icons, drawins and numbers of rows. What holds when nothing is pending follows from what
  the two queues hold meanwhile (`TrayIndInv`), stated with a few words about sequences (`Follows`, `LastIs`, `Precedes`) whose lemmas
  about one element more at the end or less at the front carry the steps. An icon in the list is in
  the tray, or about to be embedded, or has left it, with the event that tells so still to come (`PlaceOf`, `GoneOf`); the last
  news of an icon decides whether it is wanted, and without news the property that was read does, or will (`WantedOf`),
  for which awesome must hear of changes from the time it embeds an icon (`SelectedOf`); the last layout among the requests
  is that of the list, or was executed last (`TrayLayoutInv`); and no drawin is destroyed with the tray in it (`DrawinInv`).
  That a layout gives each icon a cell of its own inside of the tray is shown from the order of the cells (`LayoutFits`).
* **Services_proofs**, of three components.
  *Spawn*: `SpawnInv`. A child that has its pid is waited for, with a signal, a byte or a running `reap_children`
  behind every zombie (`ChildrenInv`); libsn, the list and the timeout hold one reference each
  to a sequence (`StartupInv`), so that its memory is counted by exactly what points to it.
  *Xproperties*: `XpropertiesInv`. Who listens knows the value or has an event coming (`IsFollowedBy`); the window has what
  the object of awful has, as it is written in a property of that type (`IsKept`), and may have more
  than it as long as nobody has read it, as after a restart (`OwnInv`).
  *Focus*: `FocusInv`, for any clients and any length of both queues. The queues hold the last word of each side:
  the last report on its way names the window that has the focus (`ReportsInv`); without one,
  awesome believes what is the case, or has asked for what it believes, or is about to hear that it
  believed in a dead client (`BelievedInv`); and while only Lua moves the focus, the last request, or
  else the server's state, is the window of the client assigned last (`UndisturbedInv`). That no request is refused
  there needs the order of all times under way (`TimesInv`), and that a death is never overlooked what is still
  to be told and destroyed (`DeathsInv`, `FramesInv`). An assignment of a client that takes no input was
  the counterexample that the attempt to prove an earlier, stronger `LastAssignmentWins` led to.

The assumptions on constants are those that modules name with ASSUME: numbers are numbers,
names of different things differ, sets of things that the code walks through are finite, values
of an X property are distinguishable from none. TLC evaluates each of them in some run.

Only model-checked, and why:

* liveness (`EventsAreHandled`, `TransfersEnd`, `FocusBecomesQuiet`), since `ENABLED` and fairness are beyond
  the proof system;
* `StackingInv`, which is about a fold (the requests of a refresh): a fold is defined by recursion over data, and the
  library's induction theorems cannot be instantiated by the provers installed; the same holds for `SelectSeq`, on which
  `ListsFollowTheRelation` depends. (A recursive function over the length of a sequence can be reasoned
  about by its least counterexample, as for the bindings of `Keygrabber`, the filtered lists of `Screens` and the cells of `Tray`,
  which are written in that form for this reason.)
* `DbusInv`, whose operators are recursive, and `OptionsInv` and `AppearanceInv`, which compare two ways
  to read a text or a list of words;
* `PlacesAreKept`, whose arithmetic of gravities and steps is nonlinear;
* `ClientsLiveOn`, a property of steps whose invariant has to describe every queue between the server, the
  applications and two instances of awesome; it is left for later.

## Not modelled

Wording and layout of properties, logging, shapes, cursors, fake input, the pixels of images and
text encodings are left out; so are the Lua
libraries, which appear as nondeterministic calls (but for `awful.client.property`), and the replacements of Lua's io library
and of lgi's C API for Luau. `client_manage` and `client_unmanage` are single steps but for `Lifecycle` (their
requests) and `Ewmh` (their signals); handlers that unmanage other clients in the middle
are left out. In `Lifecycle`, `scan` reads all windows' attributes at once (the code sends
all requests before it reads the first reply), and the visibility that a MapRequest for a
minimized client depends on is a choice. `Focus` leaves visibility to `Banning`, and `Banning` has a
server that executes at once, as have `Drawing`, `Pointer` and `Wallpaper`, where awesome
waits for no answer or for each. `Screens` reduces Xinerama and Zaphod to a server without RandR, and collapses the signals that add a
screen, change its place or announce a refreshed list: their handlers act after the operation.
`Keygrabber` has the bindings of the root window; those of a client are called the same way with
one more argument. `Colors` leaves out the numbers with signs and prefixes that `strtoul` takes for
digits, and servers that give a nearby colour for the one asked. In `Xproperties` drawins are left out,
which are told like clients. Broken connections and allocation failures end the process and are not modelled.

## Plan

1. Prove: `StackingInv` with its fold written as a recursive function; `ClientsLiveOn`.
2. Extend: handlers that unmanage other clients inside `client_manage` and `client_unmanage`;
   focus history, layouts and timers from `lib/`.

-------------------------------- MODULE Keyboard -------------------------------
(***************************************************************************)
(* The keyboard's layout and the key bindings: xkb.c, the grabs of         *)
(* xwindow.c, objects/key.c and the key bindings of root.c and client.c.   *)
(*                                                                         *)
(* The server grabs keycodes; a binding names a keysym.  When the layout   *)
(* changes, awesome hears of it later, notes what is to be done and, when  *)
(* it has nothing else to do, reads the layout, grabs all keys again and   *)
(* tells Lua code.  Meanwhile Lua code changes bindings and clients come   *)
(* and go.  Lua code may also run a nested event loop: the deprecated      *)
(* selection() handles events while it waits.                              *)
(* Bindings are key objects, which several lists may hold.  Lua code can   *)
(* change an object that is bound; nothing grabs the new key then.         *)
(* A server with XKB is assumed.  Awesome's requests are executed at once: *)
(* what it reads is read in a round trip, and a later change is heard of.  *)
(***************************************************************************)
EXTENDS Naturals, Sequences

CONSTANTS Code, Sym,        \* keycodes and keysyms
          Modifiers,        \* sets of modifier keys
          KeyObject,        \* key objects
          Keymaps,          \* the layouts: functions from keycodes to keysyms
          Group,            \* the layout groups
          KeyClient,        \* clients
          MaxKeyCalls,      \* bound: what the user and Lua code ever do
          NoKey

ASSUME KeymapsAssumption == Keymaps \subseteq [Code -> Sym] /\ NoKey \notin Code \cup Sym

VARIABLES keymap, group,    \* the server's
          grabs,            \* the keycodes, with modifiers, that are grabbed on a window
          keyEvents,
          keysyms, xkbGroup, \* globalconf.keysyms and the group of globalconf.xkb_state
          todo,             \* xkb_reload_keymap, xkb_map_changed and xkb_group_changed
          updatePending,    \* xkb_update_pending: the idle source is installed
          keyb,             \* what a key object binds
          keys,             \* the key objects of the root window and of clients
          managedClients, nofocus, \* the clients; those which have a nofocus window
          depth,            \* what runs: the loop, "signals" of xkb_refresh, or selection()
          toldMap, toldGroup, \* the layout and group when Lua code was last told of changes
          nested,           \* history: XKB events were handled while signals of xkb_refresh ran
          unregrabbed,      \* history: windows with a key that was changed since they were grabbed
          keyCalls

keyServerVars == <<keymap, group, grabs>>
layoutVars == <<keysyms, xkbGroup, todo, updatePending>>
clientVars == <<managedClients, nofocus>>
bindingVars == <<keyb, keys, clientVars, unregrabbed>>
toldVars == <<toldMap, toldGroup, nested>>
keyboardVars == <<keyServerVars, keyEvents, layoutVars, bindingVars, depth, toldVars, keyCalls>>

\* luaA_keystore has understood a keycode, a keysym or nothing at all.
Key == {[code |-> k, sym |-> NoKey] : k \in Code} \cup {[code |-> NoKey, sym |-> s] : s \in Sym}
       \cup {[code |-> NoKey, sym |-> NoKey]}

\* What a key object binds.
Binding == [mods : Modifiers, key : Key]
KeyGrab == Modifiers \X Code

\* The windows with grabs: the root window, clients' and their nofocus windows.
KeyWindow == {<<"root", NoKey>>} \cup {"window", "nofocus"} \X KeyClient
Root == <<"root", NoKey>>
KeyList == {Root} \cup {"client"} \X KeyClient

KeyboardTypeOK ==
    /\ keymap \in Keymaps /\ keysyms \in Keymaps /\ group \in Group /\ xkbGroup \in Group
    /\ grabs \in [KeyWindow -> SUBSET KeyGrab]
    /\ todo \subseteq {"reload", "map", "group"} /\ updatePending \in BOOLEAN
    /\ keyb \in [KeyObject -> Binding] /\ keys \in [KeyList -> SUBSET KeyObject]
    /\ managedClients \subseteq KeyClient /\ nofocus \subseteq managedClients
    /\ depth \in {"loop", "signals"} /\ nested \in BOOLEAN /\ unregrabbed \subseteq KeyWindow

\* xkb_init.
KeyboardInit ==
    /\ keymap \in Keymaps /\ group \in Group
    /\ keysyms = keymap /\ xkbGroup = group /\ toldMap = keymap /\ toldGroup = group
    /\ grabs = [w \in KeyWindow |-> {}]
    /\ keyEvents = <<>> /\ todo = {} /\ updatePending = FALSE
    /\ keyb \in [KeyObject -> Binding] /\ keys = [l \in KeyList |-> {}] /\ unregrabbed = {}
    /\ managedClients = {} /\ nofocus = {}
    /\ depth = "loop" /\ nested = FALSE /\ keyCalls = 0

KeyCall == keyCalls < MaxKeyCalls /\ keyCalls' = keyCalls + 1

-----------------------------------------------------------------------------
(* The server.                                                             *)

\* The layout of the keyboard changes, or another keyboard is used.
ChangeKeymap ==
    /\ KeyCall
    /\ keymap' \in Keymaps \ {keymap}
    /\ \E kind \in {"map", "new keyboard"} : keyEvents' = Append(keyEvents, [kind |-> kind, group |-> group])
    /\ UNCHANGED <<group, grabs, layoutVars, bindingVars, depth, toldVars>>

\* The user, an application or luaA_xkb_set_layout_group changes the group.
ChangeGroup ==
    /\ KeyCall
    /\ group' \in Group \ {group}
    /\ keyEvents' = Append(keyEvents, [kind |-> "state", group |-> group'])
    /\ UNCHANGED <<keymap, grabs, layoutVars, bindingVars, depth, toldVars>>

-----------------------------------------------------------------------------
(* Key bindings.                                                           *)

\* xwindow_grabkey: the keycodes of a binding; a keysym's are looked up.
KeyCodes(key, table) == IF key.code # NoKey THEN {key.code} ELSE {k \in Code : table[k] = key.sym}

\* xwindow_grabkeys, after all keys were ungrabbed.
Grabs(objects, table) == UNION {{keyb[o].mods} \X KeyCodes(keyb[o].key, table) : o \in objects}

\* The windows that have a binding list's keys grabbed.
WindowsOf(list, withNofocus) ==
    IF list = Root THEN {Root}
    ELSE {<<"window", list[2]>>} \cup (IF list[2] \in withNofocus THEN {<<"nofocus", list[2]>>} ELSE {})

AllWindowsOf(lists) == UNION {WindowsOf(l, nofocus) : l \in lists}

Regrab(lists, table) ==
    [w \in KeyWindow |-> IF w \in AllWindowsOf(lists)
                         THEN Grabs(keys[CHOOSE l \in lists : w \in WindowsOf(l, nofocus)], table)
                         ELSE grabs[w]]

\* luaA_root_keys and luaA_client_keys with an argument.
SetKeys(l) ==
    /\ KeyCall /\ (l = Root \/ l[2] \in managedClients)
    /\ \E objects \in SUBSET KeyObject : keys' = [keys EXCEPT ![l] = objects]
    /\ grabs' = [w \in KeyWindow |-> IF w \in WindowsOf(l, nofocus) THEN Grabs(keys'[l], keysyms) ELSE grabs[w]]
    /\ unregrabbed' = unregrabbed \ WindowsOf(l, nofocus)
    /\ UNCHANGED <<keymap, group, keyEvents, layoutVars, keyb, clientVars, depth, toldVars>>

BindingLists == {Root} \cup {<<"client", c>> : c \in managedClients}

\* The setters of a key object, which may be bound or not; grabs stay as they are.
SetKeyObject(o, b) ==
    /\ KeyCall /\ b # keyb[o]
    /\ keyb' = [keyb EXCEPT ![o] = b]
    /\ unregrabbed' = unregrabbed \cup AllWindowsOf({l \in BindingLists : o \in keys[l]})
    /\ UNCHANGED <<keyServerVars, keyEvents, layoutVars, keys, clientVars, depth, toldVars>>

\* luaA_key_set_key.
SetKey(o) == \E key \in Key : SetKeyObject(o, [keyb[o] EXCEPT !.key = key])

\* luaA_key_set_modifiers.
SetModifiers(o) == \E mods \in Modifiers : SetKeyObject(o, [keyb[o] EXCEPT !.mods = mods])

\* client_manage.
ManageClient(c) ==
    /\ KeyCall /\ depth = "loop" /\ c \notin managedClients
    /\ managedClients' = managedClients \cup {c}
    /\ UNCHANGED <<keyServerVars, keyEvents, layoutVars, keyb, keys, nofocus, unregrabbed, depth, toldVars>>

\* client_unmanage of a window that still exists; the nofocus window is destroyed.
UnmanageClient(c) ==
    /\ KeyCall /\ depth = "loop" /\ c \in managedClients
    /\ managedClients' = managedClients \ {c} /\ nofocus' = nofocus \ {c}
    /\ keys' = [keys EXCEPT ![<<"client", c>>] = {}]
    /\ grabs' = [grabs EXCEPT ![<<"window", c>>] = {}, ![<<"nofocus", c>>] = {}]
    /\ unregrabbed' = unregrabbed \ WindowsOf(<<"client", c>>, {c})
    /\ UNCHANGED <<keymap, group, keyEvents, layoutVars, keyb, depth, toldVars>>

\* client_get_nofocus_window: it is made, with the client's keys, when it is needed first.
MakeNofocusWindow(c) ==
    /\ KeyCall /\ c \in managedClients \ nofocus
    /\ nofocus' = nofocus \cup {c}
    /\ grabs' = [grabs EXCEPT ![<<"nofocus", c>>] = Grabs(keys[<<"client", c>>], keysyms)]
    /\ UNCHANGED <<keymap, group, keyEvents, layoutVars, keyb, keys, managedClients, unregrabbed, depth, toldVars>>

-----------------------------------------------------------------------------
(* XKB events and the idle source.                                         *)

Noted(e) == CASE e.kind = "map" -> {"reload", "map"}
              [] e.kind = "new keyboard" -> {"reload"}
              [] OTHER -> {"group"}

\* Of a new keyboard, which changes the keycodes too.
NewKeycodes(e) == IF e.kind = "new keyboard" THEN {"map"} ELSE {}

\* event_handle_xkb_notify and xkb_schedule_refresh.  In the loop or, while a signal's
\* handler is in selection(), in the loop inside it.
HandleXkbEvent ==
    /\ keyEvents # <<>>
    /\ LET e == Head(keyEvents)
       IN  /\ todo' = todo \cup Noted(e) \cup NewKeycodes(e)
           /\ xkbGroup' = IF e.kind = "state" THEN e.group ELSE xkbGroup
    /\ updatePending' = TRUE
    /\ keyEvents' = Tail(keyEvents)
    /\ nested' = (nested \/ depth = "signals")
    /\ UNCHANGED <<keyServerVars, keysyms, bindingVars, depth, toldMap, toldGroup, keyCalls>>

\* The clients' keys are forgotten.
RootOnly == {Root}

\* xkb_reload_keymap: the windows to grab keys on again.
Reloaded == BindingLists

\* xkb_refresh, up to its signals.
XkbRefreshBegin ==
    /\ updatePending /\ depth = "loop"
    /\ updatePending' = FALSE
    /\ IF "reload" \in todo
       THEN /\ keysyms' = keymap /\ xkbGroup' = group /\ grabs' = Regrab(Reloaded, keymap)
            /\ unregrabbed' = unregrabbed \ AllWindowsOf(Reloaded)
       ELSE UNCHANGED <<keysyms, xkbGroup, grabs, unregrabbed>>
    /\ toldMap' = IF "map" \in todo THEN keysyms' ELSE toldMap
    /\ toldGroup' = IF "group" \in todo THEN group ELSE toldGroup
    /\ depth' = "signals"
    /\ UNCHANGED <<keymap, group, keyEvents, todo, keyb, keys, clientVars, nested, keyCalls>>

XkbRefreshEnd ==
    /\ depth = "signals"
    /\ todo' = {}
    /\ depth' = "loop"
    /\ UNCHANGED <<keyServerVars, keyEvents, keysyms, xkbGroup, updatePending, bindingVars, toldVars, keyCalls>>

KeyboardNext ==
    \/ ChangeKeymap \/ ChangeGroup
    \/ \E l \in KeyList : SetKeys(l)
    \/ \E o \in KeyObject : SetKey(o) \/ SetModifiers(o)
    \/ \E c \in KeyClient : ManageClient(c) \/ UnmanageClient(c) \/ MakeNofocusWindow(c)
    \/ HandleXkbEvent \/ XkbRefreshBegin \/ XkbRefreshEnd

KeyboardSpec == KeyboardInit /\ [][KeyboardNext]_keyboardVars

-----------------------------------------------------------------------------
(* Properties.                                                             *)

KeyboardQuiet == keyEvents = <<>> /\ ~updatePending /\ depth = "loop"

\* When no change is pending, what is grabbed on the root window, on each client's window
\* and on its nofocus window are the keycodes which give the bound keysyms in the server's
\* layout, in whatever order layouts, bindings and clients have changed.  Changes that a
\* nested event loop has heard of are known to be forgotten, and the windows of a key object
\* that was changed have what was grabbed last, until their keys are grabbed again.
GrabsFollowKeymap ==
    (KeyboardQuiet /\ ~nested) =>
        \A l \in BindingLists : \A w \in WindowsOf(l, nofocus) \ unregrabbed :
            grabs[w] = Grabs(keys[l], keymap)

\* Then also awesome's group is the server's, and Lua code was told of the layout and the
\* group after their last changes ("xkb::map_changed", "xkb::group_changed").
LayoutIsKnown ==
    (KeyboardQuiet /\ ~nested) => xkbGroup = group /\ toldGroup = group /\ toldMap = keymap

\* Together: when no change is pending, grabs and Lua code follow the server's layout.
KeyboardInv == KeyboardTypeOK /\ GrabsFollowKeymap /\ LayoutIsKnown
=============================================================================

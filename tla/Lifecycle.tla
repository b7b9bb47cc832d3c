------------------------------ MODULE Lifecycle ------------------------------
(***************************************************************************)
(* How windows become clients and cease to be: the X server, which reports *)
(* with events what applications do, awesome, which answers with requests  *)
(* that are executed later, and applications, which follow the ICCCM.  A   *)
(* window is managed by reparenting it into a frame, under a server grab   *)
(* and with the event masks off, so that awesome does not hear of its own  *)
(* requests.                                                               *)
(*                                                                         *)
(* awesome may restart or crash at any moment.  What it had not heard yet  *)
(* is lost; its windows come back through the server's save-set, and the   *)
(* next instance scans for them and puts its clients in the old order.     *)
(***************************************************************************)
EXTENDS Naturals, SequencesExt

CONSTANTS Window,        \* the applications' windows
          MaxChanges,    \* bound: what applications and Lua code ever do
          MaxLives,      \* bound: the number of instances of awesome
          None

ASSUME LifecycleAssumption ==
    /\ None \notin Window
    /\ MaxChanges \in Nat /\ MaxLives \in Nat

VARIABLES wish,       \* what applications have done with a window: nothing yet ("new"),
                      \* "mapped", "withdrawn", "gone", or "embedded" somewhere else
          win,        \* the window on the server
          events,     \* sent to awesome and not handled
          requests,   \* sent by awesome and not executed
          phase,      \* "absent", "scan", "manage", "running" or "exiting"
          tree,       \* the windows that scan has yet to look at
          order,      \* the value of AWESOME_CLIENT_ORDER that scan has read
          savedOrder, \* this property of the root window
          clients,    \* globalconf.clients
          minimized,  \* the clients with c->minimized
          managing,   \* the window that client_manage is at
          failed,     \* its reparenting has failed
          excepted,   \* history: windows whose last change awesome cannot know of, since
                      \* it happened while nobody, or not yet awesome, was told of it
          changes, lives

appVars == <<wish, changes>>
serverVars == <<win, events, requests>>
scanVars == <<tree, order, savedOrder>>
clientVars == <<clients, minimized, managing, failed>>
vars == <<appVars, serverVars, phase, scanVars, clientVars, excepted, lives>>

\* state is WM_STATE; saved: in awesome's save-set; heard: awesome has selected
\* the window's events; redirect: its frame sends MapRequests to awesome.
WindowState == [parent : {"root", "frame", "elsewhere", "gone"},
                mapped : BOOLEAN,
                state : {"none", "normal", "iconic", "withdrawn"},
                saved : BOOLEAN, heard : BOOLEAN, redirect : BOOLEAN]

NewWindow == [parent |-> "root", mapped |-> FALSE, state |-> "none",
              saved |-> FALSE, heard |-> FALSE, redirect |-> FALSE]

\* What the requests of awesome do to a window.  "adopt" is the grabbed sequence of
\* client_manage, "hide" the one of client_set_minimized.
Effect == [adopt     |-> [parent |-> "frame", mapped |-> TRUE, saved |-> TRUE, redirect |-> TRUE],
           listen    |-> [heard |-> TRUE],
           normal    |-> [state |-> "normal"],
           iconic    |-> [state |-> "iconic"],
           hide      |-> [mapped |-> FALSE],
           show      |-> [mapped |-> TRUE],
           silence   |-> [heard |-> FALSE, redirect |-> FALSE],
           unmap     |-> [mapped |-> FALSE],
           free      |-> [parent |-> "root"],
           unsave    |-> [saved |-> FALSE],
           withdrawn |-> [state |-> "withdrawn"]]

EventTypes == {"map", "unmap", "destroy", "reparent", "embed", "iconify"}

TypeOK ==
    /\ wish \in [Window -> {"new", "withdrawn", "mapped", "gone", "embedded"}]
    /\ win \in [Window -> WindowState]
    /\ events \in Seq(EventTypes \X Window)
    /\ requests \in Seq((DOMAIN Effect) \X Window)
    /\ phase \in {"absent", "scan", "manage", "running", "exiting"}
    /\ {tree, order, savedOrder, clients} \subseteq Seq(Window)
    /\ IsInjective(clients)
    /\ minimized \subseteq Range(clients)
    /\ managing \in Range(clients) \cup {None} /\ failed \in BOOLEAN
    /\ excepted \subseteq Window
    /\ changes \in 0..MaxChanges /\ lives \in 0..MaxLives

Init == /\ wish = [w \in Window |-> "new"]
        /\ win = [w \in Window |-> NewWindow]
        /\ events = <<>> /\ requests = <<>>
        /\ phase = "running"
        /\ tree = <<>> /\ order = <<>> /\ savedOrder = <<>>
        /\ clients = <<>> /\ minimized = {} /\ managing = None /\ failed = FALSE
        /\ excepted = {}
        /\ changes = 0 /\ lives = 1

-----------------------------------------------------------------------------
(* The X server.                                                           *)

Alive(w) == win[w].parent # "gone"

\* awesome has the root window's events as long as it is connected.
RootHeard == phase # "absent"

\* Events about w, to those who have selected them on w or on the root window.
Heard(w) == win[w].heard \/ (win[w].parent = "root" /\ RootHeard)
Report(types, w) == IF Heard(w) THEN [i \in DOMAIN types |-> <<types[i], w>>] ELSE <<>>

\* A request of awesome is executed; one for a window that is gone is an error.  A
\* window is moved to the root window from wherever it is: if it was embedded with
\* a MapRequest unread, awesome takes it over.
Execute ==
    /\ requests # <<>>
    /\ LET op == Head(requests)[1]
           w  == Head(requests)[2]
       IN  /\ requests' = Tail(requests)
           /\ failed' = (failed \/ (op = "adopt" /\ ~Alive(w)))
           /\ win' = IF Alive(w) THEN [win EXCEPT ![w] = Effect[op] @@ @] ELSE win
           /\ events' = IF op = "unmap" /\ Alive(w) /\ win[w].mapped THEN events \o Report(<<"unmap">>, w)
                        ELSE IF op = "free" /\ Alive(w) THEN Append(events, <<"reparent", w>>)
                        ELSE events
           /\ excepted' = IF op = "free" /\ win[w].parent = "elsewhere" /\ <<"map", w>> \in Range(events)
                          THEN excepted \cup {w} ELSE excepted
    /\ UNCHANGED <<appVars, phase, scanVars, clients, minimized, managing, lives>>

-----------------------------------------------------------------------------
(* Applications.                                                           *)

Changing == changes < MaxChanges /\ changes' = changes + 1

\* Is a MapWindow request of an application sent to awesome instead?
Redirected(w) == \/ win[w].parent = "root" /\ RootHeard
                 \/ win[w].parent = "frame" /\ win[w].redirect

\* A window is mapped, for the first time, again, or because it is minimized.  If
\* nobody redirects the request, awesome does not see it happen: a window that was
\* withdrawn keeps that state, and no later instance will manage it; one that does
\* not wait for the end of client_unmanage, as the ICCCM demands, may be mapped in
\* its old frame.
AppMap(w) ==
    /\ Changing
    /\ \/ wish[w] = "new"
       \/ wish[w] = "withdrawn"
       \/ wish[w] = "mapped" /\ ~win[w].mapped
    /\ wish' = [wish EXCEPT ![w] = "mapped"]
    /\ LET asks == ~win[w].mapped /\ Redirected(w)
       IN  /\ events' = IF asks THEN Append(events, <<"map", w>>) ELSE events
           /\ win' = IF asks THEN win ELSE [win EXCEPT ![w].mapped = TRUE]
           /\ excepted' = IF ~asks /\ (win[w].state = "withdrawn" \/ win[w].parent = "frame")
                          THEN excepted \cup {w}
                          ELSE IF wish[w] = "mapped" THEN excepted ELSE excepted \ {w}
    /\ UNCHANGED <<requests, phase, scanVars, clientVars, lives>>

\* ICCCM 4.1.4: the window is unmapped, and a synthetic UnmapNotify sent to the root.
AppWithdraw(w) ==
    /\ Changing
    /\ wish[w] = "mapped"
    /\ wish' = [wish EXCEPT ![w] = "withdrawn"]
    /\ events' = events \o (IF win[w].mapped THEN Report(<<"unmap">>, w) ELSE <<>>)
                        \o (IF RootHeard THEN <<<<"unmap", w>>>> ELSE <<>>)
    /\ win' = [win EXCEPT ![w].mapped = FALSE]
    /\ excepted' = excepted \ {w}
    /\ UNCHANGED <<requests, phase, scanVars, clientVars, lives>>

\* Between the grab of client_manage and the selection of its events, a window can
\* disappear from its frame without a word, and remains a client for ever.
Unobserved(w) == win[w].parent = "frame" /\ <<"listen", w>> \in Range(requests)

AppDestroy(w) ==
    /\ Changing
    /\ wish[w] \in {"new", "withdrawn", "mapped"}
    /\ wish' = [wish EXCEPT ![w] = "gone"]
    /\ events' = events \o Report(IF win[w].mapped THEN <<"unmap", "destroy">> ELSE <<"destroy">>, w)
    /\ win' = [win EXCEPT ![w] = [NewWindow EXCEPT !.parent = "gone"]]
    /\ excepted' = IF Unobserved(w) THEN excepted \cup {w} ELSE excepted \ {w}
    /\ UNCHANGED <<requests, phase, scanVars, clientVars, lives>>

\* Another application takes the window into one of its own; a mapped one is
\* unmapped, moved and mapped again.
AppEmbed(w) ==
    /\ Changing
    /\ wish[w] \in {"new", "withdrawn", "mapped"}
    /\ wish' = [wish EXCEPT ![w] = "embedded"]
    /\ events' = events \o Report(IF win[w].mapped THEN <<"unmap", "embed">> ELSE <<"embed">>, w)
    /\ win' = [win EXCEPT ![w].parent = "elsewhere"]
    /\ excepted' = IF Unobserved(w) THEN excepted \cup {w} ELSE excepted \ {w}
    /\ UNCHANGED <<requests, phase, scanVars, clientVars, lives>>

\* WM_CHANGE_STATE, sent to the root window.
AppIconify(w) ==
    /\ Changing
    /\ wish[w] = "mapped" /\ RootHeard
    /\ events' = Append(events, <<"iconify", w>>)
    /\ UNCHANGED <<wish, win, requests, phase, scanVars, clientVars, excepted, lives>>

-----------------------------------------------------------------------------
(* Managing and unmanaging.                                                *)

Send(ops, w) == requests' = requests \o [i \in DOMAIN ops |-> <<ops[i], w>>]

\* client_manage, up to the first reply it waits for.
Manage(w) ==
    /\ clients' = <<w>> \o clients
    /\ managing' = w /\ failed' = FALSE
    /\ Send(<<"adopt", "listen">>, w)
    /\ UNCHANGED minimized

\* The requests of client_unmanage for a window that is there.  The frame is
\* destroyed at the end of the refresh, when nothing is in it.
Release == <<"silence", "unmap", "free", "unsave", "withdrawn">>

\* client_unmanage; the reason DESTROYED spares the requests.
Unmanage(w, release) ==
    /\ clients' = RemoveFirst(clients, w)
    /\ minimized' = minimized \ {w}
    /\ Send(release, w)

\* The rest of client_manage: the properties have been read, and with them the
\* answer to all earlier requests.  A window that was gone by then is unmanaged.
ManageDone ==
    /\ managing # None
    /\ requests = <<>>
    /\ IF failed THEN Unmanage(managing, <<"normal">> \o Release)
                 ELSE Send(<<"normal">>, managing) /\ UNCHANGED <<clients, minimized>>
    /\ managing' = None /\ failed' = FALSE
    /\ UNCHANGED <<appVars, win, events, phase, scanVars, excepted, lives>>

\* client_set_minimized.
SetMinimized(w, s) ==
    /\ IF s = (w \in minimized) THEN UNCHANGED <<minimized, requests>>
       ELSE IF s THEN minimized' = minimized \cup {w} /\ Send(<<"iconic", "hide">>, w)
                 ELSE minimized' = minimized \ {w} /\ Send(<<"normal", "show">>, w)
    /\ UNCHANGED <<clients, managing, failed>>

-----------------------------------------------------------------------------
(* The event handlers and Lua code.                                        *)

Idle == phase = "running" /\ managing = None

\* The next event is of this type and about w.
Handling(type, w) ==
    /\ Idle
    /\ events # <<>> /\ Head(events) = <<type, w>>
    /\ events' = Tail(events)
    /\ UNCHANGED <<appVars, win, phase, scanVars, excepted, lives>>

\* event_handle_maprequest asks for the window's attributes first.  A client that
\* is on no selected tag, or hidden, is left alone.
HandleMapRequest(w) ==
    /\ Handling("map", w)
    /\ requests = <<>>
    /\ \/ ~Alive(w) /\ UNCHANGED <<clientVars, requests>>
       \/ Alive(w) /\ w \in Range(clients) /\ SetMinimized(w, FALSE)
       \/ Alive(w) /\ w \in Range(clients) /\ UNCHANGED <<clientVars, requests>>
       \/ Alive(w) /\ w \notin Range(clients) /\ Manage(w)

\* event_handle_unmapnotify, for real and synthetic events.
HandleUnmapNotify(w) ==
    /\ Handling("unmap", w)
    /\ IF w \in Range(clients) THEN Unmanage(w, Release) ELSE UNCHANGED <<clients, minimized, requests>>
    /\ UNCHANGED <<managing, failed>>

\* event_handle_destroynotify.
HandleDestroyNotify(w) ==
    /\ Handling("destroy", w)
    /\ IF w \in Range(clients) THEN Unmanage(w, <<>>) ELSE UNCHANGED <<clients, minimized, requests>>
    /\ UNCHANGED <<managing, failed>>

\* event_handle_reparentnotify without its test for the root window.
HandleReparentNotifyAny(w) ==
    /\ \E type \in {"reparent", "embed"} :
        /\ Handling(type, w)
        /\ IF w \in Range(clients)
           THEN Unmanage(w, Release) ELSE UNCHANGED <<clients, minimized, requests>>
    /\ UNCHANGED <<managing, failed>>

\* event_handle_reparentnotify: a client that went elsewhere is unmanaged, a move to
\* the root window may be an old one of awesome itself.
HandleReparentNotify(w) ==
    /\ \E type \in {"reparent", "embed"} :
        /\ Handling(type, w)
        /\ IF type = "embed" /\ w \in Range(clients)
           THEN Unmanage(w, Release) ELSE UNCHANGED <<clients, minimized, requests>>
    /\ UNCHANGED <<managing, failed>>

\* event_handle_clientmessage: WM_CHANGE_STATE.
HandleChangeState(w) ==
    /\ Handling("iconify", w)
    /\ IF w \in Range(clients) THEN SetMinimized(w, TRUE) ELSE UNCHANGED <<clientVars, requests>>

LuaMinimizes(w, s) ==
    /\ Idle /\ Changing
    /\ w \in Range(clients) /\ (w \in minimized) # s
    /\ SetMinimized(w, s)
    /\ UNCHANGED <<wish, win, events, phase, scanVars, excepted, lives>>

\* luaA_client_unmanage: against the will of the application.
LuaUnmanages(w) ==
    /\ Idle /\ Changing
    /\ w \in Range(clients)
    /\ Unmanage(w, Release)
    /\ excepted' = IF wish[w] = "mapped" THEN excepted \cup {w} ELSE excepted
    /\ UNCHANGED <<wish, win, events, phase, scanVars, managing, failed, lives>>

-----------------------------------------------------------------------------
(* Restarts.                                                               *)

\* The server closes a connection down: the windows of the save-set leave the frames,
\* which are destroyed, and are mapped, whether they were or not.
Rescued == [w \in Window |->
    IF ~win[w].saved THEN [win[w] EXCEPT !.heard = FALSE, !.redirect = FALSE]
    ELSE [NewWindow EXCEPT !.parent = IF win[w].parent = "frame" THEN "root" ELSE win[w].parent,
                           !.mapped = TRUE, !.state = win[w].state]]

\* The windows that scan manages.
Eligible(x) == x.parent # "gone" /\ x.mapped /\ x.state # "withdrawn"

CloseDown ==
    /\ win' = Rescued
    /\ events' = <<>> /\ requests' = <<>>
    /\ phase' = "absent"
    /\ tree' = <<>> /\ order' = <<>>
    /\ clients' = <<>> /\ minimized' = {} /\ managing' = None /\ failed' = FALSE
    /\ excepted' = {w \in Window :
            IF wish[w] = "mapped" THEN ~Eligible(Rescued[w]) ELSE Rescued[w].mapped}
    /\ lives' = lives + 1
    /\ UNCHANGED appVars

\* awesome_atexit moves the clients' windows out of their frames.
Exit ==
    /\ Idle /\ lives < MaxLives
    /\ phase' = "exiting"
    /\ requests' = requests \o [i \in DOMAIN clients |-> <<"free", clients[i]>>]
    /\ UNCHANGED <<appVars, win, events, scanVars, clientVars, excepted, lives>>

\* Its end: the order is saved and everything has been executed.
Disconnect ==
    /\ phase = "exiting" /\ requests = <<>>
    /\ savedOrder' = clients
    /\ CloseDown

Crash ==
    /\ phase # "absent" /\ lives < MaxLives
    /\ UNCHANGED savedOrder
    /\ CloseDown

\* main, under a grab: awesome takes the root window and asks for its children.
Start ==
    /\ phase = "absent"
    /\ tree' \in SetToSeqs({w \in Window : win[w].parent = "root"})
    /\ phase' = "scan"
    /\ UNCHANGED <<appVars, serverVars, order, savedOrder, clientVars, excepted, lives>>

\* scan, after rc.lua: it takes the saved order and reads the windows' attributes.
ScanAttributes ==
    /\ phase = "scan"
    /\ order' = savedOrder /\ savedOrder' = <<>>
    /\ tree' = SelectSeq(tree, LAMBDA w : Eligible(win[w]))
    /\ phase' = "manage"
    /\ UNCHANGED <<appVars, serverVars, clientVars, excepted, lives>>

ScanManage ==
    /\ phase = "manage" /\ managing = None /\ tree # <<>>
    /\ Manage(Head(tree))
    /\ tree' = Tail(tree)
    /\ UNCHANGED <<appVars, win, events, phase, order, savedOrder, excepted, lives>>

\* restore_client_order: each window of the saved order that is a client swaps places
\* with the client at the next index.
Reordered(list, windows) ==
    LET swap(l, i, j) == [k \in DOMAIN l |-> IF k = i THEN l[j] ELSE IF k = j THEN l[i] ELSE l[k]]
        step(s, w) == IF w \in Range(s[1])
                      THEN <<swap(s[1], s[2], CHOOSE i \in DOMAIN s[1] : s[1][i] = w), s[2] + 1>>
                      ELSE s
    IN  FoldLeft(step, <<list, 1>>, windows)[1]

ScanDone ==
    /\ phase = "manage" /\ managing = None /\ tree = <<>>
    /\ clients' = Reordered(clients, order)
    /\ phase' = "running"
    /\ UNCHANGED <<appVars, serverVars, scanVars, minimized, managing, failed, excepted, lives>>

-----------------------------------------------------------------------------

Next == \/ Execute \/ ManageDone
        \/ \E w \in Window :
              \/ AppMap(w) \/ AppWithdraw(w) \/ AppDestroy(w) \/ AppEmbed(w) \/ AppIconify(w)
              \/ HandleMapRequest(w) \/ HandleUnmapNotify(w) \/ HandleDestroyNotify(w)
              \/ HandleReparentNotify(w) \/ HandleChangeState(w)
              \/ LuaUnmanages(w) \/ \E s \in BOOLEAN : LuaMinimizes(w, s)
        \/ Exit \/ Disconnect \/ Crash
        \/ Start \/ ScanAttributes \/ ScanManage \/ ScanDone

Spec == Init /\ [][Next]_vars

-----------------------------------------------------------------------------
(* Properties.                                                             *)

Quiet == Idle /\ events = <<>> /\ requests = <<>>

\* Whenever nothing is on its way, awesome's clients are exactly the windows that
\* applications have mapped: no request, event, restart or crash in between makes
\* awesome miss one, keep one that is gone, or take back one that was withdrawn.
ClientsAreTheMapped == Quiet =>
    \A w \in Window \ excepted : w \in Range(clients) <=> wish[w] = "mapped"

\* Then the server has the windows as awesome thinks: a client is in its frame, in the
\* save-set and observed, unmapped only if minimized, with the WM_STATE that says so;
\* any other window is outside of the frames, off the screen, and nobody's.
ServerAgrees == Quiet =>
    \A w \in Window \ excepted :
        IF w \in Range(clients)
        THEN win[w] = [parent |-> "frame", mapped |-> w \notin minimized,
                       state |-> IF w \in minimized THEN "iconic" ELSE "normal",
                       saved |-> TRUE, heard |-> TRUE, redirect |-> TRUE]
        ELSE /\ win[w].parent # "frame" /\ (wish[w] \in {"new", "withdrawn"} => ~win[w].mapped)
             /\ ~win[w].saved /\ ~win[w].heard /\ ~win[w].redirect

\* The clients that survive a restart are in the same order as before, whatever
\* order the server lists their windows in and whoever came and went meanwhile.
OrderRestored ==
    phase = "manage" /\ phase' = "running" =>
        SelectSeq(clients', LAMBDA w : w \in Range(order))
            = SelectSeq(order, LAMBDA w : w \in Range(clients))

\* Together: once things are quiet, awesome, the server and the applications agree about
\* which windows are managed, and how.
LifecycleInv == TypeOK /\ ClientsAreTheMapped /\ ServerAgrees

\* Every step leads to such a state, and a restart keeps the order of the clients.
ClientsLiveOn == [][LifecycleInv' /\ OrderRestored]_vars
=============================================================================

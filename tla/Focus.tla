-------------------------------- MODULE Focus --------------------------------
(***************************************************************************)
(* Who has the input focus: awesome's opinion, globalconf.focus, and the   *)
(* X server's, with the two asynchronous channels between them.            *)
(*                                                                         *)
(* Lua code moves the focus at any time (client.focus = c); the request to *)
(* the server is left for client_focus_refresh, travels in the output      *)
(* buffer and may be refused, because it carries a timestamp or because    *)
(* the window is gone.  The server reports a focus change with a FocusIn   *)
(* event, which awesome reads later, behind other events.  Applications    *)
(* may move the focus themselves.  All clients are taken to be on selected *)
(* tags: hiding clients is the subject of Banning.                         *)
(***************************************************************************)
EXTENDS Naturals, SequencesExt

CONSTANTS Client,         \* a client stands for its window
          NoInput,        \* c->nofocus: the WM_HINTS say not to focus it
          TakesFocus,     \* the clients with WM_TAKE_FOCUS in WM_PROTOCOLS
          SelfFocusing,   \* applications that call SetInputFocus on their own
          Mortal,         \* clients whose window may be destroyed
          LuaUnfocuses,   \* whether Lua ever assigns nil to client.focus
          MaxChanges,     \* bound: how often Lua assigns client.focus
          MaxTime,        \* bound: the server's clock
          None, RootWindow, NoFocus

Frame(c) == <<"frame", c>>            \* c->frame_window
NofocusWindow(c) == <<"nofocus", c>>  \* c->nofocus_window, a child of the frame

ASSUME FocusAssumption ==
    /\ Client \cap {None, RootWindow, NoFocus} = {} /\ None # RootWindow /\ RootWindow # NoFocus
    /\ \A c \in Client : {Frame(c), NofocusWindow(c)} \cap (Client \cup {RootWindow, NoFocus}) = {}
    /\ NoInput \cup TakesFocus \cup SelfFocusing \cup Mortal \subseteq Client
    /\ LuaUnfocuses \in BOOLEAN
    /\ MaxChanges \in Nat /\ MaxTime \in Nat

VARIABLES
    \* awesome
    managed,     \* globalconf.clients, as a set
    focus,       \* globalconf.focus.client
    needUpdate,  \* globalconf.focus.need_update
    timestamp,   \* globalconf.timestamp
    dying,       \* frames of unmanaged clients, in destroy_later_windows
    \* the connection
    requests,    \* requests not yet executed by the server
    events,      \* events not yet handled by awesome
    taking,      \* <<c, time>>: WM_TAKE_FOCUS messages the clients have to act on
    \* the X server
    existing,    \* clients whose window exists
    xfocus,      \* the focus window
    xfocusTime,  \* the last-focus-change time
    now,         \* the server's clock
    \* history
    wanted,      \* what Lua assigned last, assignments without effect left out
    changes,     \* how often Lua assigned
    disturbed    \* what else has moved the focus: "nil" was assigned, a client
                 \* has died, or taken the focus when asked or by itself

awesomeVars == <<managed, focus, needUpdate, timestamp, dying>>
serverVars == <<existing, xfocus, xfocusTime, now>>
historyVars == <<wanted, changes, disturbed>>
vars == <<awesomeVars, requests, events, taking, serverVars, historyVars>>

Windows == Client \cup {RootWindow, NoFocus} \cup {Frame(c) : c \in Client} \cup {NofocusWindow(c) : c \in Client}

SetInputFocus(w, time) == [op |-> "focus", win |-> w, time |-> time]
TakeFocus(c, time) == [op |-> "take", win |-> c, time |-> time]
DestroyFrame(c) == [op |-> "destroy", win |-> c, time |-> 0]
FocusIn(w) == [type |-> "focusin", win |-> w, time |-> 0]
DestroyNotify(c) == [type |-> "destroyed", win |-> c, time |-> 0]
Input(time) == [type |-> "input", win |-> RootWindow, time |-> time]

TypeOK == /\ managed \subseteq Client
          /\ focus \in managed \cup {None}
          /\ needUpdate \in BOOLEAN
          /\ timestamp \in 0..now /\ xfocusTime \in 0..now
          /\ dying \subseteq Client \ managed
          /\ requests \in Seq([op : {"focus", "take", "destroy"}, win : Windows, time : 0..now])
          /\ events \in Seq([type : {"focusin", "destroyed", "input"}, win : Windows, time : 0..now])
          /\ taking \subseteq TakesFocus \X (0..now)
          /\ existing \subseteq managed
          /\ xfocus \in Windows
          /\ disturbed \subseteq {"nil", "death", "take", "self"}

Init == /\ managed = Client /\ existing = Client
        /\ focus = None /\ xfocus = NoFocus
        /\ needUpdate = FALSE
        /\ timestamp = 0 /\ xfocusTime = 0 /\ now = 0
        /\ dying = {} /\ taking = {}
        /\ requests = <<>> /\ events = <<>>
        /\ wanted = None /\ changes = 0 /\ disturbed = {}

-----------------------------------------------------------------------------
(* awesome.                                                                *)

\* The window that gets the keys for a client, or for none.
InputWindow(c) == IF c = None THEN NoFocus ELSE IF c \in NoInput THEN NofocusWindow(c) ELSE c

\* What client_focus_refresh sends when an update is needed: WM_TAKE_FOCUS
\* comes before the focus request.
FocusRequests ==
    IF ~needUpdate THEN <<>>
    ELSE (IF focus \in TakesFocus THEN <<TakeFocus(focus, timestamp)>> ELSE <<>>)
         \o <<SetInputFocus(InputWindow(focus), timestamp)>>

\* client.focus = c, from a key binding, a timer or a signal handler: the
\* request is left for the refresh, and nothing happens if c has the focus
\* already as far as awesome knows.
ClientFocus(c) ==
    /\ changes < MaxChanges
    /\ c \in managed
    /\ focus' = c
    /\ needUpdate' = (needUpdate \/ focus # c)
    /\ wanted' = IF focus # c THEN c ELSE wanted
    /\ changes' = changes + 1
    /\ UNCHANGED <<managed, timestamp, dying, requests, events, taking, serverVars, disturbed>>

\* client.focus = nil.
ClientUnfocus ==
    /\ LuaUnfocuses /\ changes < MaxChanges
    /\ focus # None
    /\ focus' = None
    /\ needUpdate' = TRUE
    /\ wanted' = None
    /\ changes' = changes + 1
    /\ disturbed' = disturbed \cup {"nil"}
    /\ UNCHANGED <<managed, timestamp, dying, requests, events, taking, serverVars>>

\* As HandleFocusIn, with the pending focus change left for the next refresh.
HandleFocusInLazily ==
    /\ events # <<>> /\ Head(events).type = "focusin"
    /\ LET w == Head(events).win
       IN  \/ /\ w = RootWindow
              /\ needUpdate' = TRUE
              /\ UNCHANGED <<focus, requests>>
           \/ /\ w \in managed
              /\ focus' = w
              /\ UNCHANGED <<needUpdate, requests>>
           \/ /\ w \notin managed \cup {RootWindow}
              /\ UNCHANGED <<focus, needUpdate, requests>>
    /\ events' = Tail(events)
    /\ UNCHANGED <<managed, timestamp, dying, taking, serverVars, historyVars>>

\* As HandleFocusIn, with client_focus in place of client_focus_update.
HandleFocusInRefocus ==
    /\ events # <<>> /\ Head(events).type = "focusin"
    /\ LET w == Head(events).win
       IN  \/ /\ w = RootWindow
              /\ needUpdate' = TRUE
              /\ UNCHANGED <<focus, requests>>
           \/ /\ w \in managed
              /\ requests' = requests \o FocusRequests
              /\ needUpdate' = (focus # w)
              /\ focus' = w
           \/ /\ w \notin managed \cup {RootWindow}
              /\ UNCHANGED <<focus, needUpdate, requests>>
    /\ events' = Tail(events)
    /\ UNCHANGED <<managed, timestamp, dying, taking, serverVars, historyVars>>

\* event_handle_focusin, for the modes and details that are not ignored: a
\* pending focus change is sent first, then the report is believed.
HandleFocusIn ==
    /\ events # <<>> /\ Head(events).type = "focusin"
    /\ LET w == Head(events).win
       IN  \/ /\ w = RootWindow
              /\ needUpdate' = TRUE
              /\ UNCHANGED <<focus, requests>>
           \/ /\ w \in managed
              /\ requests' = requests \o FocusRequests
              /\ needUpdate' = FALSE
              /\ focus' = w
           \/ /\ w \notin managed \cup {RootWindow}
              /\ UNCHANGED <<focus, needUpdate, requests>>
    /\ events' = Tail(events)
    /\ UNCHANGED <<managed, timestamp, dying, taking, serverVars, historyVars>>

\* event_handle_destroynotify and client_unmanage: the focus is dropped, and the
\* frame is left for client_destroy_later.
HandleDestroyNotify ==
    /\ events # <<>> /\ Head(events).type = "destroyed"
    /\ LET c == Head(events).win
       IN  /\ managed' = managed \ {c}
           /\ focus' = IF focus = c THEN None ELSE focus
           /\ needUpdate' = (needUpdate \/ focus = c)
           /\ dying' = dying \cup {c}
    /\ events' = Tail(events)
    /\ UNCHANGED <<timestamp, requests, taking, serverVars, historyVars>>

\* The handlers of key, button, motion, crossing and property events: they only
\* matter for the timestamp they record.
HandleInput ==
    /\ events # <<>> /\ Head(events).type = "input"
    /\ timestamp' = Head(events).time
    /\ events' = Tail(events)
    /\ UNCHANGED <<managed, focus, needUpdate, dying, requests, taking, serverVars, historyVars>>

\* awesome_refresh: client_focus_refresh, then client_destroy_later.
Refresh ==
    /\ needUpdate \/ dying # {}
    /\ requests' = requests \o FocusRequests \o SetToSeq({DestroyFrame(c) : c \in dying})
    /\ needUpdate' = FALSE
    /\ dying' = {}
    /\ UNCHANGED <<managed, focus, timestamp, events, taking, serverVars, historyVars>>

-----------------------------------------------------------------------------
(* The X server and the applications.  The output buffer may be written at *)
(* any time.                                                               *)

\* A frame exists until the request to destroy it is executed.
FrameExists(c) == c \in managed \cup dying \/ DestroyFrame(c) \in Range(requests)
WindowExists(w) == \/ w \in existing \cup {RootWindow, NoFocus}
                   \/ \E c \in Client : w \in {Frame(c), NofocusWindow(c)} /\ FrameExists(c)

\* The focus moves to w: w is told, if awesome selects for it (client windows
\* and the root window are, frames and nofocus windows are not).
MoveFocus(w, queue) ==
    /\ xfocus' = w
    /\ events' = IF w # xfocus /\ w \in Client \cup {RootWindow} THEN Append(queue, FocusIn(w)) ELSE queue

\* SetInputFocus: not if the time is earlier than the last-focus-change time.
ServeSetInputFocus(w, time) ==
    IF WindowExists(w) /\ time >= xfocusTime
    THEN MoveFocus(w, events) /\ xfocusTime' = time
    ELSE UNCHANGED <<xfocus, xfocusTime, events>>

\* The server executes the oldest request.  With a frame its children go, and
\* the focus reverts to the closest viewable ancestor, the root window.
Serve ==
    /\ requests # <<>>
    /\ requests' = Tail(requests)
    /\ LET r == Head(requests)
       IN  \/ /\ r.op = "focus"
              /\ ServeSetInputFocus(r.win, r.time)
              /\ UNCHANGED taking
           \/ /\ r.op = "take"
              /\ taking' = IF r.win \in existing THEN taking \cup {<<r.win, r.time>>} ELSE taking
              /\ UNCHANGED <<xfocus, xfocusTime, events>>
           \/ /\ r.op = "destroy"
              /\ IF xfocus \in {Frame(r.win), NofocusWindow(r.win)}
                 THEN MoveFocus(RootWindow, events)
                 ELSE UNCHANGED <<xfocus, events>>
              /\ UNCHANGED <<xfocusTime, taking>>
    /\ UNCHANGED <<awesomeVars, existing, now, historyVars>>

\* A client acts on WM_TAKE_FOCUS, with the time it was given.
AppTakesFocus ==
    \E t \in taking :
        /\ taking' = taking \ {t}
        /\ ServeSetInputFocus(t[1], t[2])
        /\ disturbed' = disturbed \cup {"take"}
        /\ UNCHANGED <<awesomeVars, requests, existing, now, wanted, changes>>

\* An application moves the focus to its window, at the current time.
AppFocuses(c) ==
    /\ c \in SelfFocusing \cap existing
    /\ xfocus # c /\ xfocusTime < now
    /\ ServeSetInputFocus(c, now)
    /\ disturbed' = disturbed \cup {"self"}
    /\ UNCHANGED <<awesomeVars, requests, taking, existing, now, wanted, changes>>

\* A window is destroyed by its application: the focus reverts to the frame.
AppDestroys(c) ==
    /\ c \in Mortal \cap existing
    /\ existing' = existing \ {c}
    /\ xfocus' = IF xfocus = c THEN Frame(c) ELSE xfocus
    /\ events' = Append(events, DestroyNotify(c))
    /\ taking' = {t \in taking : t[1] # c}
    /\ disturbed' = disturbed \cup {"death"}
    /\ UNCHANGED <<awesomeVars, requests, xfocusTime, now, wanted, changes>>

\* Time passes with the user typing or moving the mouse, which awesome is told
\* of if it happens on one of the windows and keys it selects for.
UserInput(told) ==
    /\ now < MaxTime
    /\ now' = now + 1
    /\ events' = IF told THEN Append(events, Input(now + 1)) ELSE events
    /\ UNCHANGED <<awesomeVars, requests, taking, existing, xfocus, xfocusTime, historyVars>>

HandleEvent == HandleFocusIn \/ HandleDestroyNotify \/ HandleInput

Next == \/ \E c \in Client : ClientFocus(c) \/ AppFocuses(c) \/ AppDestroys(c)
        \/ ClientUnfocus \/ HandleEvent \/ Refresh
        \/ Serve \/ AppTakesFocus
        \/ \E told \in BOOLEAN : UserInput(told)

Spec == Init /\ [][Next]_vars

\* The main loop handles every event and refreshes in every iteration, and the
\* server executes what it is sent.
Fairness == WF_vars(HandleEvent) /\ WF_vars(Refresh) /\ WF_vars(Serve) /\ WF_vars(AppTakesFocus)
FairSpec == Spec /\ Fairness

-----------------------------------------------------------------------------
(* Properties.                                                             *)

\* Nothing is under way: what awesome and the server think now stays.
Quiet == /\ ~needUpdate /\ dying = {}
         /\ requests = <<>> /\ events = <<>> /\ taking = {}

\* The last assignment of client.focus is what everybody ends up with, however
\* it is overtaken by the FocusIn events of earlier ones: a report that comes in
\* while a change is pending must not swallow the change.  (An assignment of the
\* client that awesome believes focused has no effect, even while the server is
\* about to move the focus away from it.)  The server always follows; awesome's
\* own opinion may be that of an older FocusIn event, if the client takes no input
\* and therefore no event reports that it got the focus.
LastAssignmentWins == Quiet /\ disturbed = {} /\ changes > 0 =>
    /\ xfocus = InputWindow(wanted)
    /\ wanted \notin NoInput => focus = wanted

\* The window that gets the keys is never a surprise to awesome: if the focus is
\* at a client's window once things are quiet, then this is client.focus, whoever
\* has died or was asked to take the focus.
FocusIsKnown == Quiet /\ "self" \notin disturbed =>
    (xfocus \in managed => focus = xfocus)

\* A client that has died never stays focused, and the focus does not stay with
\* its frame or with the root window: awesome moves it on.
FocusLeavesTheDead == Quiet =>
    /\ focus \in existing \cup {None}
    /\ "self" \notin disturbed => xfocus \notin {RootWindow} \cup {Frame(c) : c \in Client}

\* awesome and the server do not send each other after an ever changing focus:
\* when nobody moves it any more, things become quiet.
FocusBecomesQuiet == []<>Quiet

\* Together: awesome and the server agree about who has the focus, and the dead never do.
FocusInv == TypeOK /\ LastAssignmentWins /\ FocusIsKnown /\ FocusLeavesTheDead
=============================================================================

---------------------------------- MODULE Ewmh ----------------------------------
(***************************************************************************)
(* What pagers and applications see of awesome: the properties of the EWMH *)
(* specification on the root window and on the clients, and the messages   *)
(* they send (ewmh.c).  Most properties are written by C functions that    *)
(* ewmh_init_lua connects to signals of clients and tags: after the        *)
(* handlers of the object itself, and before those that a configuration    *)
(* connects to the class.  All of these handlers may make calls that change*)
(* what the properties tell, in the middle of a change.                    *)
(*                                                                         *)
(* A client leaves only when no call is under way, and no handler focuses  *)
(* or tags a client that is leaving.  Names of desktops, frame extents,    *)
(* the stacking list and icons are left out.                               *)
(***************************************************************************)
EXTENDS Integers, FiniteSets, SequencesExt

CONSTANTS EwmhClient, Desktop,   \* the clients and the tags
          Settable,              \* the flags that handlers and applications change
          NoHint,                  \* no window, no property
          MaxEwmhCalls,          \* bound: calls, events and messages
          MaxAsked,              \* bound: states that a new client asks for
          MaxEwmhNesting         \* bound: calls inside of handlers inside of calls

VARIABLES list,      \* globalconf.clients
          focus,     \* globalconf.focus.client
          state,     \* of each client: the flags that are set
          desktops,  \* globalconf.tags
          selected, tagged,  \* the selected tags, the tags of each client
          root,      \* the properties of the root window
          netState, netDesktop,  \* _NET_WM_STATE and _NET_WM_DESKTOP of each client
          doing,     \* the C functions that run, each called by a handler of the one before
          untold,    \* history: the properties that hold what awesome has not written or
                     \* what it has not been asked to write since it changed
          ewmhCalls

ewmhVars == <<list, focus, state, desktops, selected, tagged, root, netState, netDesktop, doing, untold,
              ewmhCalls>>

ALL == "all desktops"
Special == {"fullscreen", "above", "below", "ontop"}
Maximized == {"maximized_horizontal", "maximized_vertical", "maximized"}
StateFlag == Special \cup Maximized \cup {"modal", "sticky", "skip_taskbar", "minimized", "urgent"}
\* The names of _NET_WM_STATE's atoms are those of the flags, except for these two.
Atom == (StateFlag \ {"ontop", "maximized"})

EwmhTypeOK ==
    /\ ToSet(list) \subseteq EwmhClient /\ focus \in EwmhClient \cup {NoHint}
    /\ state \in [EwmhClient -> SUBSET StateFlag] /\ netState \in [EwmhClient -> SUBSET Atom]
    /\ ToSet(desktops) \subseteq Desktop /\ selected \subseteq Desktop
    /\ tagged \in [EwmhClient -> SUBSET Desktop]
    /\ Len(doing) <= MaxEwmhNesting

ASSUME EwmhAssumption ==
    /\ {NoHint, "root"} \cap EwmhClient = {} /\ IsFiniteSet(Desktop)
    /\ MaxEwmhNesting \in Nat /\ Settable \subseteq StateFlag

-----------------------------------------------------------------------------
(* What the properties should tell.                                        *)

\* ewmh_client_update_hints.
StateAtoms(c) == (state[c] \cap Atom) \cup
                 (IF "maximized" \in state[c] THEN {"maximized_horizontal", "maximized_vertical"} ELSE {})

\* The first index of a tag in S, counted from 0.
FirstIndex(S, default) ==
    IF \E i \in DOMAIN desktops : desktops[i] \in S
    THEN Min({i \in DOMAIN desktops : desktops[i] \in S}) - 1 ELSE default

\* ewmh_client_update_desktop.
DesktopOf(c) == IF "sticky" \in state[c] THEN ALL ELSE FirstIndex(tagged[c], NoHint)
DesktopUpdated(c) == netDesktop' = [d \in EwmhClient |-> IF d = c THEN DesktopOf(d)' ELSE netDesktop[d]]

\* tags_get_current_or_first_selected_index.
CurrentDesktop ==
    FirstIndex(IF focus # NoHint /\ \E t \in ToSet(desktops) : t \in selected \cap tagged[focus]
               THEN selected \cap tagged[focus] ELSE selected, 0)

RootHints == [active |-> focus, list |-> list, current |-> CurrentDesktop, number |-> Len(desktops)]

-----------------------------------------------------------------------------
(* Calls, and the steps of the C functions.                                *)

Emits(signal, c) == [do |-> "emit", signal |-> signal, client |-> c]
EmitIf(flag, c, before) == [do |-> "emitIf", flag |-> flag, client |-> c, before |-> before]
Set(c, flag, value) == [do |-> "set", client |-> c, flag |-> flag, value |-> value]
Assign(c, flag, value) == [do |-> "assign", client |-> c, flag |-> flag, value |-> value]
Asked(c, atom, action) == [do |-> "asked", client |-> c, atom |-> atom, action |-> action]
FocusOn(c) == [do |-> "focus", client |-> c]
Removal(c) == [do |-> "remove", client |-> c]
UntagFrom(c, i) == [do |-> "untag", client |-> c, index |-> i]
Numbers == [do |-> "numbers"]
Handlers == [do |-> "handlers"]

Top == doing[Len(doing)]
Callers == SubSeq(doing, 1, Len(doing) - 1)
Step == Top.todo[1]
Rest == Tail(Top.todo)

\* The function goes on with todo; before, handlers run if calling.
Continue(todo, calling) ==
    doing' = Callers \o (IF todo = <<>> /\ ~calling THEN <<>> ELSE <<[todo |-> todo, calling |-> calling]>>)

Calls(todo) == /\ ewmhCalls > 0 /\ Len(doing) < MaxEwmhNesting
               /\ IF doing = <<>> THEN TRUE ELSE Top.calling
               /\ ewmhCalls' = ewmhCalls - 1
               /\ doing' = Append(doing, [todo |-> todo, calling |-> FALSE])

Leaving(c) == \E i \in DOMAIN doing : \E j \in DOMAIN doing[i].todo :
                  doing[i].todo[j].do \in {"remove", "untag"} /\ doing[i].todo[j].client = c
Here(c) == c \in ToSet(list) /\ ~Leaving(c)

Does(what) == doing # <<>> /\ Top.todo # <<>> /\ Step.do = what
Same == UNCHANGED <<list, state, desktops, selected, tagged, focus, netDesktop, ewmhCalls>>

\* Without those of "property::selected".
ConnectedButSelected(signal) ==
    CASE signal \in {"focus", "unfocus"} -> {"active", "current"}
      [] signal \in {"request::manage", "request::unmanage"} -> {"list"}
      [] signal \in {"tagged", "untagged"} -> {"current"}
      [] signal \in Atom \cup Maximized -> {"state"}
      [] OTHER -> {}

\* ewmh_init_lua: the properties that the handlers of a signal write.
Connected(signal) == IF signal = "property::selected" THEN {"current"} ELSE ConnectedButSelected(signal)

\* The handlers of the object; those of ewmh.c; those of the class.
DoEmit == /\ Does("emit") /\ Continue(<<[Step EXCEPT !.do = "refresh"]>> \o Rest, TRUE)
          /\ Same /\ UNCHANGED <<root, netState, untold>>

DoRefresh ==
    /\ Does("refresh")
    /\ LET told == Connected(Step.signal)
           c    == Step.client
       IN  /\ root' = [p \in DOMAIN root |-> IF p \in told THEN RootHints[p] ELSE root[p]]
           /\ netState' = IF "state" \in told THEN [netState EXCEPT ![c] = StateAtoms(c)] ELSE netState
           /\ untold' = untold \ ({<<"root", p>> : p \in told} \cup
                                  (IF "state" \in told THEN {<<c, "state">>} ELSE {}))
    /\ Continue(Rest, TRUE)
    /\ Same

DoHandlers == Does("handlers") /\ Continue(Rest, TRUE) /\ Same /\ UNCHANGED <<root, netState, untold>>

HandlersReturn == /\ doing # <<>> /\ Top.todo = <<>> /\ doing' = Callers
                  /\ Same /\ UNCHANGED <<root, netState, untold>>

-----------------------------------------------------------------------------
(* The flags of a client.                                                  *)

\* client_set_*: the other special layers are left first.
Excluded(flag) == CASE flag = "fullscreen" -> <<"below", "above", "ontop">>
                    [] flag = "above" -> <<"below", "ontop", "fullscreen">>
                    [] flag = "below" -> <<"above", "ontop", "fullscreen">>
                    [] flag = "ontop" -> <<"above", "below", "fullscreen">>
                    [] OTHER -> <<>>

DoSet == /\ Does("set") /\ Step.flag \notin Maximized
         /\ LET c == Step.client
            IN  Continue(IF (Step.flag \in state[c]) = Step.value THEN Rest
                       ELSE (IF Step.value
                             THEN [i \in DOMAIN Excluded(Step.flag) |-> Set(c, Excluded(Step.flag)[i], FALSE)]
                             ELSE <<>>) \o <<Assign(c, Step.flag, Step.value)>> \o Rest, FALSE)
         /\ Same /\ UNCHANGED <<root, netState, untold>>

FlagSet(S, flag, value) == IF value THEN S \cup {flag} ELSE S \ {flag}

\* A client that becomes sticky is on all desktops.
DoAssign ==
    /\ Does("assign")
    /\ UNCHANGED <<list, desktops, selected, tagged, focus, root, netState, ewmhCalls>>
    /\ LET c == Step.client
       IN  /\ state' = [state EXCEPT ![c] = FlagSet(@, Step.flag, Step.value)]
           /\ IF Step.flag = "sticky" THEN DesktopUpdated(c) ELSE netDesktop' = netDesktop
           /\ untold' = IF Step.flag = "sticky" THEN untold \ {<<c, "desktop">>} ELSE untold
           /\ Continue(<<Emits(Step.flag, c)>> \o Rest, FALSE)

\* client_set_maximized_common, after startup.  All that has changed is signalled, if it has not
\* changed back.
DoSetMaximized ==
    /\ Does("set") /\ Step.flag \in Maximized
    /\ LET c == Step.client
           before == state[c]
           emitIf(f) == EmitIf(f, c, f \in before)
       IN  /\ state' = [state EXCEPT ![c] = FlagSet(@, Step.flag, Step.value)]
           /\ Continue((IF state' = state THEN <<>>
                      ELSE <<Handlers, emitIf("maximized_horizontal"), emitIf("maximized_vertical"),
                             emitIf("maximized")>>) \o Rest, FALSE)
    /\ UNCHANGED <<list, desktops, selected, tagged, focus, root, netState, netDesktop, untold, ewmhCalls>>

DoEmitIf == /\ Does("emitIf")
            /\ Continue((IF (Step.flag \in state[Step.client]) = Step.before THEN <<>>
                       ELSE <<Emits(Step.flag, Step.client)>>) \o Rest, FALSE)
            /\ Same /\ UNCHANGED <<root, netState, untold>>

\* A handler or the main loop.
SetFlag(c, flag, value) ==
    /\ Here(c)
    /\ Calls(<<Set(c, flag, value)>>)
    /\ UNCHANGED <<list, focus, state, desktops, selected, tagged, root, netState, netDesktop, untold>>

\* ewmh_process_state_atom: maximizing and urgency are left to handlers.
DoAsked ==
    /\ Does("asked")
    /\ LET c == Step.client
           value == CASE Step.action = "remove" -> FALSE
                      [] Step.action = "add" -> TRUE
                      [] Step.action = "toggle" -> Step.atom \notin state[c]
       IN  Continue((IF Step.atom \in Maximized \cup {"urgent"} THEN <<Handlers>> ELSE <<Set(c, Step.atom, value)>>)
                  \o Rest, FALSE)
    /\ Same /\ UNCHANGED <<root, netState, untold>>

\* ewmh_process_client_message: _NET_WM_STATE, with two atoms.
StateMessage(c, first, second, action) ==
    /\ doing = <<>> /\ c \in ToSet(list)
    /\ Calls(<<Asked(c, first, action), Asked(c, second, action)>>)
    /\ UNCHANGED <<list, focus, state, desktops, selected, tagged, root, netState, netDesktop, untold>>

\* The other messages are requests to handlers: to focus a client, to select a tag, to tag
\* a client with one.
RequestMessage ==
    /\ doing = <<>>
    /\ Calls(<<Handlers>>)
    /\ UNCHANGED <<list, focus, state, desktops, selected, tagged, root, netState, netDesktop, untold>>

-----------------------------------------------------------------------------
(* The focus.                                                              *)

\* client_focus_update: the other client loses the focus first.
DoFocus ==
    /\ Does("focus")
    /\ LET c == Step.client
       IN  IF focus \notin {NoHint, c}
           THEN focus' = NoHint /\ Continue(<<Emits("unfocus", focus)>> \o Top.todo, FALSE)
           ELSE /\ focus' = c
                /\ Continue(<<Set(c, "urgent", FALSE)>> \o (IF focus = c THEN <<>> ELSE <<Emits("focus", c)>>) \o Rest,
                          FALSE)
    /\ UNCHANGED <<list, state, desktops, selected, tagged, root, netState, netDesktop, untold, ewmhCalls>>

Focus(c) ==
    /\ Here(c) /\ Calls(<<FocusOn(c)>>)
    /\ UNCHANGED <<list, focus, state, desktops, selected, tagged, root, netState, netDesktop, untold>>

\* client_unfocus.
Unfocus ==
    /\ focus # NoHint /\ focus' = NoHint /\ Calls(<<Emits("unfocus", focus)>>)
    /\ UNCHANGED <<list, state, desktops, selected, tagged, root, netState, netDesktop, untold>>

-----------------------------------------------------------------------------
(* Tags.                                                                   *)

\* tag_client and untag_client.
TagClient(c, t) ==
    /\ Here(c)
    /\ UNCHANGED <<list, focus, state, desktops, selected, root, netState>>
    /\ tagged' = [tagged EXCEPT ![c] = FlagSet(@, t, t \notin @)]
    /\ DesktopUpdated(c)
    /\ untold' = untold \ {<<c, "desktop">>}
    /\ Calls(<<Emits(IF t \in tagged[c] THEN "untagged" ELSE "tagged", c), Handlers>>)

\* tag_view.
TagView(t) ==
    /\ selected' = FlagSet(selected, t, t \notin selected)
    /\ Calls(<<Emits("property::selected", NoHint)>>)
    /\ UNCHANGED <<list, focus, state, desktops, tagged, root, netState, netDesktop, untold>>

\* Tags that come and go give the others new indices; no property of a client and not
\* the current desktop is written for that alone.
Overlooks == untold' = untold \cup {<<c, "desktop">> : c \in {d \in ToSet(list) : DesktopOf(d) # DesktopOf(d)'}}
                              \cup (IF CurrentDesktop = CurrentDesktop' THEN {} ELSE {<<"root", "current">>})

\* luaA_tag_set_activated.
Activate(t) ==
    /\ t \notin ToSet(desktops)
    /\ desktops' = Append(desktops, t)
    /\ Calls(<<Numbers, Handlers>>)
    /\ UNCHANGED <<list, focus, state, selected, tagged, root, netState, netDesktop>>
    /\ Overlooks

Deactivate(t) ==
    /\ t \in ToSet(desktops)
    /\ desktops' = RemoveFirst(desktops, t)
    /\ selected' = selected \ {t}
    /\ Calls((IF t \in selected THEN <<Emits("property::selected", NoHint)>> ELSE <<>>) \o <<Numbers, Handlers>>)
    /\ UNCHANGED <<list, focus, state, tagged, root, netState, netDesktop>>
    /\ Overlooks

\* ewmh_update_net_numbers_of_desktop.
DoNumbers == /\ Does("numbers") /\ Continue(Rest, FALSE)
             /\ root' = [root EXCEPT !.number = Len(desktops)]
             /\ Same /\ UNCHANGED <<netState, untold>>

-----------------------------------------------------------------------------
(* Clients that come and go.                                               *)

\* client_manage and ewmh_client_check_hints: the window may ask for a desktop, which is
\* left to handlers, and for states; it may have set both properties itself.
ManageWindow(c, asked, maximize) ==
    /\ doing = <<>> /\ c \notin ToSet(list)
    /\ list' = <<c>> \o list
    /\ state' = [state EXCEPT ![c] = {}] /\ tagged' = [tagged EXCEPT ![c] = {}]
    /\ netState' = [netState EXCEPT ![c] = ToSet(asked) \cup
                        (IF maximize = "maximized" THEN {"maximized_horizontal", "maximized_vertical"}
                         ELSE {maximize} \cap Maximized)]
    /\ netDesktop' = [netDesktop EXCEPT ![c] = NoHint]
    /\ untold' = untold \cup {<<c, "state">>, <<c, "desktop">>}
    /\ Calls(<<Handlers>> \o [i \in DOMAIN asked |-> Asked(c, asked[i], "add")]
             \o (IF maximize \in Maximized THEN <<Set(c, maximize, TRUE)>> ELSE <<>>)
             \o <<Emits("request::manage", c)>>)
    /\ UNCHANGED <<focus, desktops, selected, root>>

\* client_unmanage.
UnmanageWindow(c) ==
    /\ doing = <<>> /\ c \in ToSet(list)
    /\ focus' = IF focus = c THEN NoHint ELSE focus
    /\ Calls((IF focus = c THEN <<Emits("unfocus", c)>> ELSE <<>>) \o <<Removal(c)>>)
    /\ UNCHANGED <<list, state, desktops, selected, tagged, root, netState, netDesktop, untold>>

DoRemove == /\ Does("remove")
            /\ list' = RemoveFirst(list, Step.client)
            /\ Continue(<<UntagFrom(Step.client, 1)>> \o Rest, FALSE)
            /\ UNCHANGED <<focus, state, desktops, selected, tagged, root, netState, netDesktop, untold, ewmhCalls>>

\* From one activated tag after the other.
DoUntag ==
    /\ Does("untag")
    /\ UNCHANGED <<list, focus, state, desktops, selected, root, netState, untold, ewmhCalls>>
    /\ LET c == Step.client
           i == Step.index
       IN  IF i > Len(desktops)
           THEN /\ Continue(<<Emits("request::unmanage", c)>> \o Rest, FALSE)
                /\ UNCHANGED <<tagged, netDesktop>>
           ELSE /\ tagged' = [tagged EXCEPT ![c] = @ \ {desktops[i]}]
                /\ IF tagged' = tagged THEN netDesktop' = netDesktop ELSE DesktopUpdated(c)
                /\ Continue((IF tagged' = tagged THEN <<>> ELSE <<Emits("untagged", c), Handlers>>)
                          \o <<UntagFrom(c, i + 1)>> \o Rest, FALSE)

-----------------------------------------------------------------------------
\* No clients yet; the configuration has activated all tags, or none.
EwmhInit ==
    /\ list = <<>> /\ focus = NoHint /\ desktops \in {<<>>, SetToSeq(Desktop)} /\ selected = {}
    /\ state = [c \in EwmhClient |-> {}] /\ tagged = [c \in EwmhClient |-> {}]
    /\ root = [active |-> NoHint, list |-> <<>>, current |-> 0, number |-> Len(desktops)]
    /\ netState = [c \in EwmhClient |-> {}] /\ netDesktop = [c \in EwmhClient |-> NoHint]
    /\ doing = <<>> /\ untold = {} /\ ewmhCalls = MaxEwmhCalls

EwmhNext ==
    \/ DoEmit \/ DoRefresh \/ DoHandlers \/ HandlersReturn \/ DoSet \/ DoAssign \/ DoSetMaximized \/ DoEmitIf
    \/ DoAsked \/ DoFocus \/ DoNumbers \/ DoRemove \/ DoUntag \/ Unfocus \/ RequestMessage
    \/ \E t \in Desktop : TagView(t) \/ Activate(t) \/ Deactivate(t)
    \/ \E c \in EwmhClient :
           \/ Focus(c) \/ UnmanageWindow(c)
           \/ \E t \in Desktop : TagClient(c, t)
           \/ \E f \in Settable, v \in BOOLEAN : SetFlag(c, f, v)
           \/ \E a, b \in Settable \cap Atom, action \in {"add", "remove", "toggle"} :
                  a # b /\ StateMessage(c, a, b, action)
           \/ \E n \in 0..MaxAsked, m \in (Settable \cap Maximized) \cup {NoHint} :
                  \E asked \in [1..n -> (Settable \cap Atom) \ Maximized] :
                     n + Cardinality({m} \cap Maximized) <= MaxAsked /\ ManageWindow(c, asked, m)

EwmhSpec == EwmhInit /\ [][EwmhNext]_ewmhVars

\* Whenever awesome is done with a call, whatever the handlers of its signals have done,
\* what others read of it is what is the case: the active window, the list of clients, the
\* desktops, and the state and the desktop of each client, except for what awesome has
\* never been asked to write since it changed (untold).
HintsAreCurrent ==
    doing = <<>> =>
        /\ \A p \in DOMAIN root : <<"root", p>> \notin untold => root[p] = RootHints[p]
        /\ \A c \in ToSet(list) : /\ <<c, "state">> \notin untold => netState[c] = StateAtoms(c)
                                  /\ <<c, "desktop">> \notin untold => netDesktop[c] = DesktopOf(c)

\* The same with the types.
EwmhInv == EwmhTypeOK /\ HintsAreCurrent
===============================================================================

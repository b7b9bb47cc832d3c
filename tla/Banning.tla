------------------------------- MODULE Banning -------------------------------
(***************************************************************************)
(* Which clients are shown and which one has the focus: tags, the sticky,  *)
(* minimized and hidden attributes, the deferred banning of banning.c and  *)
(* the deferred SetInputFocus of client_focus_refresh.                     *)
(*                                                                         *)
(* Lua code and event handlers change visibility and focus at will; they   *)
(* only record that work is due (need_lazy_banning, focus.need_update).    *)
(* Once per main loop iteration awesome_refresh does that work, the focus  *)
(* first and the banning second.  Signal handlers run after the operation  *)
(* that emits the signal.                                                  *)
(***************************************************************************)
EXTENDS Naturals

CONSTANTS Client, Tag,
          None,                  \* the null client_t pointer, and window_no_focus
          InactiveTagsInUse      \* Lua code deactivates tags that hold clients,
                                 \* and selects or fills tags that are not active

ASSUME BanningAssumption == None \notin Client /\ InactiveTagsInUse \in BOOLEAN

VARIABLES
    managed,      \* the clients in globalconf.clients
    active,       \* the tags in globalconf.tags
    selected,     \* the tags whose selected field is set
    tagged,       \* the pairs <<c, t>> with c in t->clients
    sticky, minimized, hidden, banned,   \* the clients with that attribute
    focus,        \* globalconf.focus.client
    needUpdate,   \* globalconf.focus.need_update
    lazyBanning,  \* globalconf.need_lazy_banning
    xfocus        \* the client whose window has the input focus in the X server

banningVars == <<managed, active, selected, tagged, sticky, minimized, hidden, banned,
          focus, needUpdate, lazyBanning, xfocus>>

BanningTypeOK ==
    /\ managed \subseteq Client
    /\ active \subseteq Tag
    /\ selected \subseteq Tag
    /\ tagged \subseteq Client \X Tag
    /\ sticky \subseteq managed
    /\ minimized \subseteq managed
    /\ hidden \subseteq managed
    /\ banned \subseteq managed
    /\ focus \in managed \cup {None}
    /\ xfocus \in managed \cup {None}
    /\ needUpdate \in BOOLEAN
    /\ lazyBanning \in BOOLEAN

BanningInit ==
    /\ managed = {} /\ active = {} /\ selected = {} /\ tagged = {}
    /\ sticky = {} /\ minimized = {} /\ hidden = {} /\ banned = {}
    /\ focus = None /\ xfocus = None
    /\ needUpdate = FALSE /\ lazyBanning = FALSE

-----------------------------------------------------------------------------

\* client_on_selected_tags, for a set tg of pairs of a client and a tag.
OnSelectedTagsWith(c, tg) == c \in sticky \/ \E t \in active \cap selected : <<c, t>> \in tg

OnSelectedTags(c) == OnSelectedTagsWith(c, tagged)

\* client_isvisible
IsVisible(c) == c \notin hidden /\ c \notin minimized /\ OnSelectedTags(c)

IsVisibleWith(c, tg) == c \notin hidden /\ c \notin minimized /\ OnSelectedTagsWith(c, tg)

\* client_unfocus on the focused client, if lost holds.
UnfocusIf(lost) ==
    /\ focus' = IF lost THEN None ELSE focus
    /\ needUpdate' = (lost \/ needUpdate)

\* banning_need_update without the flag.
BanningNeedUpdateNoFlag ==
    /\ UNCHANGED lazyBanning
    /\ UnfocusIf(\E c \in managed' : c = focus /\ ~IsVisible(c)')

\* banning_need_update, called with the new attributes in place: the banning is
\* left to the next refresh, but a client that will be banned loses the focus
\* at once.
BanningNeedUpdate ==
    /\ lazyBanning' = TRUE
    /\ UnfocusIf(\E c \in managed' : c = focus /\ ~IsVisible(c)')

-----------------------------------------------------------------------------
(* Managing and unmanaging.                                                *)

\* client_manage: a new client is banned, and on no tag yet.
Manage(c) ==
    /\ c \notin managed
    /\ managed' = managed \cup {c}
    /\ banned' = banned \cup {c}
    /\ UNCHANGED <<active, selected, tagged, sticky, minimized, hidden, focus,
                   needUpdate, lazyBanning, xfocus>>

\* client_unmanage whose loop over the tags stops at the first hit, as the
\* loops over the client list and the stack do.
UnmanageFirstTag(c) ==
    /\ c \in managed
    /\ managed' = managed \ {c}
    /\ \E t \in active : <<c, t>> \in tagged /\ tagged' = tagged \ {<<c, t>>}
    /\ sticky' = sticky \ {c} /\ minimized' = minimized \ {c}
    /\ hidden' = hidden \ {c} /\ banned' = banned \ {c}
    /\ UnfocusIf(focus = c \/ (focus \in managed /\ ~IsVisible(focus)))
    /\ lazyBanning' = TRUE
    /\ xfocus' = IF xfocus = c THEN None ELSE xfocus
    /\ UNCHANGED <<active, selected>>

\* client_unmanage: the client loses the focus, leaves the client list and is
\* removed from the active tags.  The server takes the focus away from a
\* window that is unmapped.
Unmanage(c) ==
    LET leaves == tagged \cap ({c} \X active)
        updates == leaves # {}
    IN  /\ c \in managed
        /\ managed' = managed \ {c}
        /\ tagged' = tagged \ leaves
        /\ sticky' = sticky \ {c} /\ minimized' = minimized \ {c}
        /\ hidden' = hidden \ {c} /\ banned' = banned \ {c}
        /\ UnfocusIf(focus = c \/ (updates /\ focus \in managed /\ ~IsVisible(focus)))
        /\ lazyBanning' = (updates \/ lazyBanning)
        /\ xfocus' = IF xfocus = c THEN None ELSE xfocus
        /\ UNCHANGED <<active, selected>>

-----------------------------------------------------------------------------
(* Tags.                                                                   *)

\* A series of untag_client, then a series of tag_client.  Each call that
\* changes something runs banning_need_update on the spot, so a client can lose
\* the focus on the way: after the removals, or after the first addition (later
\* additions can only make the focused client visible).
Retag(remove, add) ==
    LET removed == remove \cap tagged
        added == add \ tagged
        kept == tagged \ remove
    IN  /\ removed \cup added # {}
        /\ tagged' = kept \cup add
        /\ lazyBanning' = TRUE
        /\ \E first \in SUBSET added :
              /\ (added # {} => \E p \in added : first = {p})
              /\ UnfocusIf(/\ focus \in managed
                           /\ \/ removed # {} /\ ~IsVisibleWith(focus, kept)
                              \/ added # {} /\ ~IsVisibleWith(focus, kept \cup first))
        /\ UNCHANGED <<managed, active, selected, sticky, minimized, hidden, banned, xfocus>>

TagsInUse == IF InactiveTagsInUse THEN Tag ELSE active

\* luaA_client_tags: c:tags(tags)
SetTags(c, tags) ==
    /\ c \in managed
    /\ Retag({c} \X (active \ tags), {c} \X tags)

\* luaA_tag_clients: t:clients(clients)
SetClients(t, clients) == Retag((Client \ clients) \X {t}, clients \X {t})

\* tag_view
TagView(t, view) ==
    /\ (t \in selected) # view
    /\ selected' = IF view THEN selected \cup {t} ELSE selected \ {t}
    /\ UNCHANGED <<managed, active, tagged, sticky, minimized, hidden, banned, xfocus>>
    /\ BanningNeedUpdate

\* luaA_tag_set_activated(false): a selected tag is deselected.
Deactivate(t) ==
    /\ t \in active
    /\ InactiveTagsInUse \/ ~\E c \in Client : <<c, t>> \in tagged
    /\ active' = active \ {t}
    /\ selected' = selected \ {t}
    /\ UNCHANGED <<managed, tagged, sticky, minimized, hidden, banned, xfocus>>
    /\ IF t \in selected THEN BanningNeedUpdate ELSE UNCHANGED <<focus, needUpdate, lazyBanning>>

\* luaA_tag_set_activated(true)
Activate(t) ==
    /\ t \notin active
    /\ active' = active \cup {t}
    /\ UNCHANGED <<managed, selected, tagged, sticky, minimized, hidden, banned, focus,
                   needUpdate, lazyBanning, xfocus>>

-----------------------------------------------------------------------------
(* Attributes of clients.                                                  *)

\* The members of S, with c in or out of it.
With(S, c, value) == IF value THEN S \cup {c} ELSE S \ {c}

\* client_set_sticky
SetSticky(c, s) ==
    /\ c \in managed /\ (c \in sticky) # s
    /\ sticky' = With(sticky, c, s)
    /\ UNCHANGED <<managed, active, selected, tagged, minimized, hidden, banned, xfocus>>
    /\ BanningNeedUpdate

\* client_set_minimized: minimizing unmaps the client's own window at once, and
\* the server takes the focus away from it.
SetMinimized(c, s) ==
    /\ c \in managed /\ (c \in minimized) # s
    /\ minimized' = With(minimized, c, s)
    /\ xfocus' = IF s /\ xfocus = c THEN None ELSE xfocus
    /\ UNCHANGED <<managed, active, selected, tagged, sticky, hidden, banned>>
    /\ BanningNeedUpdate

\* client_set_hidden
SetHidden(c, s) ==
    /\ c \in managed /\ (c \in hidden) # s
    /\ hidden' = With(hidden, c, s)
    /\ UNCHANGED <<managed, active, selected, tagged, sticky, minimized, banned, xfocus>>
    /\ BanningNeedUpdate

\* event_handle_maprequest for a managed client: an iconified client asks to be
\* shown again.
MapRequest(c) == OnSelectedTags(c) /\ c \notin hidden /\ c \in minimized /\ SetMinimized(c, FALSE)

-----------------------------------------------------------------------------
(* Focus.                                                                  *)

\* client.focus = c: client_focus, which does not ask whether c is visible.
Focus(c) ==
    /\ c \in managed /\ focus # c
    /\ focus' = c
    /\ needUpdate' = TRUE
    /\ UNCHANGED <<managed, active, selected, tagged, sticky, minimized, hidden, banned,
                   lazyBanning, xfocus>>

\* client.focus = nil: client_unfocus
Unfocus ==
    /\ focus # None
    /\ UnfocusIf(TRUE)
    /\ UNCHANGED <<managed, active, selected, tagged, sticky, minimized, hidden, banned,
                   lazyBanning, xfocus>>

\* The root window got the focus or the pointer came from another screen: the
\* focus is set again.
RootFocusIn ==
    /\ needUpdate' = TRUE
    /\ UNCHANGED <<managed, active, selected, tagged, sticky, minimized, hidden, banned,
                   focus, lazyBanning, xfocus>>

-----------------------------------------------------------------------------
(* The refresh.                                                            *)

\* banning_refresh that does not focus a client it shows again: client_unban
\* without its last statement.
BanningRefreshNoRefocus(min, hid, ban, foc, need, lazy, xf) ==
    LET visible == {c \in managed : c \notin min /\ c \notin hid /\ OnSelectedTags(c)}
    IN  IF ~lazy
        THEN /\ banned' = ban /\ focus' = foc /\ needUpdate' = need /\ xfocus' = xf
             /\ lazyBanning' = FALSE
        ELSE /\ banned' = managed \ visible
             /\ LET hides == (managed \ visible) \ ban
                IN  /\ focus' = IF foc \in hides THEN None ELSE foc
                    /\ needUpdate' = (need \/ foc \in hides)
                    /\ xfocus' = IF xf \in hides THEN None ELSE xf
             /\ lazyBanning' = FALSE

\* banning_refresh: the visible clients are unbanned, then the others are
\* banned.  A focused client that is shown again gets the input focus at the
\* next refresh, one that is banned loses the focus.
BanningRefresh(min, hid, ban, foc, need, lazy, xf) ==
    LET visible == {c \in managed : c \notin min /\ c \notin hid /\ OnSelectedTags(c)}
    IN  IF ~lazy
        THEN /\ banned' = ban /\ focus' = foc /\ needUpdate' = need /\ xfocus' = xf
             /\ lazyBanning' = FALSE
        ELSE /\ banned' = managed \ visible
             /\ LET shows == visible \cap ban
                    hides == (managed \ visible) \ ban
                IN  /\ focus' = IF foc \in hides THEN None ELSE foc
                    /\ needUpdate' = (need \/ foc \in shows \cup hides)
                    /\ xfocus' = IF xf \in hides THEN None ELSE xf
             /\ lazyBanning' = FALSE

\* awesome_refresh as far as it is about focus and banning: client_focus_refresh,
\* then banning_refresh.  The focused client, if it is on a selected tag, is
\* unbanned first, and then no longer minimized or hidden.  Minimized is cleared
\* first, and the banning_need_update of that step still sees a hidden client as
\* invisible and unfocuses it.  The server refuses the focus to a window that is
\* not viewable, that is, not mapped or in a frame that is not.
Refresh ==
    LET target == IF needUpdate /\ focus # None /\ OnSelectedTags(focus) THEN focus ELSE None
        unban == {target} \cap banned
        min == minimized \ unban
        hid == hidden \ unban
        ban == banned \ unban
        foc == IF target \in unban /\ target \in minimized \cap hidden THEN None ELSE focus
        lazy == lazyBanning \/ unban \cap (minimized \cup hidden) # {}
        xf == IF ~needUpdate \/ target \in min THEN xfocus ELSE target
    IN  /\ minimized' = min
        /\ hidden' = hid
        /\ BanningRefresh(min, hid, ban, foc, FALSE, lazy, xf)
        /\ UNCHANGED <<managed, active, selected, tagged, sticky>>

Lua ==
    \/ \E c \in Client :
          \/ \E tags \in SUBSET TagsInUse : SetTags(c, tags)
          \/ \E s \in BOOLEAN : SetSticky(c, s) \/ SetMinimized(c, s) \/ SetHidden(c, s)
          \/ Focus(c)
    \/ \E t \in TagsInUse :
          \/ \E clients \in SUBSET managed : SetClients(t, clients)
          \/ \E view \in BOOLEAN : TagView(t, view)
    \/ \E t \in Tag : Activate(t) \/ Deactivate(t)
    \/ Unfocus

Event ==
    \/ \E c \in Client : Manage(c) \/ Unmanage(c) \/ MapRequest(c)
    \/ RootFocusIn

BanningNext == Lua \/ Event \/ Refresh

BanningSpec == BanningInit /\ [][BanningNext]_banningVars

-----------------------------------------------------------------------------
(* Properties.                                                             *)

\* Whenever no banning is pending, exactly the invisible clients are banned:
\* every operation that can change the visibility of a client, however
\* indirectly, has announced it.
BanningFollowsVisibility ==
    ~lazyBanning => \A c \in managed : c \in banned <=> ~IsVisible(c)

\* A focused client that becomes invisible loses the focus in the same step, so
\* that Lua code never sees a hidden client focused by accident.
HidingUnfocuses ==
    [][\A c \in managed :
        (focus = c /\ IsVisible(c) /\ c \in managed' /\ ~IsVisible(c)') => focus' # c]_banningVars

\* Once nothing is pending, a visible focused client really has the keyboard,
\* even if it was focused while it could not be shown.
FocusReachesTheServer ==
    (~needUpdate /\ ~lazyBanning /\ focus # None /\ IsVisible(focus)) => xfocus = focus

\* The lists of the tags hold managed clients only.
TagsHoldManagedClients == \A p \in tagged : p[1] \in managed
=============================================================================

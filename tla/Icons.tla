--------------------------------- MODULE Icons ---------------------------------
(***************************************************************************)
(* The icons of a client.  An application names them in _NET_WM_ICON, a    *)
(* list of images of any number, or by a pixmap in WM_HINTS, which counts  *)
(* only while there has never been an image in the list; Lua code sets one *)
(* of its own.  Changes of the properties are announced by events, and the *)
(* properties are read when an event is handled: by then they may have     *)
(* changed again, or may be gone.                                          *)
(***************************************************************************)
EXTENDS Integers, SequencesExt

CONSTANTS Data,         \* values of _NET_WM_ICON: sequences of numbers
          Pixmaps,      \* [width, height, readable]: what WM_HINTS may name
          Surfaces,     \* [width, height, pixels]: what Lua code sets
          Preferred,    \* awesome.set_preferred_icon_size
          MaxIconSteps, \* bound: changes by the application and by Lua code
          NoIcon        \* no property, no hint, no surface

VARIABLES netWmIcon, hint,  \* the application's properties
          iconEvents,     \* PropertyNotify events to be handled
          hasClient,      \* the window is managed
          icons, haveEwmhIcon, \* of the client
          luaIcon,        \* history: what awesome shows was set by Lua code
          iconSteps

iconsVars == <<netWmIcon, hint, iconEvents, hasClient, icons, haveEwmhIcon, luaIcon, iconSteps>>

IconsTypeOK ==
    /\ netWmIcon \in Data \cup {NoIcon} /\ hint \in Pixmaps \cup {NoIcon}
    /\ iconEvents \in Seq({"data", "hints"}) /\ {hasClient, haveEwmhIcon, luaIcon} \subseteq BOOLEAN
    /\ \A i \in DOMAIN icons : icons[i].width >= 0 /\ icons[i].height >= 0

-----------------------------------------------------------------------------
(* The list.                                                               *)

\* ewmh_window_icon_from_reply_next: the place p of the data begins an icon that is whole.
HasIcon(data, p) ==
    /\ Len(data) - p + 1 > 2
    /\ data[p] >= 1 /\ data[p + 1] >= 1
    /\ data[p] * data[p + 1] <= Len(data) - p + 1 - 2

IconAt(data, p) == [width |-> data[p], height |-> data[p + 1],
                    pixels |-> SubSeq(data, p + 2, p + 1 + data[p] * data[p + 1])]

\* ewmh_window_icon_from_reply: icons up to the first that is not whole.
IconsIn(data) ==
    LET from[p \in 1..(Len(data) + 1)] ==
            IF HasIcon(data, p) THEN <<IconAt(data, p)>> \o from[p + 2 + data[p] * data[p + 1]] ELSE <<>>
    IN  IF data = NoIcon THEN <<>> ELSE from[1]

Size(icon) == Max({icon.width, icon.height})

\* luaA_client_get_icon: whether an icon replaces the one found so far.
IsBetter(size, found, preferred) ==
    \/ found = 0
    \/ found < preferred /\ size > found
    \/ found > preferred /\ size >= preferred /\ size < found

\* The index of the icon that c.icon is, 0 if there is none.
GetIcon(list, preferred) ==
    LET found[i \in 0..Len(list)] ==
            IF i = 0 THEN 0
            ELSE LET best == found[i - 1]
                     bestSize == IF best = 0 THEN 0 ELSE Size(list[best])
                     isEmpty == list[i].width = 0 \/ list[i].height = 0
                 IN  IF ~isEmpty /\ IsBetter(Size(list[i]), bestSize, preferred) THEN i ELSE best
    IN  found[Len(list)]

-----------------------------------------------------------------------------
\* client_set_icon_from_pixmaps: the pixmap and its mask have to be there, with depths that fit.
Usable(pixmap) == pixmap # NoIcon /\ pixmap.readable
FromPixmap(pixmap) == <<[width |-> pixmap.width, height |-> pixmap.height, pixels |-> <<pixmap>>]>>

\* property_update_net_wm_icon and property_update_wm_hints, as functions of the icons and
\* of haveEwmhIcon; and the latter if it forgets to look at haveEwmhIcon.
WithData(s) == IF IconsIn(netWmIcon) = <<>> THEN s
               ELSE [icons |-> IconsIn(netWmIcon), ewmh |-> TRUE, lua |-> FALSE]
WithEveryHint(s) == IF ~Usable(hint) THEN s ELSE [s EXCEPT !.icons = FromPixmap(hint), !.lua = FALSE]
WithHints(s) == IF s.ewmh \/ ~Usable(hint) THEN s
                ELSE [s EXCEPT !.icons = FromPixmap(hint), !.lua = FALSE]

Now == [icons |-> icons, ewmh |-> haveEwmhIcon, lua |-> luaIcon]
Become(s) == icons' = s.icons /\ haveEwmhIcon' = s.ewmh /\ luaIcon' = s.lua

\* client_update_properties, called by client_manage: the hints before the list.
ManageIcons ==
    /\ ~hasClient /\ hasClient' = TRUE
    /\ Become(WithData(WithHints(Now)))
    /\ UNCHANGED <<netWmIcon, hint, iconEvents, iconSteps>>

\* property_handle_propertynotify.
HandleIconEvent ==
    /\ iconEvents # <<>> /\ iconEvents' = Tail(iconEvents)
    /\ Become(IF Head(iconEvents) = "data" THEN WithData(Now) ELSE WithHints(Now))
    /\ UNCHANGED <<netWmIcon, hint, hasClient, iconSteps>>

IconStep == iconSteps < MaxIconSteps /\ iconSteps' = iconSteps + 1
Announce(event) == iconEvents' = IF hasClient THEN Append(iconEvents, event) ELSE iconEvents

AppSetsData(data) ==
    /\ IconStep
    /\ netWmIcon' = data /\ Announce("data")
    /\ UNCHANGED <<hint, hasClient, icons, haveEwmhIcon, luaIcon>>

\* Also for another hint of WM_HINTS, with the same pixmap.
AppSetsHints(pixmap) ==
    /\ IconStep
    /\ hint' = pixmap /\ Announce("hints")
    /\ UNCHANGED <<netWmIcon, hasClient, icons, haveEwmhIcon, luaIcon>>

\* luaA_client_set_icon: nil removes all icons.
LuaSetsIcon(surface) ==
    /\ IconStep /\ hasClient
    /\ icons' = (IF surface = NoIcon THEN <<>> ELSE <<surface>>) /\ luaIcon' = TRUE
    /\ UNCHANGED <<netWmIcon, hint, iconEvents, hasClient, haveEwmhIcon>>

IconsInit ==
    /\ netWmIcon \in Data \cup {NoIcon} /\ hint \in Pixmaps \cup {NoIcon}
    /\ iconEvents = <<>> /\ hasClient = FALSE
    /\ icons = <<>> /\ haveEwmhIcon = FALSE /\ luaIcon = FALSE /\ iconSteps = 0

IconsNext ==
    \/ ManageIcons \/ HandleIconEvent
    \/ \E data \in Data \cup {NoIcon} : AppSetsData(data)
    \/ \E pixmap \in Pixmaps \cup {NoIcon} : AppSetsHints(pixmap)
    \/ \E surface \in Surfaces \cup {NoIcon} : LuaSetsIcon(surface)

IconsSpec == IconsInit /\ [][IconsNext]_iconsVars

-----------------------------------------------------------------------------
Encoded(list) == FlattenSeq([i \in DOMAIN list |-> <<list[i].width, list[i].height>> \o list[i].pixels])

\* The icons that are read are the list that the property begins with, and no icon that is
\* whole follows it: a list that ends in the middle of an icon loses just that one.
IconsAreWhole ==
    netWmIcon # NoIcon =>
        LET read == Encoded(IconsIn(netWmIcon))
        IN  IsPrefix(read, netWmIcon) /\ ~HasIcon(netWmIcon, Len(read) + 1)

\* Once the events are handled, and unless Lua code has set the icon since, a client shows
\* what its application says last: its list, if there is one; else the pixmap, unless there
\* was a list before, one icon of which then stays.  It does not matter in which order the
\* two properties were set, or how often before an event was handled.
IconFollowsApp ==
    hasClient /\ iconEvents = <<>> /\ ~luaIcon =>
        CASE IconsIn(netWmIcon) # <<>> -> icons = IconsIn(netWmIcon)
          [] haveEwmhIcon -> icons \in {IconsIn(data) : data \in Data} \ {<<>>}
          [] Usable(hint) -> icons = FromPixmap(hint)
          [] OTHER -> icons \in {<<>>} \cup {FromPixmap(p) : p \in {q \in Pixmaps : Usable(q)}}

\* c.icon is the smallest icon that is large enough, or the largest if none is, and is there
\* if there is any that is not empty.
ClosestIconIsShown ==
    \A preferred \in Preferred :
        LET shown == GetIcon(icons, preferred)
            real == {i \in DOMAIN icons : icons[i].width > 0 /\ icons[i].height > 0}
            enough == {i \in real : Size(icons[i]) >= preferred}
        IN  IF real = {} THEN shown = 0
            ELSE /\ shown \in real
                 /\ IF enough # {} THEN shown \in enough /\ \A i \in enough : Size(icons[shown]) <= Size(icons[i])
                    ELSE \A i \in real : Size(icons[i]) <= Size(icons[shown])

\* Together: icons are read whole, follow the application, and the one that fits is shown.
IconsInv == IconsTypeOK /\ IconsAreWhole /\ IconFollowsApp /\ ClosestIconIsShown
===============================================================================

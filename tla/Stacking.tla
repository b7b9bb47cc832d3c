------------------------------ MODULE Stacking ------------------------------
(***************************************************************************)
(* From the stacking list to the X server's stacking order: the layers of  *)
(* the clients, the drawins (wibars, popups), and stack_refresh, which     *)
(* runs once per main loop iteration if stack_windows asked for it.        *)
(*                                                                         *)
(* The X server's order is an independent piece of state: a refresh only   *)
(* sends "put this window right above that one" requests, never a whole    *)
(* order, and a request that names the window itself as the sibling is     *)
(* refused by the server.  A loop-free transient_for is what ClientList    *)
(* guarantees; here any loop-free value may be set.                        *)
(***************************************************************************)
EXTENDS Naturals, SequencesExt

CONSTANTS Client,   \* the clients that may be managed
          Dialog,   \* those whose WM_TRANSIENT_FOR may be set
          Desktop,  \* those that may take the window type DESKTOP
          Drawin,   \* the drawins: their windows exist from the start
          Layered,  \* those that may be put into a special layer
          Special,  \* the special layers in use, a subset of SpecialLayers
          Nobody

SpecialLayers == {"below", "above", "fullscreen", "ontop"}

ASSUME StackingAssumption ==
    /\ Dialog \cup Desktop \cup Layered \subseteq Client
    /\ Client \cap Drawin = {} /\ Nobody \notin Client
    /\ Special \subseteq SpecialLayers

VARIABLES stack,         \* globalconf.stack, bottom first
          transientFor,  \* c->transient_for
          special,       \* the flags c->below, c->above, c->fullscreen, c->ontop
          desktops,      \* the clients whose type is WINDOW_TYPE_DESKTOP
          focus,         \* globalconf.focus.client
          drawins,       \* globalconf.drawins: the visible drawins
          ontopDrawins,  \* the drawins with ontop set
          needRefresh,   \* need_stack_refresh
          xorder,        \* the X server's order of frames and drawin windows
          unasked        \* history: a layer or a parent has changed, without a
                         \* call of stack_windows, since the last refresh

stackingVars == <<stack, transientFor, special, desktops, focus, drawins, ontopDrawins,
          needRefresh, xorder, unasked>>
layerVars == <<transientFor, special, desktops, focus>>
drawinVars == <<drawins, ontopDrawins>>

Lists == INSTANCE ClientList WITH
            Window <- Client, clients <- stack, hint <- transientFor, None <- Nobody

Managed == Range(stack)

\* What transient_for may be: ClientList proves that it never has a loop.
Forests == {tf \in [Client -> Client \cup {Nobody}] : Lists!Forest(tf)}

StackingTypeOK ==
    /\ stack \in Seq(Client) /\ IsInjective(stack)
    /\ transientFor \in [Client -> Managed \cup {Nobody}]
    /\ special \in [Client -> SUBSET SpecialLayers]
    /\ desktops \subseteq Managed
    /\ focus \in Managed \cup {Nobody}
    /\ drawins \in Seq(Drawin) /\ IsInjective(drawins)
    /\ ontopDrawins \in SUBSET Drawin
    /\ {needRefresh, unasked} \subseteq BOOLEAN
    /\ xorder \in SetToSeqs(Managed \cup Drawin)

StackingInit ==
    /\ stack = <<>>
    /\ transientFor = [c \in Client |-> Nobody]
    /\ special = [c \in Client |-> {}]
    /\ desktops = {}
    /\ focus = Nobody
    /\ drawins = <<>>
    /\ ontopDrawins = {}
    /\ needRefresh = FALSE
    /\ xorder \in SetToSeqs(Drawin)
    /\ unasked = FALSE

-----------------------------------------------------------------------------
(* The requests of one refresh.                                            *)

\* window_layer_t, bottom first.
IGNORE == 0
DESKTOP == 1
BELOW == 2
NORMAL == 3
ABOVE == 4
FULLSCREEN == 5
ONTOP == 6

\* client_layer_translator: the first test that holds decides.
Layer(c) == IF "ontop" \in special[c] THEN ONTOP
            ELSE IF "fullscreen" \in special[c] /\ focus = c THEN FULLSCREEN
            ELSE IF "above" \in special[c] THEN ABOVE
            ELSE IF "below" \in special[c] THEN BELOW
            ELSE IF transientFor[c] # Nobody THEN IGNORE
            ELSE IF c \in desktops THEN DESKTOP
            ELSE NORMAL

\* stack_client_above: a client, then each of its transients with its own
\* family, in the order of the stack.
Family ==
    LET family[c \in Managed] ==
            LET kids == SelectSeq(stack, LAMBDA w : transientFor[w] = c)
            IN  FoldLeft(LAMBDA visits, k : visits \o family[k], <<c>>, kids)
    IN  family

LayerVisits(layer) ==
    LET members == SelectSeq(stack, LAMBDA c : Layer(c) = layer)
    IN  FoldLeft(LAMBDA visits, c : visits \o Family[c], <<>>, members)

DrawinVisits(ontop) == SelectSeq(drawins, LAMBDA d : (d \in ontopDrawins) = ontop)

\* As Visits, with the drawins that are not ontop left for the end.
VisitsDrawinsLast ==
    FoldLeft(LAMBDA visits, layer : visits \o LayerVisits(layer),
             LayerVisits(DESKTOP), <<BELOW, NORMAL, ABOVE, FULLSCREEN, ONTOP>>)
        \o DrawinVisits(FALSE) \o DrawinVisits(TRUE)

\* The windows that stack_refresh visits, in order: a client may come twice,
\* with its parent and on its own.
Visits ==
    FoldLeft(LAMBDA visits, layer : visits \o LayerVisits(layer),
             LayerVisits(DESKTOP) \o DrawinVisits(FALSE), <<BELOW, NORMAL, ABOVE, FULLSCREEN, ONTOP>>)
        \o DrawinVisits(TRUE)

\* stack_window_above, as the X server executes it.  A window that is to go
\* above itself is refused (BadMatch) and stays where it is.
PutAbove(order, w, previous) ==
    IF w = previous THEN order
    ELSE LET rest == RemoveFirst(order, w) IN InsertAt(rest, Lists!PositionIn(rest, previous) + 1, w)

-----------------------------------------------------------------------------
(* Operations.                                                             *)

\* client_manage: the frame goes to the bottom of the X order and the client to
\* the bottom of the stack.  It may come with a parent, with an initial state
\* from its _NET_WM_STATE, with the type DESKTOP (not for a transient: the type
\* DIALOG is set first and wins), and with waiting clients that get it as their
\* parent.
ManageStacked(c, parent, kids, initial, isDesktop) ==
    /\ c \notin Managed
    /\ parent \in Managed \cup {Nobody} /\ (parent # Nobody => c \in Dialog)
    /\ kids \subseteq {k \in Managed \cap Dialog : transientFor[k] = Nobody}
    /\ transientFor' = [k \in Client |->
            IF k = c THEN parent ELSE IF k \in kids THEN c ELSE transientFor[k]]
    /\ transientFor' \in Forests
    /\ initial # {} => c \in Layered
    /\ special' = [special EXCEPT ![c] = initial]
    /\ isDesktop => c \in Desktop /\ parent = Nobody
    /\ desktops' = IF isDesktop THEN desktops \cup {c} ELSE desktops
    /\ stack' = Lists!StackPush(stack, c)
    /\ xorder' = <<c>> \o xorder
    /\ needRefresh' = TRUE
    /\ UNCHANGED <<focus, drawinVars, unasked>>

\* client_unmanage, as far as stacking goes.  The frame is destroyed at the end
\* of the refresh, and nothing is stacked relative to it meanwhile.
UnmanageStacked(c) ==
    /\ c \in Managed
    /\ transientFor' = [k \in Client |->
            IF k = c \/ transientFor[k] = c THEN Nobody ELSE transientFor[k]]
    /\ special' = [special EXCEPT ![c] = {}]
    /\ desktops' = desktops \ {c}
    /\ focus' = IF focus = c THEN Nobody ELSE focus
    /\ stack' = RemoveFirst(stack, c)
    /\ xorder' = RemoveFirst(xorder, c)
    /\ needRefresh' = TRUE
    /\ UNCHANGED <<drawinVars, unasked>>

\* property_update_wm_transient_for, for a property that is there or was deleted.
\* Only dropping the flag above asks for a refresh.
PropertyTransientFor(c, parent, present) ==
    /\ c \in Managed \cap Dialog
    /\ parent \in Managed \cup {Nobody} /\ (~present => parent = Nobody)
    /\ transientFor' = [transientFor EXCEPT ![c] = parent]
    /\ transientFor' \in Forests
    /\ special' = IF present THEN [special EXCEPT ![c] = @ \ {"above"}] ELSE special
    /\ needRefresh' = (needRefresh \/ special' # special)
    /\ unasked' = (unasked \/ (transientFor' # transientFor /\ special' = special))
    /\ UNCHANGED <<stack, desktops, focus, drawinVars, xorder>>

\* client_set_above, _below, _ontop, _fullscreen: setting one clears the others.
SetSpecial(c, flag, on) ==
    /\ c \in Managed \cap Layered /\ (flag \in special[c]) # on
    /\ special' = [special EXCEPT ![c] = IF on THEN {flag} ELSE @ \ {flag}]
    /\ needRefresh' = TRUE
    /\ UNCHANGED <<stack, transientFor, desktops, focus, drawinVars, xorder, unasked>>

\* client_set_modal, client_set_maximized: nothing that is modelled, but a request.
StackWindows ==
    /\ stack # <<>>
    /\ needRefresh' = TRUE
    /\ UNCHANGED <<stack, layerVars, drawinVars, xorder, unasked>>

\* client_focus_update and client_unfocus_internal: the focus moves to c, or away.
SetFocus(c) ==
    /\ c \in Managed \cup {Nobody}
    /\ c # focus
    /\ focus' = c
    /\ UNCHANGED <<stack, transientFor, special, desktops, drawinVars, needRefresh, xorder>>
    /\ unasked' = (unasked \/ \E k \in {c, focus} \ {Nobody} : Layer(k) # Layer(k)')

Raise(c) ==
    /\ c \in Managed
    /\ ~(transientFor[c] = Nobody /\ Last(stack) = c)
    /\ \E lineage \in Lists!Lineages(c) : stack' = FoldLeft(Lists!StackAppend, stack, lineage)
    /\ needRefresh' = TRUE
    /\ UNCHANGED <<layerVars, drawinVars, xorder, unasked>>

Lower(c) ==
    /\ c \in Managed
    /\ Head(stack) # c
    /\ \E lineage \in Lists!Lineages(c) :
            stack' = FoldRight(LAMBDA w, st : Lists!StackPush(st, w), lineage, stack)
    /\ needRefresh' = TRUE
    /\ UNCHANGED <<layerVars, drawinVars, xorder, unasked>>

\* drawin_map.
DrawinMap(d) ==
    /\ d \notin Range(drawins)
    /\ drawins' = Append(drawins, d)
    /\ needRefresh' = TRUE
    /\ UNCHANGED <<stack, layerVars, ontopDrawins, xorder, unasked>>

\* drawin_unmap: the window keeps its place in the X order.
DrawinUnmap(d) ==
    /\ d \in Range(drawins)
    /\ drawins' = RemoveFirst(drawins, d)
    /\ UNCHANGED <<stack, layerVars, ontopDrawins, needRefresh, xorder, unasked>>

\* luaA_drawin_set_ontop.
DrawinSetOntop(d) ==
    /\ ontopDrawins' = (ontopDrawins \ {d}) \cup ({d} \ ontopDrawins)
    /\ needRefresh' = TRUE
    /\ UNCHANGED <<stack, layerVars, drawins, xorder, unasked>>

\* stack_refresh.  The first window visited is not moved.
StackRefresh ==
    /\ needRefresh
    /\ LET visits == Visits
       IN  xorder' = FoldLeftDomain(LAMBDA order, i :
                IF i = 1 THEN order ELSE PutAbove(order, visits[i], visits[i - 1]), xorder, visits)
    /\ needRefresh' = FALSE
    /\ unasked' = FALSE
    /\ UNCHANGED <<stack, layerVars, drawinVars>>

StackingNext ==
    \/ \E c \in Client \ Managed, parent \in Managed \cup {Nobody}, kids \in SUBSET Managed,
        initial \in {{}} \cup {{f} : f \in Special}, isDesktop \in BOOLEAN :
        ManageStacked(c, parent, kids, initial, isDesktop)
    \/ \E c \in Client : UnmanageStacked(c) \/ Raise(c) \/ Lower(c)
    \/ \E c \in Client, parent \in Client \cup {Nobody}, present \in BOOLEAN :
        PropertyTransientFor(c, parent, present)
    \/ \E c \in Client, flag \in Special, on \in BOOLEAN : SetSpecial(c, flag, on)
    \/ \E c \in Client \cup {Nobody} : SetFocus(c)
    \/ \E d \in Drawin : DrawinMap(d) \/ DrawinUnmap(d) \/ DrawinSetOntop(d)
    \/ StackWindows
    \/ StackRefresh

StackingSpec == StackingInit /\ [][StackingNext]_stackingVars

-----------------------------------------------------------------------------
(* Properties.                                                             *)

Above(v, w) == Lists!Below(xorder, w, v)

\* The layer a client ends up in: a transient is never below its parents.
EffectiveLayer(c) == LET layers == {Layer(a) : a \in Lists!Ancestors(transientFor, c)}
                     IN  CHOOSE m \in layers : \A l \in layers : l <= m

\* Whenever no refresh is pending, the windows are where the layers say, through
\* any history of managing, restacking and flag changes, except for the changes
\* that ask for no refresh: every other operation calls stack_windows when it
\* has to.
OrderSettled == ~needRefresh /\ ~unasked

\* A visible transient is above its parent in the X order once things settled.
TransientsOnTop == OrderSettled =>
    \A c \in Managed : transientFor[c] # Nobody => Above(c, transientFor[c])

\* Clients of a higher layer are above clients of a lower one, a transient being
\* lifted into its parent's layer if that one is higher.  A wibar (a drawin that
\* is not ontop) is above the desktop windows and below all the other clients,
\* an ontop drawin is above every client.
LayersRespected == OrderSettled =>
    /\ \A a, b \in Managed : EffectiveLayer(a) > EffectiveLayer(b) => Above(a, b)
    /\ \A d \in Range(drawins), c \in Managed :
           Above(d, c) <=> d \in ontopDrawins \/ EffectiveLayer(c) = DESKTOP

\* Inside a layer, clients without a parent are in the order of the stack, with
\* which EWMH's _NET_CLIENT_LIST_STACKING and c:raise() speak.
StackOrderKept == OrderSettled =>
    \A a, b \in Managed :
        (/\ transientFor[a] = Nobody /\ transientFor[b] = Nobody
         /\ Layer(a) = Layer(b) /\ Lists!Below(stack, b, a)) => Above(a, b)

\* Together: types, and once things settled, the windows are where layers, parents and stack want them.
StackingInv == StackingTypeOK /\ TransientsOnTop /\ LayersRespected /\ StackOrderKept
=============================================================================

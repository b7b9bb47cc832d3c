------------------------------ MODULE ClientList ------------------------------
(***************************************************************************)
(* The client list, the stacking list and the transient_for relation of    *)
(* awesome: globalconf.clients, globalconf.stack and the two fields        *)
(* client_t.transient_for_window (the hint) and client_t.transient_for     *)
(* (the resolved pointer).                                                 *)
(*                                                                         *)
(* A client is identified with the X window it manages.  The relation      *)
(* matters because client_raise, luaA_client_lower and stack_client_above  *)
(* follow transient_for pointers without any bound: a loop in it hangs the *)
(* window manager, and a pointer to an unmanaged client is a dangling one. *)
(***************************************************************************)
EXTENDS SequencesExt

CONSTANTS Window,  \* the X windows that may be managed
          None     \* XCB_NONE, and the null client_t pointer

ASSUME NoneAssumption == None \notin Window

VARIABLES clients,       \* globalconf.clients: the last managed comes first
          stack,         \* globalconf.stack: the bottom window comes first
          hint,          \* [Window -> Window or None]: c->transient_for_window
          transientFor   \* [Window -> Window or None]: c->transient_for

vars == <<clients, stack, hint, transientFor>>

Managed == Range(clients)

RelationTypeOK ==
    /\ clients \in Seq(Window)
    /\ hint \in [Window -> Window \cup {None}]
    /\ transientFor \in [Window -> Window \cup {None}]

TypeOK == RelationTypeOK /\ stack \in Seq(Window)

Init == /\ clients = <<>>
        /\ stack = <<>>
        /\ hint = [w \in Window |-> None]
        /\ transientFor = [w \in Window |-> None]

-----------------------------------------------------------------------------
(* The transient_for relation.                                             *)

\* The windows met when following tf from w, w included.
Ancestors(tf, w) ==
    {x \in Window : \A S \in SUBSET Window :
                        (w \in S /\ \A y \in S : tf[y] \in Window => tf[y] \in S)
                            => x \in S}

\* client_find_transient_for accepts tc as the parent of c: the walk that
\* starts at tc ends, within len + 1 iterations, without meeting c.
EndsWithout(tf, c, tc, len) ==
    LET walk == Ancestors(tf, tc)
    IN  /\ c \notin walk
        /\ \E x \in walk : tf[x] = None
        /\ Cardinality(walk) <= len

\* As FindTransientFor, trusting the client and leaving the walk out.
FindTransientForUnchecked(tf, managed, len, c, h) == IF h \in managed THEN h ELSE None

\* client_find_transient_for: the parent that the hint h of c resolves to.
FindTransientFor(tf, managed, len, c, h) ==
    IF h \in managed /\ EndsWithout(tf, c, h, len) THEN h ELSE None

-----------------------------------------------------------------------------
(* The stacking list.                                                      *)

StackAppend(st, c) == Append(RemoveFirst(st, c), c)
StackPush(st, c) == <<c>> \o RemoveFirst(st, c)

\* The chains from a root of the relation down to c, each ancestor once: there
\* is exactly one as long as the relation has no loop.
Lineages(c) ==
    {s \in [1..Cardinality(Ancestors(transientFor, c)) -> Ancestors(transientFor, c)] :
        /\ IsInjective(s)
        /\ s[Len(s)] = c
        /\ \A i \in 1..(Len(s) - 1) : transientFor[s[i + 1]] = s[i]}

\* client_raise: the outermost ancestor is appended first, the client last.
ClientRaise(c) ==
    /\ \E lineage \in Lineages(c) : stack' = FoldLeft(StackAppend, stack, lineage)
    /\ UNCHANGED <<clients, hint, transientFor>>

-----------------------------------------------------------------------------
(* Operations.                                                             *)

\* client_manage without its loop over the clients that were waiting for w.
ManageNobodyWaits(w, h) ==
    /\ w \notin Managed
    /\ clients' = <<w>> \o clients
    /\ hint' = [hint EXCEPT ![w] = h]
    /\ transientFor' = [transientFor EXCEPT ![w] =
            FindTransientFor(transientFor, Managed \cup {w}, Len(stack), w, h)]
    /\ stack' = StackPush(stack, w)

\* client_manage: w becomes the first client, its hint h is read and resolved,
\* the clients that were waiting for w are resolved again, and only then does
\* w enter the stack, at the bottom.  The clients resolved again had no parent,
\* so their order in the loop does not matter.
Manage(w, h) ==
    LET managed == Managed \cup {w}
        tf == [transientFor EXCEPT ![w] = FindTransientFor(transientFor, managed, Len(stack), w, h)]
    IN  /\ w \notin Managed
        /\ clients' = <<w>> \o clients
        /\ hint' = [hint EXCEPT ![w] = h]
        /\ transientFor' = [c \in Window |->
                IF c \in managed /\ hint'[c] = w
                THEN FindTransientFor(tf, managed, Len(stack), c, w)
                ELSE tf[c]]
        /\ stack' = StackPush(stack, w)

\* client_unmanage without its first loop.
UnmanageDangling(w) ==
    /\ w \in Managed
    /\ transientFor' = [transientFor EXCEPT ![w] = None]
    /\ clients' = RemoveFirst(clients, w)
    /\ stack' = RemoveFirst(stack, w)
    /\ hint' = [hint EXCEPT ![w] = None]

\* client_unmanage: the clients that point at w are reset, then w leaves both
\* lists.  The object is invalid from there on, so its own fields are cleared.
Unmanage(w) ==
    /\ w \in Managed
    /\ transientFor' = [c \in Window |->
            IF c = w \/ transientFor[c] = w THEN None ELSE transientFor[c]]
    /\ clients' = RemoveFirst(clients, w)
    /\ stack' = RemoveFirst(stack, w)
    /\ hint' = [hint EXCEPT ![w] = None]

\* property_update_wm_transient_for: a client window changes or deletes (None)
\* its WM_TRANSIENT_FOR property.
PropertyTransientFor(w, h) ==
    /\ w \in Managed
    /\ hint' = [hint EXCEPT ![w] = h]
    /\ transientFor' =
        [transientFor EXCEPT ![w] = FindTransientFor(transientFor, Managed, Len(stack), w, h)]
    /\ UNCHANGED <<clients, stack>>

\* c:raise().  Nothing is done for a parentless client that is on top already.
Raise(c) ==
    /\ c \in Managed
    /\ ~(transientFor[c] = None /\ Last(stack) = c)
    /\ ClientRaise(c)

\* The part of event_handle_maprequest about a client that is managed already.
MapRequestManaged(c) == c \in Managed /\ ClientRaise(c)

\* c:lower(): c is pushed to the bottom, then each ancestor below it.
Lower(c) ==
    /\ c \in Managed
    /\ Head(stack) # c
    /\ \E lineage \in Lineages(c) : stack' = FoldRight(LAMBDA w, st : StackPush(st, w), lineage, stack)
    /\ UNCHANGED <<clients, hint, transientFor>>

\* luaA_client_swap: the two clients exchange their places in the client list.
Swap(c, d) ==
    /\ c \in Managed /\ d \in Managed /\ c # d
    /\ \E i, j \in DOMAIN clients :
        /\ clients[i] = c /\ clients[j] = d
        /\ clients' = [clients EXCEPT ![i] = d, ![j] = c]
    /\ UNCHANGED <<stack, hint, transientFor>>

Next == \/ \E w \in Window, h \in Window \cup {None} :
              Manage(w, h) \/ PropertyTransientFor(w, h)
        \/ \E w \in Window :
              Unmanage(w) \/ Raise(w) \/ MapRequestManaged(w) \/ Lower(w)
        \/ \E c, d \in Window : Swap(c, d)

Spec == Init /\ [][Next]_vars

-----------------------------------------------------------------------------
(* Properties.                                                             *)

\* No set of windows in which everyone's parent is in the set: whoever follows
\* transient_for from any window reaches the end.  This is what the unbounded
\* walks of client_raise, luaA_client_lower and stack_client_above rely on.
Forest(tf) == \A S \in SUBSET Window : S # {} => \E x \in S : tf[x] \notin S

NoTransientLoop == Forest(transientFor)

\* transient_for never points at a client that is gone, belongs to managed
\* clients only, and is never anything but what the client's hint says.
TransientForIsLive ==
    \A c \in Window : transientFor[c] # None =>
        /\ c \in Managed
        /\ transientFor[c] \in Managed
        /\ transientFor[c] = hint[c]

\* The client list and the stacking list hold the same clients, each once,
\* whatever the order of managing, unmanaging, swapping and restacking.
SameClients ==
    /\ IsInjective(clients)
    /\ IsInjective(stack)
    /\ Range(stack) = Managed

\* A hint is refused only for a reason: whenever the hint of a client is
\* resolved (the client is new, its hint changes, or the window it names gets
\* managed), the client gets that parent, unless this would close a loop.  In
\* particular the bound of the walk, the length of the stack, which the client
\* being managed has not entered yet, never cuts a legitimate chain short.
HintHonoured ==
    [][\A c \in Managed' :
        (/\ \/ c \notin Managed
            \/ hint'[c] # hint[c]
            \/ hint'[c] \notin Managed
         /\ hint'[c] \in Managed'
         /\ Forest([transientFor' EXCEPT ![c] = hint'[c]]))
            => transientFor'[c] = hint'[c]]_vars

\* Position of a window in a stacking list.
PositionIn(st, w) == CHOOSE i \in DOMAIN st : st[i] = w
Below(st, v, w) == PositionIn(st, v) < PositionIn(st, w)

\* Restacking moves whole chains of transients: after a raise the client is on
\* top with its ancestors right below it, each above its own parent, and after
\* a lower they are at the bottom, in the same order; the other clients keep
\* their places relative to each other.
RestackMovesTheFamily ==
    [][\A c \in Managed : (Raise(c) \/ MapRequestManaged(c) \/ Lower(c)) =>
        LET family == Ancestors(transientFor, c)
        IN  /\ \A v, w \in Managed :
                /\ (w \in family /\ transientFor[w] = v) => Below(stack', v, w)
                /\ (v \notin family /\ w \notin family)
                        => (Below(stack, v, w) <=> Below(stack', v, w))
            /\ \A v \in Managed \ family, w \in family :
                Below(stack', v, w) <=> ~Lower(c)]_vars

\* Together with the agreement of the two lists: whatever manages, unmanages or restacks
\* clients respects their hints and keeps their families together.
ListsFollowTheRelation == []SameClients /\ HintHonoured /\ RestackMovesTheFamily
=============================================================================

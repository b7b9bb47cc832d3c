---------------------------- MODULE SelectionOwner ----------------------------
(***************************************************************************)
(* Who owns a selection: objects/selection_acquire.c, which owns it for    *)
(* Lua code and gives it up, and objects/selection_watcher.c, which tells  *)
(* Lua code when its owner changes.                                        *)
(*                                                                         *)
(* The server decides about ownership and three parties ask it to: other   *)
(* applications, the acquire objects and, since nothing is sent to a       *)
(* client about its own changes, acquire objects replacing each other.     *)
(* Acquiring blocks awesome for a round trip during which the others go    *)
(* on; releasing first calls Lua code, which may acquire or release again. *)
(* Selections have nothing to do with each other: this is one of them,     *)
(* other than WM_Sn.                                                       *)
(***************************************************************************)
EXTENDS Naturals, FiniteSets, SequencesExt

CONSTANTS Acquire,          \* the selection_acquire objects; each has one window
          Watcher,          \* the selection_watcher objects; each has one window
          MaxOwnerChanges,  \* bound: what applications and watchers' users ever do
          MaxReleases,      \* bound: releases of one object, each by a handler of the one before
          None

ASSUME OwnershipAssumption ==
    /\ Acquire \cap {"app", "none", None} = {} /\ None \notin {"app", "none"}
    /\ IsFiniteSet(Watcher) /\ Watcher \cap {"clear", "request"} = {}

VARIABLES owner,        \* the server's: an acquire object's window, "app" or None
          behind,       \* awesome's timestamp is older than the selection's last change
          watching,     \* the watchers whose windows have selected for XFixes events
          ownerRequests, \* sent by awesome and not executed
          reply,        \* the reply to GetSelectionOwner, "none" while there is none
          ownerEvents,  \* sent to awesome and not handled
          life,         \* of an acquire object: "new", "live" (it has a window) or "dead"
          acquired,     \* the objects whose selection->selection is not NONE
          registered,   \* the object in the table of active acquire objects
          calls,        \* what C code is in the middle of, innermost last
          active,       \* the watchers that are active
          told,         \* what a watcher has last told since it became active
          outdated,     \* history: watchers made active before the traces of the last time were gone
          confused,     \* history: one of the two known races has happened
          ownerChanges

serverOwnerVars == <<owner, behind, watching, ownerRequests, reply>>
acquireVars == <<life, acquired, registered, calls>>
watcherVars == <<active, told, outdated>>
ownershipVars == <<serverOwnerVars, ownerEvents, acquireVars, watcherVars, confused, ownerChanges>>

SelectionOwnerTypeOK ==
    /\ owner \in Acquire \cup {"app", None}
    /\ behind \in BOOLEAN /\ confused \in BOOLEAN
    /\ watching \subseteq Watcher /\ active \subseteq Watcher /\ outdated \subseteq Watcher
    /\ ownerEvents \in Seq({"clear", "request"} \X Acquire \cup Watcher \X BOOLEAN)
    /\ life \in [Acquire -> {"new", "live", "dead"}]
    /\ acquired \subseteq Acquire /\ registered \in Acquire \cup {None}
    /\ calls \in Seq({"asked", "register", "release"} \X Acquire)
    /\ told \in [Watcher -> BOOLEAN \cup {None}]

AcquireInit ==
    /\ life = [o \in Acquire |-> "new"] /\ acquired = {} /\ registered = None /\ calls = <<>>

WatcherInit == active = {} /\ told = [w \in Watcher |-> None] /\ outdated = {}

OwnershipInit ==
    /\ owner = None /\ behind = FALSE
    /\ watching = {} /\ ownerRequests = <<>> /\ reply = "none" /\ ownerEvents = <<>>
    /\ AcquireInit /\ WatcherInit
    /\ confused = FALSE /\ ownerChanges = 0

-----------------------------------------------------------------------------
(* The server.  It reports each change of an owner to the watching windows *)
(* that have asked for this kind of change, in an order of its own.        *)

ChangeKinds == {"set", "destroy", "close"}

\* The mask that a watcher selects.
Watched == ChangeKinds

Notices(kind, isOwned) ==
    IF kind \in Watched THEN [i \in 1..Cardinality(watching) |-> <<SetToSeq(watching)[i], isOwned>>]
                        ELSE <<>>

\* A request to own a selection is ignored if it is older than the last change.
Own(o) ==
    IF behind THEN UNCHANGED <<owner, ownerEvents>>
    ELSE owner' = o /\ ownerEvents' = ownerEvents \o Notices("set", TRUE)

\* The owner's window is destroyed; no SelectionClear is sent.
Destroy(o) ==
    IF owner # o THEN UNCHANGED <<owner, ownerEvents>>
    ELSE owner' = None /\ ownerEvents' = ownerEvents \o Notices("destroy", FALSE)

ExecuteOwnerRequest ==
    /\ ownerRequests # <<>>
    /\ ownerRequests' = Tail(ownerRequests)
    /\ LET op == Head(ownerRequests)[1]
           x  == Head(ownerRequests)[2]
       IN  /\ \/ op = "own" /\ Own(x)
              \/ op = "destroy" /\ Destroy(x)
              \/ op \in {"who", "watch", "unwatch"} /\ UNCHANGED <<owner, ownerEvents>>
           /\ reply' = IF op = "who" THEN owner ELSE reply
           /\ watching' = CASE op = "watch" -> watching \cup {x}
                            [] op = "unwatch" -> watching \ {x}
                            [] OTHER -> watching
    /\ UNCHANGED <<behind, acquireVars, watcherVars, confused, ownerChanges>>

-----------------------------------------------------------------------------
(* Applications.                                                           *)

OwnerChange == ownerChanges < MaxOwnerChanges /\ ownerChanges' = ownerChanges + 1

\* An application takes the selection; awesome is told if it was the owner.
AppTakes ==
    /\ OwnerChange
    /\ owner' = "app"
    /\ behind' \in BOOLEAN
    /\ ownerEvents' = (IF owner \in Acquire THEN Append(ownerEvents, <<"clear", owner>>) ELSE ownerEvents)
                         \o Notices("set", TRUE)
    /\ UNCHANGED <<watching, ownerRequests, reply, acquireVars, watcherVars, confused>>

\* The owning application gives it up, destroys its window or exits.
AppLoses ==
    /\ owner = "app" /\ OwnerChange
    /\ owner' = None
    /\ \E kind \in ChangeKinds : ownerEvents' = ownerEvents \o Notices(kind, FALSE)
    /\ UNCHANGED <<behind, watching, ownerRequests, reply, acquireVars, watcherVars, confused>>

\* An application asks for the contents of the selection when awesome owns it.
AppAsks ==
    /\ owner \in Acquire /\ OwnerChange
    /\ ownerEvents' = Append(ownerEvents, <<"request", owner>>)
    /\ UNCHANGED <<serverOwnerVars, acquireVars, watcherVars, confused>>

-----------------------------------------------------------------------------
(* Acquire objects.                                                        *)

\* Lua code runs from the main loop, and as a handler of the signal "release".
Innermost == IF calls = <<>> THEN <<"main loop", None>> ELSE Last(calls)
LuaRuns == Innermost[1] \in {"main loop", "release"}

\* luaA_selection_acquire_new, up to the reply it waits for.
AcquireBegin(o) ==
    /\ LuaRuns /\ life[o] = "new"
    /\ life' = [life EXCEPT ![o] = "live"]
    /\ acquired' = acquired \cup {o}
    /\ ownerRequests' = ownerRequests \o <<<<"own", o>>, <<"who", o>>>>
    /\ calls' = Append(calls, <<"asked", o>>)
    /\ UNCHANGED <<owner, behind, watching, reply, ownerEvents, registered, watcherVars, confused,
                   ownerChanges>>

\* Without telling the older object.
SupersedeSilently(o) == registered' = o /\ calls' = Front(calls)

\* The server does not tell a client about its own changes.
Supersede(o) ==
    /\ calls' = Front(calls) \o <<<<"register", o>>, <<"release", registered>>>>
    /\ UNCHANGED registered

\* The reply: if somebody else is the owner, the new object dies; else an older
\* object is released first.  It is a known race that the new window was the owner
\* but is no longer, so that the older one, registered or to be so, is not either; another,
\* that the new one takes over in a handler of "release" while an acquire object outside
\* of it is to be registered.
AcquireEnd ==
    /\ Innermost[1] = "asked" /\ reply # "none"
    /\ reply' = "none"
    /\ LET o == Innermost[2]
       IN  IF reply # o
           THEN /\ life' = [life EXCEPT ![o] = "dead"]
                /\ ownerRequests' = Append(ownerRequests, <<"destroy", o>>)
                /\ calls' = Front(calls)
                /\ confused' = (confused \/ /\ registered # None \/ \E i \in DOMAIN calls : calls[i][1] = "register"
                                            /\ <<"clear", o>> \in Range(ownerEvents))
                /\ UNCHANGED registered
           ELSE /\ IF registered = None THEN registered' = o /\ calls' = Front(calls) ELSE Supersede(o)
                /\ confused' = (confused \/ \E i \in DOMAIN calls : calls[i][1] = "register")
                /\ UNCHANGED <<life, ownerRequests>>
    /\ UNCHANGED <<owner, behind, watching, ownerEvents, acquired, watcherVars, ownerChanges>>

\* ... and once that release is done, the new object is registered, whatever
\* the handlers of "release" have acquired meanwhile.
Register ==
    /\ Innermost[1] = "register"
    /\ registered' = Innermost[2]
    /\ calls' = Front(calls)
    /\ UNCHANGED <<serverOwnerVars, ownerEvents, life, acquired, watcherVars, confused, ownerChanges>>

\* selection_release: the signal is emitted first; then the object dies, and whatever
\* object is registered for its selection is forgotten.
Release(o) == calls' = Append(calls, <<"release", o>>)

ReleaseEnd ==
    /\ Innermost[1] = "release"
    /\ LET o == Innermost[2]
       IN  /\ ownerRequests' = IF life[o] = "live" THEN Append(ownerRequests, <<"destroy", o>>)
                                                   ELSE ownerRequests
           /\ life' = [life EXCEPT ![o] = "dead"]
           /\ registered' = IF o \in acquired THEN None ELSE registered
           /\ acquired' = acquired \ {o}
    /\ calls' = Front(calls)
    /\ UNCHANGED <<owner, behind, watching, reply, ownerEvents, watcherVars, confused, ownerChanges>>

\* selection_acquire_checker: Lua code cannot use an object without a selection.
StillAcquired(o) == o \in acquired

\* luaA_selection_acquire_release, for an object that Lua code has got, and which may
\* be the one whose handler calls it.
LuaReleases(o) ==
    /\ LuaRuns /\ life[o] = "live" /\ StillAcquired(o)
    /\ \A i \in DOMAIN calls : calls[i] \notin {<<"asked", o>>, <<"register", o>>}
    /\ Cardinality({i \in DOMAIN calls : calls[i] = <<"release", o>>}) < MaxReleases
    /\ Release(o)
    /\ UNCHANGED <<serverOwnerVars, ownerEvents, life, acquired, registered, watcherVars, confused,
                   ownerChanges>>

-----------------------------------------------------------------------------
(* Events.                                                                 *)

\* selection_acquire_find_by_window.
FindByWindow(o) == {registered} \cap {o}

\* event_handle_selectionclear.
SelectionClear(o) ==
    /\ IF FindByWindow(o) = {} THEN UNCHANGED calls
       ELSE \E r \in FindByWindow(o) : Release(r)
    /\ UNCHANGED <<life, acquired, registered, watcherVars>>

\* selection_handle_selectionrequest: it is answered either way, and the transfer is
\* module Selection's.
SelectionRequest == UNCHANGED <<acquireVars, watcherVars>>

\* event_handle_xfixes_selection_notify.
XFixesSelectionNotify(w, isOwned) ==
    /\ told' = IF w \in active THEN [told EXCEPT ![w] = isOwned] ELSE told
    /\ UNCHANGED <<acquireVars, active, outdated>>

HandleOwnerEvent ==
    /\ calls = <<>> /\ ownerEvents # <<>>
    /\ ownerEvents' = Tail(ownerEvents)
    /\ LET e == Head(ownerEvents)
       IN  \/ e[1] = "clear" /\ SelectionClear(e[2])
           \/ e[1] = "request" /\ SelectionRequest
           \/ e[1] \in Watcher /\ XFixesSelectionNotify(e[1], e[2])
    /\ UNCHANGED <<serverOwnerVars, confused, ownerChanges>>

\* An event with a recent timestamp, such as a key press, is handled.
HearTime ==
    /\ calls = <<>> /\ behind
    /\ behind' = FALSE
    /\ UNCHANGED <<owner, watching, ownerRequests, reply, ownerEvents, acquireVars, watcherVars,
                   confused, ownerChanges>>

\* luaA_selection_watcher_set_active.
SetActive(w) ==
    /\ LuaRuns /\ OwnerChange
    /\ IF w \in active
       THEN /\ active' = active \ {w}
            /\ ownerRequests' = Append(ownerRequests, <<"unwatch", w>>)
            /\ UNCHANGED <<told, outdated>>
       ELSE /\ active' = active \cup {w}
            /\ ownerRequests' = Append(ownerRequests, <<"watch", w>>)
            /\ told' = [told EXCEPT ![w] = None]
            /\ outdated' = IF w \in watching \/ w \in {r[2] : r \in Range(ownerRequests)}
                              \/ w \in {e[1] : e \in Range(ownerEvents)}
                           THEN outdated \cup {w} ELSE outdated
    /\ UNCHANGED <<owner, behind, watching, reply, ownerEvents, acquireVars, confused>>

OwnershipNext ==
    \/ ExecuteOwnerRequest \/ HandleOwnerEvent \/ HearTime
    \/ AcquireEnd \/ Register \/ ReleaseEnd
    \/ AppTakes \/ AppLoses \/ AppAsks
    \/ \E o \in Acquire : AcquireBegin(o) \/ LuaReleases(o)
    \/ \E w \in Watcher : SetActive(w)

OwnershipSpec == OwnershipInit /\ [][OwnershipNext]_ownershipVars

-----------------------------------------------------------------------------
Quiet == ownerEvents = <<>> /\ ownerRequests = <<>> /\ calls = <<>>

\* When nothing is on its way, the acquire object that is alive and registered is the
\* one whose window owns the selection on the server, and there is none if no window
\* of awesome's does: no object goes on after it has been replaced or its window has
\* lost the selection, and no SelectionClear that comes late, for a window that is gone,
\* ends another one; but for the two known races.
OwnershipAgrees ==
    Quiet /\ ~confused => /\ {o \in Acquire : life[o] = "live"} = {owner} \cap Acquire
                          /\ {registered} \ {None} = {owner} \cap Acquire

\* Then, too, what an active watcher has last told is how it is, however the owner went
\* away, unless it was made active while an event of the last time might
\* still come.
WatchersKnow ==
    Quiet => \A w \in active \ outdated : told[w] # None => told[w] = (owner # None)

\* Together: at rest, whoever believes to own the selection owns it, and the watchers know
\* who does.
OwnershipInv == SelectionOwnerTypeOK /\ OwnershipAgrees /\ WatchersKnow
=============================================================================

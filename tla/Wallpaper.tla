------------------------------- MODULE Wallpaper -------------------------------
(***************************************************************************)
(* The wallpaper of the root window (root.c).  It is a pixmap that has to  *)
(* outlive the program that sets it: awesome creates it over a connection  *)
(* of its own, which it closes in the mode RetainPermanent.  Two properties*)
(* of the root window name the pixmap: _XROOTPMAP_ID for who draws it, and *)
(* ESETROOT_PMAP_ID for who replaces it, and frees it by KillClient.  Other*)
(* programs do the same, at any time but when awesome has grabbed the      *)
(* server; awesome hears of them by PropertyNotify.                        *)
(***************************************************************************)
EXTENDS Integers, Sequences

CONSTANTS MaxPixmaps,       \* bound: wallpapers
          MaxSettings,      \* bound: root_set_wallpaper in handlers of "wallpaper_changed"
          MaxProgramSteps,  \* bound: what other programs do, and restarts
          NoPixmap

ASSUME WallpaperAssumption ==
    MaxPixmaps \in Nat /\ MaxSettings \in Nat /\ MaxProgramSteps \in Nat /\ NoPixmap \notin Nat

VARIABLES pixmap,     \* of each pixmap, what has become of the connection that created it
          rootPixmap, esetroot,  \* _XROOTPMAP_ID and ESETROOT_PMAP_ID
          wallpaper,  \* globalconf.wallpaper
          notify,     \* events for _XROOTPMAP_ID that awesome has not read yet
          beingSet,   \* root_set_wallpaper and the handlers that run, each called by the one before
          own,        \* history: the pixmaps of awesome
          survivors,  \* history: pixmaps whose connection was still open when they were freed
          programSteps

wallpaperVars == <<pixmap, rootPixmap, esetroot, wallpaper, notify, beingSet, own, survivors, programSteps>>

Pixmap == 1..MaxPixmaps
WallpaperTypeOK ==
    \* not created; its connection is open, open and in mode RetainPermanent, closed in
    \* that mode; freed
    /\ pixmap \in [Pixmap -> {"new", "open", "keeping", "retained", "freed"}]
    /\ {rootPixmap, esetroot, wallpaper} \subseteq Pixmap \cup {NoPixmap}
    /\ own \subseteq Pixmap /\ survivors \subseteq Pixmap

Exists(p) == p # NoPixmap /\ pixmap[p] \in {"open", "keeping", "retained"}
Fresh(p) == pixmap[p] = "new" /\ \A q \in 1..(p - 1) : pixmap[q] # "new"

\* The X server: a connection that is closed takes its pixmap with it, unless its mode is
\* RetainPermanent.
Closed(state) == CASE state = "open" -> "freed" [] state = "keeping" -> "retained" [] OTHER -> state

\* KillClient closes the connection; one that is closed already loses what it has retained.
Killed(pixmaps, p) ==
    [pixmaps EXCEPT ![p] = IF @ = "retained" THEN "freed" ELSE Closed(@)]

-----------------------------------------------------------------------------
Running == IF beingSet = <<>> THEN "main loop" ELSE beingSet[Len(beingSet)].at
LuaRunning == Running \in {"main loop", "handlers", "told"} /\ Len(beingSet) < MaxSettings
SettingAt(step) == beingSet' = [beingSet EXCEPT ![Len(beingSet)].at = step]

\* root_set_wallpaper: the pixmap is created and painted.
Create(p) ==
    /\ LuaRunning /\ Fresh(p)
    /\ pixmap' = [pixmap EXCEPT ![p] = "open"] /\ own' = own \cup {p}
    /\ beingSet' = Append(beingSet, [at |-> "painted", new |-> p])
    /\ UNCHANGED <<rootPixmap, esetroot, wallpaper, notify, survivors, programSteps>>

\* With the property read after it has been replaced.
OldIsNew(old, new) == new

\* The pixmap to free: the one that ESETROOT_PMAP_ID named before.
Old(old, new) == old

Freed(pixmaps, old, new) == IF Old(old, new) = NoPixmap THEN pixmaps ELSE Killed(pixmaps, Old(old, new))

\* root_set_wallpaper_pixmap, with the server grabbed and no event for awesome.
Replace ==
    /\ Running = "painted"
    /\ LET new == beingSet[Len(beingSet)].new
       IN  /\ pixmap' = Freed(pixmap, esetroot, new)
           /\ survivors' = IF esetroot # NoPixmap /\ pixmap[esetroot] = "keeping" THEN survivors \cup {esetroot}
                           ELSE survivors
           /\ rootPixmap' = new /\ esetroot' = new
    /\ SettingAt("replaced")
    /\ UNCHANGED <<wallpaper, notify, own, programSteps>>

\* The connection is to be closed in the other mode, if it is still there.  Handlers of
\* "wallpaper_changed" run.
Retain ==
    /\ Running = "replaced"
    /\ LET new == beingSet[Len(beingSet)].new
       IN  /\ pixmap' = [pixmap EXCEPT ![new] = IF @ = "open" THEN "keeping" ELSE @]
           /\ wallpaper' = new
    /\ SettingAt("told")
    /\ UNCHANGED <<rootPixmap, esetroot, notify, own, survivors, programSteps>>

CloseConnection ==
    /\ Running = "told"
    /\ LET new == beingSet[Len(beingSet)].new
       IN  pixmap' = [pixmap EXCEPT ![new] = Closed(@)]
    /\ beingSet' = SubSeq(beingSet, 1, Len(beingSet) - 1)
    /\ UNCHANGED <<rootPixmap, esetroot, wallpaper, notify, own, survivors, programSteps>>

\* root_update_wallpaper: none, if the pixmap is not there.
Updated == IF Exists(rootPixmap) THEN rootPixmap ELSE NoPixmap

\* property_handle_xrootpmap_id, and handlers of "wallpaper_changed".
PropertyNotify ==
    /\ Running = "main loop" /\ notify > 0
    /\ notify' = notify - 1
    /\ wallpaper' = Updated
    /\ beingSet' = <<[at |-> "handlers", new |-> NoPixmap]>>
    /\ UNCHANGED <<pixmap, rootPixmap, esetroot, own, survivors, programSteps>>

HandlersDone ==
    /\ Running = "handlers"
    /\ beingSet' = SubSeq(beingSet, 1, Len(beingSet) - 1)
    /\ UNCHANGED <<pixmap, rootPixmap, esetroot, wallpaper, notify, own, survivors, programSteps>>

-----------------------------------------------------------------------------
(* Other programs, and restarts.                                           *)

\* Another program replaces the wallpaper, as root_set_wallpaper does.
OtherReplaces(p) ==
    /\ programSteps > 0 /\ programSteps' = programSteps - 1
    /\ Fresh(p)
    /\ pixmap' = [(IF esetroot = NoPixmap THEN pixmap ELSE Killed(pixmap, esetroot)) EXCEPT ![p] = "retained"]
    /\ survivors' = IF esetroot # NoPixmap /\ pixmap[esetroot] = "keeping" THEN survivors \cup {esetroot}
                    ELSE survivors
    /\ rootPixmap' = p /\ esetroot' = p /\ notify' = notify + 1
    /\ UNCHANGED <<wallpaper, beingSet, own>>

\* A plain colour: _XROOTPMAP_ID is deleted.
OtherClears ==
    /\ programSteps > 0 /\ programSteps' = programSteps - 1
    /\ rootPixmap # NoPixmap /\ rootPixmap' = NoPixmap
    /\ notify' = notify + 1
    /\ UNCHANGED <<pixmap, esetroot, wallpaper, beingSet, own, survivors>>

\* awesome ends anywhere, by awesome.restart in a handler or because it is killed, and all
\* of its connections are closed; the next one looks for the wallpaper when it starts.
Restart ==
    /\ programSteps > 0 /\ programSteps' = programSteps - 1
    /\ pixmap' = [p \in Pixmap |-> Closed(pixmap[p])]
    /\ wallpaper' = IF rootPixmap # NoPixmap /\ Closed(pixmap[rootPixmap]) = "retained" THEN rootPixmap
                    ELSE NoPixmap
    /\ notify' = 0 /\ beingSet' = <<>>
    /\ UNCHANGED <<rootPixmap, esetroot, own, survivors>>

-----------------------------------------------------------------------------
WallpaperInit ==
    /\ pixmap = [p \in Pixmap |-> "new"]
    /\ rootPixmap = NoPixmap /\ esetroot = NoPixmap /\ wallpaper = NoPixmap
    /\ notify = 0 /\ beingSet = <<>> /\ own = {} /\ survivors = {} /\ programSteps = MaxProgramSteps

WallpaperNext ==
    \/ Replace \/ Retain \/ CloseConnection \/ PropertyNotify \/ HandlersDone \/ OtherClears \/ Restart
    \/ \E p \in Pixmap : Create(p) \/ OtherReplaces(p)

WallpaperSpec == WallpaperInit /\ [][WallpaperNext]_wallpaperVars

\* When awesome has nothing left to do or to read, the wallpaper that widgets draw
\* (globalconf.wallpaper) is the pixmap that _XROOTPMAP_ID names, and it has not been
\* freed, whoever replaced it last and whatever was interrupted.
WallpaperIsCurrent ==
    beingSet = <<>> /\ notify = 0 => wallpaper = Updated

\* A pixmap of awesome that exists while none is being set can still be freed by who sets
\* the next one: no wallpaper stays in the server for ever.  The exception is a wallpaper
\* that was replaced by a handler of its own "wallpaper_changed", or by another program
\* meanwhile: KillClient then only closes the connection, which keeps its pixmap.
NoWallpaperIsLeft ==
    beingSet = <<>> => \A p \in own \ survivors : Exists(p) => p = esetroot

\* Together: at rest awesome knows the wallpaper, and there is no other one left of it.
WallpaperInv == WallpaperTypeOK /\ WallpaperIsCurrent /\ NoWallpaperIsLeft
===============================================================================

-------------------------------- MODULE Takeover --------------------------------
(***************************************************************************)
(* One window manager takes the place of another (acquire_WM_Sn in         *)
(* awesome.c).  The window manager of a screen owns a selection, WM_Sn: a  *)
(* new one takes it, waits until a window of the old owner is gone, and    *)
(* selects SubstructureRedirect on the root window, which only one program *)
(* can.  The old one is told by a SelectionClear event, and ends.          *)
(*                                                                         *)
(* Reading the owner and taking the selection are two requests, and the    *)
(* second one is silently ignored when its timestamp is too old.  Processes*)
(* may be killed and restarted anywhere.                                   *)
(***************************************************************************)
EXTENDS Integers

CONSTANTS Process,    \* instances of awesome
          MaxStarts,  \* bound: starts and restarts, which the timestamps count
          Nobody

ASSUME TakeoverAssumption == MaxStarts \in Nat /\ Nobody \notin Process \cup (Process \X Nat)

VARIABLES phase,     \* what each process is doing
          replace,   \* of each process: --replace
          started,   \* its timestamp, which also names its selection_owner_window; 0: no window
          seen,      \* the window that owned the selection when it looked, <<process, started>>
          wmOwner,     \* the owner of the selection WM_Sn
          ownerTime, \* its timestamp
          redirect,  \* who has selected SubstructureRedirect
          cleared,   \* who has a SelectionClear event to read
          clock,
          raced,     \* history: the selection was not with the one seen when it was taken, or
                     \* somebody ended who had taken it and not come to manage windows
          refused    \* history: who could not select SubstructureRedirect

takeoverVars == <<phase, replace, started, seen, wmOwner, ownerTime, redirect, cleared, clock, raced, refused>>

TakeoverTypeOK ==
    /\ phase \in [Process -> {"absent", "timestamp", "looked", "waiting", "managing", "quitting"}]
    /\ started \in [Process -> 0..MaxStarts] /\ clock \in 0..MaxStarts /\ ownerTime \in 0..MaxStarts
    /\ {wmOwner, redirect} \subseteq Process \cup {Nobody} /\ cleared \cup refused \subseteq Process

\* The connection of w is closed: its window is destroyed.  With the next phase of w.
ConnectionClosed(w, next) ==
    /\ wmOwner' = IF wmOwner = w THEN Nobody ELSE wmOwner
    /\ redirect' = IF redirect = w THEN Nobody ELSE redirect
    /\ cleared' = cleared \ {w}
    /\ seen' = [seen EXCEPT ![w] = Nobody]
    /\ phase' = [phase EXCEPT ![w] = next]
    /\ UNCHANGED ownerTime
Ends(w) == /\ ConnectionClosed(w, "absent")
           /\ started' = [started EXCEPT ![w] = 0]
           /\ UNCHANGED <<clock, replace>>

\* acquire_timestamp.
AcquireTimestamp(w) == /\ clock < MaxStarts /\ clock' = clock + 1
                       /\ started' = [started EXCEPT ![w] = clock']

Start(w) ==
    /\ phase[w] = "absent"
    /\ phase' = [phase EXCEPT ![w] = "timestamp"]
    /\ \E r \in BOOLEAN : replace' = [replace EXCEPT ![w] = r]
    /\ AcquireTimestamp(w)
    /\ UNCHANGED <<seen, wmOwner, ownerTime, redirect, cleared, raced, refused>>

\* acquire_WM_Sn: without --replace there may be no owner.
MayReplace(w) == replace[w] \/ wmOwner = Nobody
ReadOwner(w) ==
    /\ phase[w] = "timestamp"
    /\ IF MayReplace(w)
       THEN /\ phase' = [phase EXCEPT ![w] = "looked"]
            /\ seen' = [seen EXCEPT ![w] = IF wmOwner = Nobody THEN Nobody ELSE <<wmOwner, started[wmOwner]>>]
            /\ UNCHANGED <<replace, started, wmOwner, ownerTime, redirect, cleared, clock>>
       ELSE Ends(w)
    /\ UNCHANGED <<raced, refused>>

TakeSelection(w) ==
    /\ phase[w] = "looked"
    /\ phase' = [phase EXCEPT ![w] = "waiting"]
    /\ IF started[w] >= ownerTime
       THEN /\ wmOwner' = w /\ ownerTime' = started[w]
            /\ cleared' = cleared \cup ({wmOwner} \ {Nobody})
       ELSE UNCHANGED <<wmOwner, ownerTime, cleared>>
    /\ raced' = (raced \/ wmOwner # (IF seen[w] = Nobody THEN Nobody ELSE seen[w][1]) \/ started[w] < ownerTime)
    /\ UNCHANGED <<replace, started, seen, redirect, clock, refused>>

\* Without waiting.
NeverWaits(w) == TRUE
\* The loop that asks for the geometry of the old window until there is none.
OldIsGone(w) == IF seen[w] = Nobody THEN TRUE ELSE started[seen[w][1]] # seen[w][2]

\* main: this fails if another window manager still runs.
SelectRedirect(w) ==
    /\ phase[w] = "waiting" /\ OldIsGone(w)
    /\ IF redirect = Nobody
       THEN /\ redirect' = w /\ phase' = [phase EXCEPT ![w] = "managing"]
            /\ UNCHANGED <<replace, started, seen, wmOwner, ownerTime, cleared, clock, refused>>
       ELSE /\ Ends(w) /\ refused' = refused \cup {w}
    /\ raced' = raced

\* event_handle_selectionclear.
LostSelection(w) ==
    /\ phase[w] = "managing" /\ w \in cleared
    /\ phase' = [phase EXCEPT ![w] = "quitting"]
    /\ cleared' = cleared \ {w}
    /\ UNCHANGED <<replace, started, seen, wmOwner, ownerTime, redirect, clock, raced, refused>>

\* awesome.quit, exit_on_signal.
QuitLoop(w) ==
    /\ phase[w] = "managing"
    /\ phase' = [phase EXCEPT ![w] = "quitting"]
    /\ UNCHANGED <<replace, started, seen, wmOwner, ownerTime, redirect, cleared, clock, raced, refused>>

\* awesome_atexit, and the end of main.
ExitMain(w) == phase[w] = "quitting" /\ Ends(w) /\ UNCHANGED <<raced, refused>>

\* awesome_restart: the program is executed again, as it was started.
Restarts(w) ==
    /\ phase[w] = "managing"
    /\ ConnectionClosed(w, "timestamp")
    /\ AcquireTimestamp(w)
    /\ UNCHANGED <<replace, raced, refused>>

\* A process is killed.
ProcessKilled(w) ==
    /\ phase[w] # "absent" /\ Ends(w)
    /\ raced' = (raced \/ phase[w] = "waiting")
    /\ refused' = refused

-----------------------------------------------------------------------------
TakeoverInit ==
    /\ phase = [w \in Process |-> "absent"] /\ replace = [w \in Process |-> FALSE]
    /\ started = [w \in Process |-> 0] /\ seen = [w \in Process |-> Nobody]
    /\ wmOwner = Nobody /\ ownerTime = 0 /\ redirect = Nobody /\ cleared = {} /\ clock = 0
    /\ raced = FALSE /\ refused = {}

TakeoverNext == \E w \in Process :
    \/ Start(w) \/ ReadOwner(w) \/ TakeSelection(w) \/ SelectRedirect(w) \/ LostSelection(w)
    \/ QuitLoop(w) \/ ExitMain(w) \/ Restarts(w) \/ ProcessKilled(w)

TakeoverSpec == TakeoverInit /\ [][TakeoverNext]_takeoverVars

\* Unless two of them take the selection at once, or one is killed while it waits: a window
\* manager that has taken the selection is not refused by the server because another still
\* manages windows, and one that manages windows owns the selection, or will read that it
\* has lost it, so that the next one can replace it.
TakeoverWorks ==
    ~raced => /\ refused = {}
              /\ \A w \in Process : phase[w] = "managing" => wmOwner = w \/ w \in cleared

\* The same with the types.
TakeoverInv == TakeoverTypeOK /\ TakeoverWorks
===============================================================================

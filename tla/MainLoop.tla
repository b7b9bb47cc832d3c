------------------------------- MODULE MainLoop -------------------------------
(***************************************************************************)
(* One iteration of awesome's main loop: the deferred work of              *)
(* awesome_refresh, the poll that puts the process to sleep, and the       *)
(* handling of the X events with the motion events coalesced.              *)
(*                                                                         *)
(* Two things can go wrong here that no test shows.  libxcb reads events   *)
(* from the socket into a queue of its own whenever a reply is awaited, so *)
(* the socket being silent does not mean that there is nothing to do; and  *)
(* a part of the deferred work runs Lua code, which may defer more.        *)
(***************************************************************************)
EXTENDS Naturals, SequencesExt

CONSTANTS Kinds,      \* the kinds of events in use
          MaxEvents,  \* bound: the number of events the server ever sends
          None

\* "motion", "crossing" (enter, leave), "button" (press, release) and "other".
EventKinds == {"motion", "crossing", "button", "other"}

ASSUME MainLoopAssumption ==
    Kinds \subseteq EventKinds /\ "other" \in Kinds /\ MaxEvents \in Nat /\ None \notin Nat

\* The parts of awesome_refresh, in order.  Each but the last is something that
\* is deferred by setting a flag or queueing an item.
Stages == <<"delayed", "drawin", "geometry", "focus", "banning", "stack", "destroy", "flush">>
Deferrable == Range(Stages) \ {"flush"}

VARIABLES pc,        \* "refresh", "peek", "poll", "check" or "dispatch"
          stage,     \* the stage of awesome_refresh that is next
          deferred,  \* the stages that have something to do
          pending,   \* globalconf.pending_event: an event's number, or None
          queue,     \* libxcb's event queue
          socket,    \* events sent by the server and not read yet
          mouse,     \* the local variable of a_xcb_check, None outside of it
          source,    \* a timer, a child's exit or another GLib source is ready
          buffered,  \* requests in the output buffer that will cause an event
          flushed,   \* such requests that the server has not executed yet
          sent,      \* history: the kinds of the events sent; an event is its number
          handled    \* history: the events handled, in the order of handling

loopVars == <<pc, stage, pending, mouse>>
serverVars == <<queue, socket, flushed, sent>>
vars == <<loopVars, deferred, source, buffered, handled, serverVars>>

TypeOK == /\ pc \in {"refresh", "peek", "poll", "check", "dispatch"}
          /\ stage \in DOMAIN Stages
          /\ deferred \subseteq Deferrable
          /\ pending \in DOMAIN sent \cup {None} /\ mouse \in DOMAIN sent \cup {None}
          /\ queue \in Seq(DOMAIN sent) /\ socket \in Seq(DOMAIN sent)
          /\ source \in BOOLEAN
          /\ buffered \in 0..MaxEvents /\ flushed \in 0..MaxEvents
          /\ sent \in Seq(Kinds) /\ Len(sent) + buffered + flushed <= MaxEvents
          /\ handled \in Seq(DOMAIN sent)
          /\ pc \in {"refresh", "peek"} => pending = None /\ mouse = None  \* asserted by a_glib_poll

Init == /\ pc = "refresh" /\ stage = 1
        /\ deferred = {}
        /\ pending = None /\ mouse = None
        /\ queue = <<>> /\ socket = <<>>
        /\ source = FALSE
        /\ buffered = 0 /\ flushed = 0
        /\ sent = <<>> /\ handled = <<>>

-----------------------------------------------------------------------------
(* Lua code.                                                               *)

\* What a piece of Lua code, or the C code it calls, may leave to be done.
LuaDefers == \E more \in {{}} \cup {{d} : d \in Deferrable} : deferred' = deferred \cup more

\* Anything that awaits a reply flushes the output buffer and moves what is on
\* the socket to the queue.
RoundTrip ==
    /\ pc \in {"refresh", "check", "dispatch"}
    /\ buffered > 0 \/ socket # <<>>
    /\ flushed' = flushed + buffered /\ buffered' = 0
    /\ queue' = queue \o socket /\ socket' = <<>>
    /\ UNCHANGED <<loopVars, deferred, source, sent, handled>>

-----------------------------------------------------------------------------
(* The loop.                                                               *)

NextStage == IF stage < Len(Stages)
             THEN stage' = stage + 1 /\ pc' = pc
             ELSE stage' = 1 /\ pc' = "peek"

\* luaA_emit_refresh: the delayed calls run, those that they add included, until
\* there are none left.
DelayedCalls ==
    /\ pc = "refresh" /\ Stages[stage] = "delayed"
    /\ \/ "delayed" \notin deferred /\ UNCHANGED deferred
       \/ /\ "delayed" \in deferred
          /\ \E more \in SUBSET Deferrable : deferred' = (deferred \cup more) \ {"delayed"}
    /\ NextStage
    /\ UNCHANGED <<pending, mouse, source, buffered, handled, serverVars>>

\* A stage with nothing to do, or one that does it without running Lua code.
QuietStage ==
    /\ pc = "refresh" /\ Stages[stage] \notin {"delayed", "flush"}
    /\ deferred' = deferred \ {Stages[stage]}
    /\ NextStage
    /\ UNCHANGED <<pending, mouse, source, buffered, handled, serverVars>>

\* client_focus_refresh unbans a minimized client, or banning_refresh bans and
\* unbans clients: windows are mapped or unmapped, which the server reports, and
\* signals are emitted, property::minimized and unfocus among them.  A focus
\* change that is asked for during client_focus_refresh is lost, since it resets
\* need_update last.
NoisyStage ==
    /\ pc = "refresh" /\ Stages[stage] \in {"focus", "banning"} \cap deferred
    /\ Len(sent) + buffered + flushed < MaxEvents
    /\ buffered' = buffered + 1
    /\ \E more \in SUBSET Deferrable :
            deferred' = (deferred \ {Stages[stage]}) \cup (more \ ({"focus"} \cap {Stages[stage]}))
    /\ NextStage
    /\ UNCHANGED <<pending, mouse, source, handled, serverVars>>

\* awesome_refresh with the final xcb_flush left out.
FlushForgotten ==
    /\ pc = "refresh" /\ Stages[stage] = "flush"
    /\ NextStage
    /\ UNCHANGED <<deferred, pending, mouse, source, handled, buffered, serverVars>>

\* The xcb_flush at the end.
Flush ==
    /\ pc = "refresh" /\ Stages[stage] = "flush"
    /\ flushed' = flushed + buffered /\ buffered' = 0
    /\ NextStage
    /\ UNCHANGED <<deferred, pending, mouse, source, handled, queue, socket, sent>>

\* a_glib_poll going straight to g_poll.
PeekLeftOut ==
    /\ pc = "peek"
    /\ pc' = "poll"
    /\ UNCHANGED <<stage, deferred, pending, mouse, source, buffered, handled, serverVars>>

\* a_glib_poll takes an event that is there already: then it will not sleep.
Peek ==
    /\ pc = "peek"
    /\ pc' = "poll"
    /\ \/ /\ queue # <<>>
          /\ pending' = Head(queue) /\ queue' = Tail(queue)
          /\ UNCHANGED socket
       \/ /\ queue = <<>> /\ socket # <<>>
          /\ pending' = Head(socket) /\ queue' = Tail(socket) /\ socket' = <<>>
       \/ /\ queue = <<>> /\ socket = <<>>
          /\ UNCHANGED <<pending, queue, socket>>
    /\ UNCHANGED <<stage, deferred, mouse, source, buffered, handled, flushed, sent>>

\* g_poll returns: at once with a timeout of 0, or when the socket is readable or
\* some other source is ready.
WakeUp ==
    /\ pc = "poll"
    /\ pending # None \/ socket # <<>> \/ source
    /\ pc' = "check"
    /\ UNCHANGED <<stage, deferred, pending, mouse, source, buffered, handled, serverVars>>

\* poll_for_event returns e.
PollForEvent(e) ==
    \/ /\ pending # None /\ e = pending
       /\ pending' = None
       /\ UNCHANGED <<queue, socket>>
    \/ /\ pending = None /\ queue # <<>> /\ e = Head(queue)
       /\ queue' = Tail(queue)
       /\ UNCHANGED <<pending, socket>>
    \/ /\ pending = None /\ queue = <<>> /\ socket # <<>> /\ e = Head(socket)
       /\ queue' = Tail(socket) /\ socket' = <<>>
       /\ UNCHANGED pending

\* A motion event replaces the one that waits.
KeepMotion ==
    /\ pc = "check"
    /\ \E e \in DOMAIN sent :
        /\ sent[e] = "motion"
        /\ PollForEvent(e)
        /\ mouse' = e
    /\ UNCHANGED <<pc, stage, deferred, source, buffered, flushed, sent, handled>>

\* As HandleEvent, with the button events forgotten in the test.
HandleEventButtonsLate ==
    /\ pc = "check"
    /\ \E e \in DOMAIN sent :
        /\ sent[e] # "motion"
        /\ PollForEvent(e)
        /\ IF mouse # None /\ sent[e] = "crossing"
           THEN handled' = handled \o <<mouse, e>> /\ mouse' = None
           ELSE handled' = Append(handled, e) /\ UNCHANGED mouse
    /\ LuaDefers
    /\ UNCHANGED <<pc, stage, source, buffered, flushed, sent>>

\* Any other event is handled at once, after the motion event that waits if the
\* order of the two matters.
HandleEvent ==
    /\ pc = "check"
    /\ \E e \in DOMAIN sent :
        /\ sent[e] # "motion"
        /\ PollForEvent(e)
        /\ IF mouse # None /\ sent[e] \in {"crossing", "button"}
           THEN handled' = handled \o <<mouse, e>> /\ mouse' = None
           ELSE handled' = Append(handled, e) /\ UNCHANGED mouse
    /\ LuaDefers
    /\ UNCHANGED <<pc, stage, source, buffered, flushed, sent>>

\* The end of a_xcb_check: no event is left but, perhaps, the last motion.
CheckDone ==
    /\ pc = "check"
    /\ pending = None /\ queue = <<>> /\ socket = <<>>
    /\ IF mouse = None THEN UNCHANGED <<handled, deferred>>
                       ELSE handled' = Append(handled, mouse) /\ LuaDefers
    /\ mouse' = None
    /\ pc' = "dispatch"
    /\ UNCHANGED <<stage, pending, source, buffered, serverVars>>

\* GLib dispatches the sources that are ready.
Dispatch ==
    /\ pc = "dispatch"
    /\ IF source THEN LuaDefers ELSE UNCHANGED deferred
    /\ source' = FALSE
    /\ pc' = "refresh"
    /\ UNCHANGED <<stage, pending, mouse, buffered, handled, serverVars>>

-----------------------------------------------------------------------------
(* The world outside.                                                      *)

UserEvent ==
    /\ Len(sent) + buffered + flushed < MaxEvents
    /\ \E k \in Kinds : sent' = Append(sent, k)
    /\ socket' = Append(socket, Len(sent'))
    /\ UNCHANGED <<loopVars, deferred, source, buffered, handled, queue, flushed>>

\* The server executes a request and reports its effect.
Execute ==
    /\ flushed > 0
    /\ flushed' = flushed - 1
    /\ sent' = Append(sent, "other")
    /\ socket' = Append(socket, Len(sent'))
    /\ UNCHANGED <<loopVars, deferred, source, buffered, handled, queue>>

SourceReady ==
    /\ ~source
    /\ source' = TRUE
    /\ UNCHANGED <<loopVars, deferred, buffered, handled, serverVars>>

Loop == \/ DelayedCalls \/ QuietStage \/ NoisyStage \/ Flush \/ Peek \/ WakeUp
        \/ KeepMotion \/ HandleEvent \/ CheckDone \/ Dispatch

Next == Loop \/ RoundTrip \/ UserEvent \/ Execute \/ SourceReady

Spec == Init /\ [][Next]_vars

\* The process runs and the server executes what it is sent; nobody has to
\* press a key and no timer has to expire.
FairSpec == Spec /\ WF_vars(Loop) /\ WF_vars(Execute)

-----------------------------------------------------------------------------
(* Properties.                                                             *)

Asleep == pc = "poll" /\ pending = None /\ socket = <<>> /\ ~source

\* The process never sleeps over an event that libxcb has read already, and
\* never with requests in the output buffer that nobody will flush.
NoSleepOverWork == Asleep => queue = <<>> /\ buffered = 0

\* Deferred work that a refresh leaves undone is not forgotten: whenever the
\* process sleeps with such work, the server is about to report the mapping or
\* unmapping that came with it, which starts another refresh.
LeftoverWorkWakesUp == Asleep /\ deferred # {} => flushed > 0

\* A crossing or button event is handled with the pointer where it was: the last
\* motion event before it has been handled, or an even later one never.
LastMotionBefore(e) == {m \in 1..(e - 1) : sent[m] = "motion" /\ \A k \in (m + 1)..(e - 1) : sent[k] # "motion"}
MotionInOrder ==
    \A i \in DOMAIN handled : sent[handled[i]] \in {"crossing", "button"} =>
        LET earlier == {handled[k] : k \in 1..(i - 1)}
        IN  /\ LastMotionBefore(handled[i]) \subseteq earlier
            /\ \A m \in earlier : m < handled[i]

\* No event is lost and none is slept over for good: every event is handled in the
\* end, even if nobody presses a key again.  A motion event may instead be dropped
\* in favour of a later one that is.
EventsAreHandled ==
    \A e \in 1..MaxEvents :
        e \in DOMAIN sent ~>
            \E h \in Range(handled) :
                h = e \/ (h > e /\ sent[h] = "motion" /\ sent[e] = "motion")
=============================================================================

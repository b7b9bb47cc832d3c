----------------------------- MODULE EnterLeave -----------------------------
(***************************************************************************)
(* The brackets of client_ignore_enterleave_events and                     *)
(* client_restore_enterleave_events: crossing events that awesome causes   *)
(* itself, by moving and mapping windows, must not move the focus.  They   *)
(* are told from the user's by their sequence number, which counts the     *)
(* requests that the server had executed and has a limited width.          *)
(*                                                                         *)
(* Here requests have their true numbers, 1, 2, and so on, and what the    *)
(* program can see of a number is Seq(n).                                  *)
(***************************************************************************)
EXTENDS Naturals, SequencesExt

CONSTANTS Modulus,      \* 2^32 in the program
          MayStraddle,  \* whether a bracket may be open when the numbers wrap around
          MaxRequests,  \* bound: the requests ever made
          MaxBehind     \* bound: the requests since the last event that was handled

ASSUME EnterLeaveAssumption ==
    /\ Modulus \in Nat \ {0, 1} /\ MayStraddle \in BOOLEAN
    /\ MaxRequests \in Nat /\ MaxBehind \in Nat

VARIABLES out,      \* the last request that was made
          begin,    \* globalconf.pending_enter_leave_begin, 0 for none
          ranges,   \* globalconf.ignore_enter_leave_events
          done,     \* the last request that the server has executed
          events,   \* the requests after which the events not handled yet were caused
          seen,     \* history: the last event handled, 0 if none
          ignored,  \* history: whether it was ignored
          brackets  \* history: the ranges there have been, until an event is later

enterLeaveVars == <<out, begin, ranges, done, events, seen, ignored, brackets>>

EnterLeaveTypeOK == /\ out \in 0..MaxRequests /\ done \in 0..out /\ begin \in 0..out
                    /\ ranges \in Seq((1..out) \X (1..out))
                    /\ events \in Seq(seen..done)
                    /\ ignored \in BOOLEAN
                    /\ \A r \in brackets : r[1] < r[2] /\ r[2] <= out /\ (begin # 0 => r[2] < begin)

EnterLeaveInit == /\ out = 0 /\ begin = 0 /\ done = 0 /\ seen = 0
                  /\ ranges = <<>> /\ events = <<>> /\ brackets = {}
                  /\ ignored = FALSE

-----------------------------------------------------------------------------

Seq32(n) == n % Modulus

\* x - y in unsigned arithmetic.
Minus(x, y) == (x + Modulus - y) % Modulus

\* Request n would be the next one; libxcb makes one of its own rather than
\* returning the number 0.
Following(n) == IF Seq32(n + 1) = 0 THEN n + 2 ELSE n + 1

\* There is room for request n: some event is handled every so many requests.
Fits(n) == n <= MaxRequests /\ n <= seen + MaxBehind

\* A request like any other, in a bracket or not.
Request ==
    LET n == Following(out)
    IN  /\ Fits(n)
        /\ begin # 0 /\ ~MayStraddle => n \div Modulus = begin \div Modulus
        /\ out' = n
        /\ UNCHANGED <<begin, ranges, done, events, seen, ignored, brackets>>

\* client_ignore_enterleave_events: GrabServer.
Ignore ==
    /\ begin = 0
    /\ Fits(Following(out))
    /\ out' = Following(out) /\ begin' = Following(out)
    /\ UNCHANGED <<ranges, done, events, seen, ignored, brackets>>

\* client_restore_enterleave_events: NoOperation and UngrabServer.
Restore ==
    LET end == Following(out)
    IN  /\ begin # 0
        /\ Fits(Following(end))
        /\ ~MayStraddle => end \div Modulus = begin \div Modulus
        /\ ranges' = Append(ranges, <<begin, end>>)
        /\ brackets' = brackets \cup {<<begin, end>>}
        /\ begin' = 0
        /\ out' = Following(end)
        /\ UNCHANGED <<done, events, seen, ignored>>

\* The ranges that should_ignore leaves, compared without regard to wrap-around.
PrunedNaively(sequence) == SelectSeq(ranges, LAMBDA r : Seq32(r[2]) >= sequence)

\* The ranges from the first one on that is not over before the event.
Pruned(sequence) ==
    LET keep == {k \in DOMAIN ranges : Minus(Seq32(ranges[k][2]), sequence) < (Modulus - 1) \div 2}
    IN  IF keep = {} THEN <<>> ELSE SubSeq(ranges, CHOOSE k \in keep : \A l \in keep : k <= l, Len(ranges))

\* should_ignore, for an enter or leave event.  No bracket is open between the
\* handlers of two events.
HandleEvent ==
    /\ events # <<>> /\ begin = 0
    /\ LET sequence == Seq32(Head(events))
           left == Pruned(sequence)
       IN  /\ ranges' = left
           /\ ignored' = (/\ left # <<>>
                          /\ Seq32(left[1][1]) <= sequence /\ sequence <= Seq32(left[1][2]))
    /\ seen' = Head(events)
    /\ events' = Tail(events)
    /\ brackets' = {r \in brackets : r[2] >= Head(events)}
    /\ UNCHANGED <<out, begin, done>>

\* The server executes a request, and a window may appear or go under the pointer.
Execute ==
    /\ done < out
    /\ done' = done + 1
    /\ events' \in {events, Append(events, done + 1)}
    /\ UNCHANGED <<out, begin, ranges, seen, ignored, brackets>>

\* The user moves the pointer into another window.
UserCrosses ==
    /\ Len(events) < MaxBehind
    /\ events' = Append(events, done)
    /\ UNCHANGED <<out, begin, ranges, done, seen, ignored, brackets>>

EnterLeaveNext == Request \/ Ignore \/ Restore \/ HandleEvent \/ Execute \/ UserCrosses

EnterLeaveSpec == EnterLeaveInit /\ [][EnterLeaveNext]_enterLeaveVars

-----------------------------------------------------------------------------
(* Properties.                                                             *)

\* Exactly the crossing events caused within a bracket are ignored, however far
\* the brackets and the events are apart and however often the numbers wrap
\* around.  (With MayStraddle it does not hold: should_ignore compares plain
\* numbers, and no event is inside a range whose begin is larger than its end.)
IgnoredIfInside == ignored <=> \E r \in brackets : r[1] <= seen /\ seen <= r[2]

\* No range is kept once an event has come that is later than it.
RangesArePruned == \A k \in DOMAIN ranges : seen <= ranges[k][2]

\* Together with the types: awesome tells its own crossing events, by ranges that do not pile up.
EnterLeaveInv == EnterLeaveTypeOK /\ IgnoredIfInside /\ RangesArePruned
=============================================================================

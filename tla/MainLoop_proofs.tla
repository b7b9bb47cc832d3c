--------------------------- MODULE MainLoop_proofs ---------------------------
(***************************************************************************)
(* Proofs about MainLoop: its type correctness, which includes what        *)
(* a_glib_poll asserts, and that the process never sleeps over events or   *)
(* unsent requests, and never with deferred work that nothing will bring   *)
(* it back to; and that motion events are handled in their place although  *)
(* they are coalesced.  And about Objects: no pointer of C dangles.        *)
(*                                                                         *)
(* LeftoverWorkWakesUp is not inductive: it speaks of the moment of going  *)
(* to sleep, while the event that will end the sleep may be anywhere on    *)
(* its way (in the output buffer, at the server, on the socket, in the     *)
(* queue, or taken by a_glib_poll) and the work may have been left at any  *)
(* stage of the refresh.  LeftoverInv follows it through the stages.       *)
(*                                                                         *)
(* PointersAreAlive is not inductive: what keeps a pointer alive is a      *)
(* count in a table, so CountsInv has each count cover the pointers it     *)
(* stands for, one for each place in a list, and LivingInv has the tables  *)
(* of what is alive lead only to what is alive.                            *)
(***************************************************************************)
EXTENDS MainLoop, Objects, SequenceTheorems, FiniteSetTheorems, WellFoundedInduction, TLAPS

\* The stages of awesome_refresh that are still to come.
Later(k) == {Stages[i] : i \in k..Len(Stages)}

\* Something is under way that will start another refresh.
Evidence == \/ buffered > 0 \/ flushed > 0
            \/ socket # <<>> \/ queue # <<>> \/ pending # None

TypeInv ==
    /\ pc \in {"refresh", "peek", "poll", "check", "dispatch"}
    /\ stage \in DOMAIN Stages
    /\ deferred \subseteq Deferrable
    /\ pending \in DOMAIN sent \cup {None} /\ mouse \in DOMAIN sent \cup {None}
    /\ queue \in Seq(DOMAIN sent) /\ socket \in Seq(DOMAIN sent)
    /\ source \in BOOLEAN
    /\ buffered \in Nat /\ flushed \in Nat
    /\ sent \in Seq(Kinds) /\ Len(sent) + buffered + flushed <= MaxEvents
    /\ handled \in Seq(DOMAIN sent)

\* Where the loop is decides what the local state can be.
PcInv ==
    /\ pc # "refresh" => stage = 1
    /\ pc # "check" => mouse = None
    /\ pc \in {"refresh", "peek", "dispatch"} => pending = None
    /\ pc \in {"peek", "poll"} => buffered = 0
    /\ pc = "poll" /\ pending = None => queue = <<>>

LeftoverInv ==
    /\ pc = "refresh" => deferred \subseteq Later(stage) \/ Evidence
    /\ pc \in {"peek", "poll"} => deferred = {} \/ Evidence

IInv == TypeInv /\ PcInv /\ LeftoverInv

-----------------------------------------------------------------------------
(* Facts about the stages and about sequences.                             *)

LEMMA StagesFacts ==
    /\ Len(Stages) = 8 /\ DOMAIN Stages = 1..8
    /\ Stages[1] = "delayed" /\ Stages[2] = "drawin" /\ Stages[3] = "geometry" /\ Stages[4] = "focus"
    /\ Stages[5] = "banning" /\ Stages[6] = "stack" /\ Stages[7] = "destroy" /\ Stages[8] = "flush"
    /\ Deferrable = {"delayed", "drawin", "geometry", "focus", "banning", "stack", "destroy"}
<1>1. /\ Len(Stages) = 8 /\ DOMAIN Stages = 1..8
      /\ Stages[1] = "delayed" /\ Stages[2] = "drawin" /\ Stages[3] = "geometry" /\ Stages[4] = "focus"
      /\ Stages[5] = "banning" /\ Stages[6] = "stack" /\ Stages[7] = "destroy" /\ Stages[8] = "flush"
  BY DEF Stages
<1>2. Range(Stages) = {Stages[i] : i \in 1..8}
  BY <1>1 DEF Range
<1>3. QED
  BY <1>1, <1>2 DEF Deferrable

\* The first stage has everything before it, and each stage but the first only
\* what the one before has, except for that one.
LEMMA LaterFacts ==
    /\ Deferrable \subseteq Later(1)
    /\ \A k \in 1..7 : Later(k) \ {Stages[k]} \subseteq Later(k + 1)
    /\ Later(8) = {"flush"}
<1>1. \A k \in 1..8 : Later(k) = {Stages[i] : i \in k..8}
  BY StagesFacts DEF Later
<1>2. Deferrable \subseteq Later(1)
  BY <1>1, StagesFacts
<1>3. \A k \in 1..7 : Later(k) \ {Stages[k]} \subseteq Later(k + 1)
  <2> SUFFICES ASSUME NEW k \in 1..7, NEW i \in k..8, Stages[i] # Stages[k]
               PROVE  Stages[i] \in {Stages[j] : j \in (k + 1)..8}
    BY <1>1
  <2> i \in (k + 1)..8
    OBVIOUS
  <2> QED
    OBVIOUS
<1>4. Later(8) = {"flush"}
  BY <1>1, StagesFacts
<1>5. QED
  BY <1>2, <1>3, <1>4

\* A list of events remains one when more events have been sent.
LEMMA SeqMonotone ==
    ASSUME NEW S, NEW T, S \subseteq T, NEW s \in Seq(S)
    PROVE  s \in Seq(T)
  OBVIOUS

\* The first event of a list that is not empty, and the rest.
LEMMA HeadTail ==
    ASSUME NEW S, NEW s \in Seq(S), s # <<>>
    PROVE  Head(s) \in S /\ Tail(s) \in Seq(S)
  OBVIOUS

\* One more event is sent: the events so far are still events, and so is the
\* number of the new one.
LEMMA SendFacts ==
    ASSUME NEW k \in Kinds, sent \in Seq(Kinds), sent' = Append(sent, k)
    PROVE  /\ sent' \in Seq(Kinds)
           /\ Len(sent') = Len(sent) + 1
           /\ DOMAIN sent \subseteq DOMAIN sent'
           /\ Len(sent') \in DOMAIN sent'
  OBVIOUS

\* Sending an event keeps the typed parts that name events typed.
LEMMA EventsStayTyped ==
    ASSUME TypeInv, DOMAIN sent \subseteq DOMAIN sent',
           UNCHANGED <<pending, mouse, handled, queue>>
    PROVE  /\ pending' \in DOMAIN sent' \cup {None} /\ mouse' \in DOMAIN sent' \cup {None}
           /\ handled' \in Seq(DOMAIN sent') /\ queue' \in Seq(DOMAIN sent')
           /\ socket \in Seq(DOMAIN sent')
<1> DEFINE S == DOMAIN sent  T == DOMAIN sent'
<1>1. queue \in Seq(S) /\ socket \in Seq(S) /\ handled \in Seq(S) /\ S \subseteq T
  BY DEF TypeInv
<1> HIDE DEF S, T
<1>2. queue \in Seq(T) /\ socket \in Seq(T) /\ handled \in Seq(T)
  BY <1>1, SeqMonotone
<1>3. QED
  BY <1>2 DEF TypeInv, S, T

-----------------------------------------------------------------------------
(* One lemma per kind of step.                                             *)

LEMMA NextStageFacts ==
    ASSUME stage \in DOMAIN Stages, pc = "refresh", NextStage
    PROVE  /\ stage' \in DOMAIN Stages
           /\ \/ stage \in 1..7 /\ stage' = stage + 1 /\ pc' = "refresh"
              \/ stage = 8 /\ stage' = 1 /\ pc' = "peek"
BY StagesFacts DEF NextStage

\* A stage other than the flush is one of the first seven.
LEMMA NotFlush ==
    ASSUME stage \in DOMAIN Stages, Stages[stage] # "flush"
    PROVE  stage \in 1..7
BY StagesFacts

LEMMA DelayedCallsKeeps == IInv /\ DelayedCalls => IInv'
<1> SUFFICES ASSUME IInv, DelayedCalls PROVE IInv'
  OBVIOUS
<1>1. stage \in 1..7 /\ stage = 1 /\ stage' = 2 /\ pc' = "refresh"
  BY NextStageFacts, NotFlush, StagesFacts DEF DelayedCalls, IInv, TypeInv
<1>2. deferred' \subseteq Deferrable \ {"delayed"}
  BY DEF DelayedCalls, IInv, TypeInv
<1>3. deferred' \subseteq Later(2)
  BY <1>2, LaterFacts, StagesFacts
<1>4. TypeInv'
  BY <1>1, <1>2, StagesFacts DEF DelayedCalls, IInv, TypeInv, serverVars
<1>5. PcInv'
  BY <1>1 DEF DelayedCalls, IInv, PcInv, serverVars
<1>6. LeftoverInv'
  BY <1>1, <1>3 DEF LeftoverInv
<1>7. QED
  BY <1>4, <1>5, <1>6 DEF IInv

LEMMA QuietStageKeeps == IInv /\ QuietStage => IInv'
<1> SUFFICES ASSUME IInv, QuietStage PROVE IInv'
  OBVIOUS
<1>1. stage \in 1..7 /\ stage' = stage + 1 /\ pc' = "refresh" /\ stage' \in DOMAIN Stages
  BY NextStageFacts, NotFlush DEF QuietStage, IInv, TypeInv
<1>2. UNCHANGED <<pending, mouse, buffered, flushed, socket, queue>>
  BY DEF QuietStage, serverVars
<1>3. deferred' = deferred \ {Stages[stage]}
  BY DEF QuietStage
<1>4. TypeInv'
  BY <1>1, <1>3 DEF QuietStage, IInv, TypeInv, serverVars
<1>5. PcInv'
  BY <1>1, <1>2 DEF QuietStage, IInv, PcInv
<1>6. LeftoverInv'
  <2>1. CASE Evidence
    BY <1>1, <1>2, <2>1 DEF LeftoverInv, Evidence
  <2>2. CASE ~Evidence
    <3>1. deferred \subseteq Later(stage)
      BY <2>2 DEF IInv, LeftoverInv, QuietStage
    <3>2. deferred' \subseteq Later(stage + 1)
      BY <1>1, <1>3, <3>1, LaterFacts
    <3>3. QED
      BY <1>1, <3>2 DEF LeftoverInv
  <2>3. QED
    BY <2>1, <2>2
<1>7. QED
  BY <1>4, <1>5, <1>6 DEF IInv

\* The request in the output buffer is the evidence for whatever is left.
LEMMA NoisyStageKeeps == IInv /\ NoisyStage => IInv'
<1> SUFFICES ASSUME IInv, NoisyStage PROVE IInv'
  OBVIOUS
<1>1. stage \in 1..7 /\ stage' = stage + 1 /\ pc' = "refresh" /\ stage' \in DOMAIN Stages
  BY NextStageFacts, NotFlush DEF NoisyStage, IInv, TypeInv
<1>2. deferred' \subseteq Deferrable
  BY DEF NoisyStage, IInv, TypeInv
<1>3. /\ buffered' = buffered + 1 /\ buffered \in Nat /\ flushed \in Nat /\ Len(sent) \in Nat
      /\ Len(sent) + buffered + flushed < MaxEvents
  BY DEF NoisyStage, IInv, TypeInv
<1>4. TypeInv'
  BY <1>1, <1>2, <1>3, MainLoopAssumption DEF NoisyStage, IInv, TypeInv, serverVars
<1>5. PcInv'
  BY <1>1 DEF NoisyStage, IInv, PcInv, serverVars
<1>6. LeftoverInv'
  BY <1>1, <1>3 DEF LeftoverInv, Evidence
<1>7. QED
  BY <1>4, <1>5, <1>6 DEF IInv

LEMMA FlushKeeps == IInv /\ Flush => IInv'
<1> SUFFICES ASSUME IInv, Flush PROVE IInv'
  OBVIOUS
<1>1. stage = 8 /\ stage' = 1 /\ pc' = "peek" /\ stage' \in DOMAIN Stages
  BY NextStageFacts, StagesFacts DEF Flush, IInv, TypeInv
<1>2. buffered \in Nat /\ flushed \in Nat /\ flushed' = flushed + buffered /\ buffered' = 0 /\ deferred' = deferred
  BY DEF Flush, IInv, TypeInv
<1>3. TypeInv'
  BY <1>1, <1>2 DEF Flush, IInv, TypeInv
<1>4. PcInv'
  BY <1>1, <1>2 DEF Flush, IInv, PcInv
<1>5. deferred = {} \/ Evidence
  BY <1>1, LaterFacts, StagesFacts DEF Flush, IInv, TypeInv, LeftoverInv
<1>6. LeftoverInv'
  BY <1>1, <1>2, <1>5 DEF LeftoverInv, Evidence, Flush
<1>7. QED
  BY <1>3, <1>4, <1>6 DEF IInv

LEMMA PeekKeeps == IInv /\ Peek => IInv'
<1> SUFFICES ASSUME IInv, Peek PROVE IInv'
  OBVIOUS
<1>1. /\ pc = "peek" /\ pc' = "poll" /\ stage' = stage /\ deferred' = deferred /\ mouse' = mouse
      /\ buffered' = buffered /\ flushed' = flushed /\ sent' = sent /\ source' = source /\ handled' = handled
  BY DEF Peek
<1>2. /\ pending' \in DOMAIN sent \cup {None}
      /\ queue' \in Seq(DOMAIN sent) /\ socket' \in Seq(DOMAIN sent)
  <2>1. CASE queue # <<>> /\ pending' = Head(queue) /\ queue' = Tail(queue) /\ UNCHANGED socket
    BY <2>1, HeadTail DEF IInv, TypeInv
  <2>2. CASE socket # <<>> /\ pending' = Head(socket) /\ queue' = Tail(socket) /\ socket' = <<>>
    BY <2>2, HeadTail DEF IInv, TypeInv
  <2>3. CASE UNCHANGED <<pending, queue, socket>>
    BY <2>3 DEF IInv, TypeInv
  <2>4. QED
    BY <2>1, <2>2, <2>3 DEF Peek
<1>3. TypeInv'
  BY <1>1, <1>2 DEF IInv, TypeInv
<1>4. /\ pending' = None => queue = <<>> /\ socket = <<>> /\ queue' = <<>> /\ socket' = <<>>
  <2>1. CASE queue # <<>> /\ pending' = Head(queue)
    BY <2>1, HeadTail, MainLoopAssumption DEF IInv, TypeInv
  <2>2. CASE socket # <<>> /\ pending' = Head(socket)
    BY <2>2, HeadTail, MainLoopAssumption DEF IInv, TypeInv
  <2>3. CASE queue = <<>> /\ socket = <<>> /\ UNCHANGED <<pending, queue, socket>>
    BY <2>3
  <2>4. QED
    BY <2>1, <2>2, <2>3 DEF Peek
<1>5. PcInv'
  BY <1>1, <1>4 DEF IInv, PcInv
<1>6. LeftoverInv'
  BY <1>1, <1>4 DEF IInv, PcInv, LeftoverInv, Evidence
<1>7. QED
  BY <1>3, <1>5, <1>6 DEF IInv

LEMMA WakeUpKeeps == IInv /\ WakeUp => IInv'
BY DEF IInv, TypeInv, PcInv, LeftoverInv, Evidence, WakeUp, serverVars

\* What poll_for_event takes is an event, and the rest stays typed.
LEMMA PollForEventTyped ==
    ASSUME TypeInv, NEW e, PollForEvent(e)
    PROVE  /\ pending' \in DOMAIN sent \cup {None}
           /\ queue' \in Seq(DOMAIN sent) /\ socket' \in Seq(DOMAIN sent)
BY HeadTail DEF TypeInv, PollForEvent

LEMMA KeepMotionKeeps == IInv /\ KeepMotion => IInv'
<1> SUFFICES ASSUME IInv, NEW e \in DOMAIN sent, pc = "check", PollForEvent(e), mouse' = e,
                    UNCHANGED <<pc, stage, deferred, source, buffered, flushed, sent, handled>>
             PROVE  IInv'
  BY DEF KeepMotion
<1>1. TypeInv'
  BY PollForEventTyped DEF IInv, TypeInv
<1>2. QED
  BY <1>1 DEF IInv, PcInv, LeftoverInv

LEMMA HandleEventKeeps == IInv /\ HandleEvent => IInv'
<1> SUFFICES ASSUME IInv, NEW e \in DOMAIN sent, pc = "check", PollForEvent(e), LuaDefers,
                    IF mouse # None /\ sent[e] \in {"crossing", "button"}
                    THEN handled' = handled \o <<mouse, e>> /\ mouse' = None
                    ELSE handled' = Append(handled, e) /\ UNCHANGED mouse,
                    UNCHANGED <<pc, stage, source, buffered, flushed, sent>>
             PROVE  IInv'
  BY DEF HandleEvent
<1>1. handled' \in Seq(DOMAIN sent) /\ mouse' \in DOMAIN sent \cup {None}
  <2> DEFINE S == DOMAIN sent
  <2>1. handled \in Seq(S) /\ e \in S /\ mouse \in S \cup {None}
    BY DEF IInv, TypeInv
  <2> HIDE DEF S
  <2>2. CASE mouse # None /\ handled' = handled \o <<mouse, e>> /\ mouse' = None
    <3>1. <<mouse, e>> \in Seq(S)
      BY <2>1, <2>2
    <3>2. QED
      BY <2>1, <2>2, <3>1, ConcatProperties DEF S
  <2>3. CASE handled' = Append(handled, e) /\ UNCHANGED mouse
    BY <2>1, <2>3, AppendProperties DEF S
  <2>4. QED
    BY <2>2, <2>3
<1>2. deferred' \subseteq Deferrable
  BY DEF LuaDefers, IInv, TypeInv
<1>3. TypeInv'
  BY <1>1, <1>2, PollForEventTyped DEF IInv, TypeInv
<1>4. QED
  BY <1>3 DEF IInv, PcInv, LeftoverInv

LEMMA CheckDoneKeeps == IInv /\ CheckDone => IInv'
<1> SUFFICES ASSUME IInv, CheckDone PROVE IInv'
  OBVIOUS
<1>1. handled' \in Seq(DOMAIN sent)
  <2>1. CASE mouse = None
    BY <2>1 DEF CheckDone, IInv, TypeInv
  <2>2. CASE mouse # None
    BY <2>2, AppendProperties, SMTT(30) DEF CheckDone, IInv, TypeInv
  <2>3. QED
    BY <2>1, <2>2
<1>2. deferred' \subseteq Deferrable
  BY DEF CheckDone, LuaDefers, IInv, TypeInv
<1>3. TypeInv'
  BY <1>1, <1>2 DEF CheckDone, IInv, TypeInv, serverVars
<1>4. QED
  BY <1>3 DEF CheckDone, IInv, PcInv, LeftoverInv

LEMMA DispatchKeeps == IInv /\ Dispatch => IInv'
<1> SUFFICES ASSUME IInv, Dispatch PROVE IInv'
  OBVIOUS
<1>1. deferred' \subseteq Deferrable
  BY DEF Dispatch, LuaDefers, IInv, TypeInv
<1>2. TypeInv'
  BY <1>1 DEF Dispatch, IInv, TypeInv, serverVars
<1>3. stage' = 1
  BY DEF Dispatch, IInv, PcInv
<1>4. LeftoverInv'
  BY <1>1, <1>3, LaterFacts DEF Dispatch, LeftoverInv
<1>5. PcInv'
  BY DEF Dispatch, IInv, PcInv, serverVars
<1>6. QED
  BY <1>2, <1>4, <1>5 DEF IInv

LEMMA RoundTripKeeps == IInv /\ RoundTrip => IInv'
<1> SUFFICES ASSUME IInv, RoundTrip PROVE IInv'
  OBVIOUS
<1>1. queue' \in Seq(DOMAIN sent) /\ socket' \in Seq(DOMAIN sent)
  BY ConcatProperties DEF RoundTrip, IInv, TypeInv
<1>2. TypeInv'
  BY <1>1 DEF RoundTrip, IInv, TypeInv, loopVars
<1>3. PcInv'
  BY DEF RoundTrip, IInv, PcInv, loopVars
<1>4. Evidence => Evidence'
  <2>1. socket # <<>> => queue' # <<>>
    BY ConcatProperties, EmptySeq DEF RoundTrip, IInv, TypeInv
  <2>2. queue # <<>> => queue' # <<>>
    BY ConcatProperties, EmptySeq DEF RoundTrip, IInv, TypeInv
  <2>3. buffered > 0 \/ flushed > 0 => flushed' > 0
    BY DEF RoundTrip, IInv, TypeInv
  <2>4. QED
    BY <2>1, <2>2, <2>3 DEF Evidence, RoundTrip, loopVars
<1>5. LeftoverInv'
  BY <1>4 DEF RoundTrip, IInv, LeftoverInv, loopVars
<1>6. QED
  BY <1>2, <1>3, <1>5 DEF IInv

\* Both kinds of events arrive on the socket.
LEMMA SendKeeps == IInv /\ (UserEvent \/ Execute) => IInv'
<1> SUFFICES ASSUME IInv, UserEvent \/ Execute PROVE IInv'
  OBVIOUS
<1>1. PICK k \in Kinds : sent' = Append(sent, k)
  BY MainLoopAssumption DEF UserEvent, Execute
<1>2. /\ sent' \in Seq(Kinds) /\ Len(sent') = Len(sent) + 1
      /\ DOMAIN sent \subseteq DOMAIN sent' /\ Len(sent') \in DOMAIN sent'
  BY <1>1, SendFacts DEF IInv, TypeInv
<1>3. /\ UNCHANGED <<pc, stage, pending, mouse, deferred, source, buffered, handled, queue>>
      /\ socket' = Append(socket, Len(sent'))
      /\ flushed' \in Nat /\ Len(sent') + buffered' + flushed' <= MaxEvents
  <2>0. /\ buffered \in Nat /\ flushed \in Nat /\ Len(sent) \in Nat
        /\ Len(sent) + buffered + flushed <= MaxEvents /\ MaxEvents \in Nat
    BY MainLoopAssumption DEF IInv, TypeInv
  <2>1. CASE UserEvent
    BY <2>0, <2>1, <1>2 DEF UserEvent, loopVars
  <2>2. CASE Execute
    BY <2>0, <2>2, <1>2 DEF Execute, loopVars
  <2>3. QED
    BY <2>1, <2>2
<1>4. /\ pending' \in DOMAIN sent' \cup {None} /\ mouse' \in DOMAIN sent' \cup {None}
      /\ handled' \in Seq(DOMAIN sent') /\ queue' \in Seq(DOMAIN sent')
      /\ socket \in Seq(DOMAIN sent')
  BY <1>2, <1>3, EventsStayTyped DEF IInv
<1>5. socket' \in Seq(DOMAIN sent') /\ socket' # <<>>
  BY <1>2, <1>3, <1>4, AppendProperties, EmptySeq
<1>6. TypeInv'
  BY <1>2, <1>3, <1>4, <1>5 DEF IInv, TypeInv
<1>7. QED
  BY <1>3, <1>5, <1>6 DEF IInv, PcInv, LeftoverInv, Evidence

LEMMA SourceReadyKeeps == IInv /\ SourceReady => IInv'
BY DEF IInv, TypeInv, PcInv, LeftoverInv, Evidence, SourceReady, loopVars, serverVars

LEMMA StutteringKeeps == IInv /\ UNCHANGED vars => IInv'
BY DEF IInv, TypeInv, PcInv, LeftoverInv, Evidence, vars, loopVars, serverVars

-----------------------------------------------------------------------------

LEMMA InitIInv == Init => IInv
<1> SUFFICES ASSUME Init PROVE IInv
  OBVIOUS
<1>1. sent \in Seq(Kinds) /\ Len(sent) = 0
  BY EmptySeq DEF Init
<1>2. queue \in Seq(DOMAIN sent) /\ socket \in Seq(DOMAIN sent) /\ handled \in Seq(DOMAIN sent)
  BY EmptySeq DEF Init
<1>3. TypeInv
  <2>1. Len(sent) + buffered + flushed <= MaxEvents
    BY <1>1, MainLoopAssumption DEF Init
  <2>2. stage \in DOMAIN Stages
    BY StagesFacts DEF Init
  <2>3. QED
    BY <1>1, <1>2, <2>1, <2>2 DEF Init, TypeInv
<1>4. QED
  BY <1>3 DEF Init, IInv, PcInv, LeftoverInv

LEMMA NextIInv == IInv /\ [Next]_vars => IInv'
BY DelayedCallsKeeps, QuietStageKeeps, NoisyStageKeeps, FlushKeeps, PeekKeeps, WakeUpKeeps,
   KeepMotionKeeps, HandleEventKeeps, CheckDoneKeeps, DispatchKeeps, RoundTripKeeps, SendKeeps,
   SourceReadyKeeps, StutteringKeeps
DEF Next, Loop

THEOREM Inductive == Spec => []IInv
<1>1. QED BY InitIInv, NextIInv, PTL DEF Spec

\* Type correctness; the last conjunct of TypeOK contains the assertion of
\* a_glib_poll that globalconf.pending_event is NULL.
THEOREM TypeCorrect == Spec => []TypeOK
<1>1. IInv => TypeOK
  <2> SUFFICES ASSUME IInv PROVE TypeOK
    OBVIOUS
  <2>1. buffered \in 0..MaxEvents /\ flushed \in 0..MaxEvents
    <3>1. Len(sent) \in Nat
      BY DEF IInv, TypeInv
    <3>2. QED
      BY <3>1, MainLoopAssumption DEF IInv, TypeInv
  <2>2. pc \in {"refresh", "peek"} => pending = None /\ mouse = None
    BY DEF IInv, PcInv
  <2>3. QED
    BY <2>1, <2>2 DEF TypeOK, IInv, TypeInv
<1>2. QED BY <1>1, Inductive, PTL

\* Whatever awaits replies and thereby fills libxcb's queue, the process never
\* goes to sleep with an event in it, nor with requests that it has not sent.
THEOREM SleepsOnlyWhenIdle == Spec => []NoSleepOverWork
<1>1. IInv => NoSleepOverWork
  BY DEF IInv, PcInv, NoSleepOverWork, Asleep
<1>2. QED BY <1>1, Inductive, PTL

\* Deferred work that Lua code adds too late in a refresh never waits for the
\* user: an event that is caused by the same refresh ends the sleep.
THEOREM LeftoverWorkIsPickedUp == Spec => []LeftoverWorkWakesUp
<1>1. IInv => LeftoverWorkWakesUp
  BY DEF IInv, TypeInv, PcInv, LeftoverInv, Evidence, LeftoverWorkWakesUp, Asleep
<1>2. QED BY <1>1, Inductive, PTL
-----------------------------------------------------------------------------
(* The order of the events.  MotionInOrder speaks of what has been handled *)
(* only; what keeps it true is that the events that are not handled yet    *)
(* stand in line by number, in three places, and that the motion event     *)
(* which waits, or the last one handled, is the last of those taken.       *)

Ahead == IF pending = None THEN 0 ELSE 1

\* How many events poll_for_event has returned.
Taken == Len(sent) - Len(socket) - Len(queue) - Ahead

InLine ==
    /\ Taken \in Nat
    /\ pending # None => pending = Taken + 1
    /\ \A i \in 1..Len(queue) : queue[i] = Taken + Ahead + i
    /\ \A i \in 1..Len(socket) : socket[i] = Taken + Ahead + Len(queue) + i

MotionInv ==
    /\ \A i \in 1..Len(handled) : handled[i] \in 1..Taken
    /\ mouse # None => mouse \in LastMotionBefore(Taken + 1)
    /\ mouse = None => LastMotionBefore(Taken + 1) \subseteq {handled[k] : k \in 1..Len(handled)}
    /\ MotionInOrder

OrderInv == InLine /\ MotionInv

LEMMA Lengths ==
    ASSUME TypeInv
    PROVE  /\ Len(sent) \in Nat /\ DOMAIN sent = 1..Len(sent)
           /\ Len(queue) \in Nat /\ Len(socket) \in Nat
           /\ Len(handled) \in Nat /\ DOMAIN handled = 1..Len(handled)
           /\ (queue = <<>>) <=> (Len(queue) = 0)
           /\ (socket = <<>>) <=> (Len(socket) = 0)
           /\ None \notin 1..Len(sent)
<1>1. Len(sent) \in Nat /\ DOMAIN sent = 1..Len(sent)
  BY LenProperties DEF TypeInv
<1>2. /\ Len(queue) \in Nat /\ Len(socket) \in Nat
      /\ Len(handled) \in Nat /\ DOMAIN handled = 1..Len(handled)
  BY LenProperties DEF TypeInv
<1>3. /\ (queue = <<>>) <=> (Len(queue) = 0)
      /\ (socket = <<>>) <=> (Len(socket) = 0)
  BY EmptySeq, LenProperties DEF TypeInv
<1>4. None \notin 1..Len(sent)
  BY <1>1, MainLoopAssumption
<1>5. QED BY <1>1, <1>2, <1>3, <1>4

\* The first of a list and the others, by position.
LEMMA TailByPosition ==
    ASSUME NEW S, NEW s \in Seq(S), s # <<>>
    PROVE  /\ Head(s) = s[1] /\ 1 \in 1..Len(s) /\ Len(s) \in Nat
           /\ Len(Tail(s)) = Len(s) - 1 /\ \A i \in 1..Len(Tail(s)) : Tail(s)[i] = s[i + 1]
BY HeadTailProperties, EmptySeq, LenProperties

LEMMA PollTakesNext ==
    ASSUME TypeInv, InLine, NEW e, PollForEvent(e), sent' = sent
    PROVE  e = Taken + 1 /\ Taken' = Taken + 1 /\ InLine'
<1>1. /\ Len(sent) \in Nat /\ Len(queue) \in Nat /\ Len(socket) \in Nat /\ None \notin 1..Len(sent)
      /\ (queue = <<>>) <=> (Len(queue) = 0)
      /\ (socket = <<>>) <=> (Len(socket) = 0)
      /\ queue \in Seq(DOMAIN sent) /\ socket \in Seq(DOMAIN sent)
  BY Lengths DEF TypeInv
<1>2. CASE pending # None /\ e = pending /\ pending' = None /\ UNCHANGED <<queue, socket>>
  BY <1>1, <1>2 DEF InLine, Taken, Ahead
<1>3. CASE /\ pending = None /\ queue # <<>> /\ e = Head(queue)
           /\ queue' = Tail(queue) /\ UNCHANGED <<pending, socket>>
  <2>1. /\ e = queue[1] /\ 1 \in 1..Len(queue)
        /\ Len(queue') = Len(queue) - 1 /\ \A i \in 1..Len(queue') : queue'[i] = queue[i + 1]
    BY <1>1, <1>3, TailByPosition
  <2>2. Taken' = Taken + 1 /\ Ahead = 0 /\ Ahead' = 0
    BY <1>1, <1>3, <2>1 DEF Taken, Ahead
  <2>3. e = Taken + 1
    BY <2>1, <2>2 DEF InLine
  <2>4. \A i \in 1..Len(queue') : queue'[i] = Taken' + Ahead' + i
    <3> SUFFICES ASSUME NEW i \in 1..Len(queue') PROVE queue'[i] = Taken' + Ahead' + i
      OBVIOUS
    <3>1. i + 1 \in 1..Len(queue)
      BY <1>1, <2>1
    <3>2. QED BY <2>1, <2>2, <3>1 DEF InLine
  <2>5. \A i \in 1..Len(socket') : socket'[i] = Taken' + Ahead' + Len(queue') + i
    BY <1>1, <1>3, <2>1, <2>2 DEF InLine
  <2>6. QED BY <1>3, <2>2, <2>3, <2>4, <2>5 DEF InLine
<1>4. CASE /\ pending = None /\ queue = <<>> /\ socket # <<>> /\ e = Head(socket)
           /\ queue' = Tail(socket) /\ socket' = <<>> /\ UNCHANGED pending
  <2>1. /\ e = socket[1] /\ 1 \in 1..Len(socket)
        /\ Len(queue') = Len(socket) - 1 /\ \A i \in 1..Len(queue') : queue'[i] = socket[i + 1]
        /\ Len(socket') = 0 /\ Len(queue) = 0
    BY <1>1, <1>4, TailByPosition
  <2>2. Taken' = Taken + 1 /\ Ahead = 0 /\ Ahead' = 0
    BY <1>1, <1>4, <2>1 DEF Taken, Ahead
  <2>3. e = Taken + 1
    BY <2>1, <2>2 DEF InLine
  <2>4. \A i \in 1..Len(queue') : queue'[i] = Taken' + Ahead' + i
    <3> SUFFICES ASSUME NEW i \in 1..Len(queue') PROVE queue'[i] = Taken' + Ahead' + i
      OBVIOUS
    <3>1. i + 1 \in 1..Len(socket)
      BY <1>1, <2>1
    <3>2. QED BY <2>1, <2>2, <3>1 DEF InLine
  <2>5. QED BY <1>4, <2>1, <2>2, <2>3, <2>4 DEF InLine
<1>5. QED BY <1>2, <1>3, <1>4 DEF PollForEvent

\* Events are moved closer without being taken.
LEMMA PeekStaysInLine ==
    ASSUME IInv, InLine, Peek
    PROVE  InLine' /\ Taken' = Taken
<1>1. /\ Len(sent) \in Nat /\ Len(queue) \in Nat /\ Len(socket) \in Nat /\ None \notin 1..Len(sent)
      /\ (queue = <<>>) <=> (Len(queue) = 0)
      /\ (socket = <<>>) <=> (Len(socket) = 0)
      /\ queue \in Seq(DOMAIN sent) /\ socket \in Seq(DOMAIN sent) /\ DOMAIN sent = 1..Len(sent)
  BY Lengths DEF IInv, TypeInv
<1>2. sent' = sent /\ pending = None /\ Ahead = 0
  BY DEF Peek, IInv, PcInv, Ahead
<1>3. CASE queue # <<>> /\ pending' = Head(queue) /\ queue' = Tail(queue) /\ UNCHANGED socket
  <2>1. /\ pending' = queue[1] /\ 1 \in 1..Len(queue) /\ pending' # None
        /\ Len(queue') = Len(queue) - 1 /\ \A i \in 1..Len(queue') : queue'[i] = queue[i + 1]
    BY <1>1, <1>3, TailByPosition, HeadTail
  <2>2. Taken' = Taken /\ Ahead' = 1
    BY <1>1, <1>2, <1>3, <2>1 DEF Taken, Ahead
  <2>3. pending' = Taken + 1
    BY <1>2, <2>1 DEF InLine
  <2>4. \A i \in 1..Len(queue') : queue'[i] = Taken' + Ahead' + i
    <3> SUFFICES ASSUME NEW i \in 1..Len(queue') PROVE queue'[i] = Taken' + Ahead' + i
      OBVIOUS
    <3>1. i + 1 \in 1..Len(queue)
      BY <1>1, <2>1
    <3>2. QED BY <1>2, <2>1, <2>2, <3>1 DEF InLine
  <2>5. \A i \in 1..Len(socket') : socket'[i] = Taken' + Ahead' + Len(queue') + i
    BY <1>1, <1>2, <1>3, <2>1, <2>2 DEF InLine
  <2>6. QED BY <2>2, <2>3, <2>4, <2>5 DEF InLine
<1>4. CASE queue = <<>> /\ socket # <<>> /\ pending' = Head(socket) /\ queue' = Tail(socket) /\ socket' = <<>>
  <2>1. /\ pending' = socket[1] /\ 1 \in 1..Len(socket) /\ pending' # None
        /\ Len(queue') = Len(socket) - 1 /\ \A i \in 1..Len(queue') : queue'[i] = socket[i + 1]
        /\ Len(socket') = 0 /\ Len(queue) = 0
    BY <1>1, <1>4, TailByPosition, HeadTail
  <2>2. Taken' = Taken /\ Ahead' = 1
    BY <1>1, <1>2, <1>4, <2>1 DEF Taken, Ahead
  <2>3. pending' = Taken + 1
    BY <1>2, <2>1 DEF InLine
  <2>4. \A i \in 1..Len(queue') : queue'[i] = Taken' + Ahead' + i
    <3> SUFFICES ASSUME NEW i \in 1..Len(queue') PROVE queue'[i] = Taken' + Ahead' + i
      OBVIOUS
    <3>1. i + 1 \in 1..Len(socket)
      BY <1>1, <2>1
    <3>2. QED BY <1>2, <2>1, <2>2, <3>1 DEF InLine
  <2>5. QED BY <2>1, <2>2, <2>3, <2>4 DEF InLine
<1>5. CASE UNCHANGED <<pending, queue, socket>>
  BY <1>2, <1>5 DEF InLine, Taken, Ahead
<1>6. QED BY <1>3, <1>4, <1>5 DEF Peek

LEMMA RoundTripStaysInLine ==
    ASSUME IInv, InLine, RoundTrip
    PROVE  InLine' /\ Taken' = Taken
<1>1. /\ Len(sent) \in Nat /\ Len(queue) \in Nat /\ Len(socket) \in Nat
      /\ queue \in Seq(DOMAIN sent) /\ socket \in Seq(DOMAIN sent)
  BY Lengths DEF IInv, TypeInv
<1>2. sent' = sent /\ pending' = pending /\ queue' = queue \o socket /\ socket' = <<>>
  BY DEF RoundTrip, loopVars
<1>3. /\ Len(queue') = Len(queue) + Len(socket) /\ Len(socket') = 0
      /\ \A i \in 1..Len(queue') : queue'[i] = IF i <= Len(queue) THEN queue[i] ELSE socket[i - Len(queue)]
  BY <1>1, <1>2, ConcatProperties
<1>4. Ahead' = Ahead /\ Taken' = Taken /\ Ahead \in Nat /\ Taken \in Nat
  BY <1>1, <1>2, <1>3 DEF Taken, Ahead, InLine
<1>5. \A i \in 1..Len(queue') : queue'[i] = Taken + Ahead + i
  <2> SUFFICES ASSUME NEW i \in 1..Len(queue') PROVE queue'[i] = Taken + Ahead + i
    OBVIOUS
  <2>1. CASE i <= Len(queue)
    <3>1. i \in 1..Len(queue)
      BY <1>1, <2>1
    <3>2. QED BY <1>3, <2>1, <3>1 DEF InLine
  <2>2. CASE ~(i <= Len(queue))
    <3>1. i - Len(queue) \in 1..Len(socket)
      BY <1>1, <1>3, <2>2
    <3>2. socket[i - Len(queue)] = Taken + Ahead + Len(queue) + (i - Len(queue))
      BY <3>1 DEF InLine
    <3>3. QED BY <1>1, <1>3, <1>4, <2>2, <3>2
  <2>3. QED BY <2>1, <2>2
<1>6. QED BY <1>2, <1>3, <1>4, <1>5 DEF InLine

\* What is sent stands in line behind the others.
LEMMA SendStaysInLine ==
    ASSUME IInv, InLine, UserEvent \/ Execute
    PROVE  /\ InLine' /\ Taken' = Taken /\ Len(sent') = Len(sent) + 1
           /\ \A i \in 1..Len(sent) : sent'[i] = sent[i]
<1>1. /\ Len(sent) \in Nat /\ Len(queue) \in Nat /\ Len(socket) \in Nat
      /\ socket \in Seq(DOMAIN sent) /\ sent \in Seq(Kinds)
  BY Lengths DEF IInv, TypeInv
<1>2. PICK k \in Kinds : sent' = Append(sent, k)
  BY MainLoopAssumption DEF UserEvent, Execute
<1>3. Len(sent') = Len(sent) + 1 /\ \A i \in 1..Len(sent) : sent'[i] = sent[i]
  BY <1>1, <1>2, AppendProperties
<1>4. pending' = pending /\ queue' = queue /\ socket' = Append(socket, Len(sent'))
  BY DEF UserEvent, Execute, loopVars
<1>5. /\ Len(socket') = Len(socket) + 1 /\ socket'[Len(socket) + 1] = Len(sent')
      /\ \A i \in 1..Len(socket) : socket'[i] = socket[i]
  <2>1. DOMAIN sent \subseteq Nat /\ Len(sent') \in Nat
    BY <1>1, <1>3, LenProperties
  <2>2. socket \in Seq(Nat)
    BY <1>1, <2>1, SeqMonotone
  <2>3. QED BY <1>4, <2>1, <2>2, AppendProperties
<1>6. Ahead' = Ahead /\ Taken' = Taken /\ Ahead \in Nat /\ Taken \in Nat
  BY <1>1, <1>3, <1>4, <1>5 DEF Taken, Ahead, InLine
<1>7. Len(sent') = Taken + Ahead + Len(queue) + (Len(socket) + 1)
  <2>1. Taken = Len(sent) - Len(socket) - Len(queue) - Ahead
    BY DEF Taken
  <2>2. QED BY ONLY <1>1, <1>3, <1>6, <2>1
<1>8. \A i \in 1..Len(socket') : socket'[i] = Taken' + Ahead' + Len(queue') + i
  <2> SUFFICES ASSUME NEW i \in 1..Len(socket') PROVE socket'[i] = Taken' + Ahead' + Len(queue') + i
    OBVIOUS
  <2>1. CASE i = Len(socket) + 1
    BY <1>4, <1>5, <1>6, <1>7, <2>1
  <2>2. CASE i # Len(socket) + 1
    <3>1. i \in 1..Len(socket)
      BY <1>1, <1>5, <2>2
    <3>2. QED BY <1>4, <1>5, <1>6, <3>1 DEF InLine
  <2>3. QED BY <2>1, <2>2
<1>9. QED BY <1>3, <1>4, <1>6, <1>8 DEF InLine

-----------------------------------------------------------------------------
(* The last motion.                                                        *)

LEMMA LastMotionFacts ==
    ASSUME NEW n \in Nat
    PROVE  /\ \A l, m \in LastMotionBefore(n + 1) : l = m
           /\ LastMotionBefore(n + 1) \subseteq 1..n
           /\ sent[n + 1] = "motion" => n + 1 \in LastMotionBefore(n + 2)
           /\ sent[n + 1] # "motion" => LastMotionBefore(n + 2) = LastMotionBefore(n + 1)
           /\ \A m \in LastMotionBefore(n + 1) : sent[m] = "motion"
<1>1. /\ n + 1 - 1 = n /\ n + 2 - 1 = n + 1
  OBVIOUS
<1>2. LastMotionBefore(n + 1) = {m \in 1..n : sent[m] = "motion" /\ \A k \in (m + 1)..n : sent[k] # "motion"}
  BY <1>1 DEF LastMotionBefore
<1>3. LastMotionBefore(n + 2) = {m \in 1..(n + 1) : sent[m] = "motion" /\ \A k \in (m + 1)..(n + 1) : sent[k] # "motion"}
  BY <1>1 DEF LastMotionBefore
<1>4. ASSUME NEW l \in LastMotionBefore(n + 1), NEW m \in LastMotionBefore(n + 1) PROVE l = m
  <2>1. ~(l < m) /\ ~(m < l)
    BY <1>2
  <2>2. QED BY <1>2, <2>1
<1>5. sent[n + 1] = "motion" => n + 1 \in LastMotionBefore(n + 2)
  BY <1>3
<1>6. ASSUME sent[n + 1] # "motion" PROVE LastMotionBefore(n + 2) = LastMotionBefore(n + 1)
  <2>1. ASSUME NEW m \in LastMotionBefore(n + 2) PROVE m \in LastMotionBefore(n + 1)
    <3>1. m \in 1..n /\ \A k \in (m + 1)..n : k \in (m + 1)..(n + 1)
      BY <1>3, <1>6, <2>1
    <3>2. QED BY <1>2, <1>3, <2>1, <3>1
  <2>2. ASSUME NEW m \in LastMotionBefore(n + 1) PROVE m \in LastMotionBefore(n + 2)
    <3>1. m \in 1..(n + 1) /\ \A k \in (m + 1)..(n + 1) : k \in (m + 1)..n \/ k = n + 1
      BY <1>2, <2>2
    <3>2. QED BY <1>2, <1>3, <1>6, <2>2, <3>1
  <2>3. QED BY <2>1, <2>2
<1>7. QED BY <1>2, <1>4, <1>5, <1>6

\* Events that are sent later do not change what was last.
LEMMA LastMotionStays ==
    ASSUME NEW n \in Nat, \A i \in 1..n : sent'[i] = sent[i]
    PROVE  LastMotionBefore(n + 1)' = LastMotionBefore(n + 1)
<1>1. n + 1 - 1 = n
  OBVIOUS
<1>2. \A m \in 1..n : \A k \in (m + 1)..n : k \in 1..n
  OBVIOUS
<1>3. QED BY <1>1, <1>2 DEF LastMotionBefore

\* What is true of a crossing or button event that has been handled.
InOrder(i) ==
    sent[handled[i]] \in {"crossing", "button"} =>
        /\ LastMotionBefore(handled[i]) \subseteq {handled[k] : k \in 1..(i - 1)}
        /\ \A m \in {handled[k] : k \in 1..(i - 1)} : m < handled[i]

LEMMA MotionInOrderIs == MotionInOrder <=> \A i \in DOMAIN handled : InOrder(i)
BY DEF MotionInOrder, InOrder

\* Handling more leaves the order of what was handled as it was.
LEMMA InOrderStays ==
    ASSUME NEW i \in Nat, InOrder(i), \A k \in 1..i : handled'[k] = handled[k], i >= 1,
           handled[i] \in 1..Len(sent), Len(sent) \in Nat, \A k \in 1..Len(sent) : sent'[k] = sent[k]
    PROVE  InOrder(i)'
<1>1. handled'[i] = handled[i] /\ sent'[handled[i]] = sent[handled[i]]
  OBVIOUS
<1>2. \A k \in 1..(i - 1) : k \in 1..i
  OBVIOUS
<1>3. {handled'[k] : k \in 1..(i - 1)} = {handled[k] : k \in 1..(i - 1)}
  BY <1>2
<1>4. PICK n \in Nat : n + 1 = handled[i] /\ \A k \in 1..n : k \in 1..Len(sent)
  <2>1. handled[i] - 1 \in Nat /\ (handled[i] - 1) + 1 = handled[i]
    OBVIOUS
  <2>2. \A k \in 1..(handled[i] - 1) : k \in 1..Len(sent)
    OBVIOUS
  <2>3. QED BY <2>1, <2>2
<1>5. LastMotionBefore(n + 1)' = LastMotionBefore(n + 1)
  BY <1>4, LastMotionStays
<1>6. QED BY <1>1, <1>3, <1>4, <1>5 DEF InOrder

\* A step that takes and handles nothing.
LEMMA MotionStays ==
    ASSUME IInv, OrderInv, InLine', Taken' = Taken, handled' = handled, mouse' = mouse,
           Len(sent') >= Len(sent), \A i \in 1..Len(sent) : sent'[i] = sent[i]
    PROVE  OrderInv'
<1>1. /\ Taken \in Nat /\ Taken <= Len(sent) /\ Len(sent) \in Nat /\ \A i \in 1..Taken : i \in 1..Len(sent)
      /\ Len(handled) \in Nat /\ DOMAIN handled = 1..Len(handled)
  BY Lengths DEF OrderInv, InLine, Taken, Ahead, IInv
<1>2. LastMotionBefore(Taken + 1)' = LastMotionBefore(Taken + 1)
  <2>1. PICK n \in Nat : n = Taken
    BY <1>1
  <2>2. LastMotionBefore(n + 1)' = LastMotionBefore(n + 1)
    BY <1>1, <2>1, LastMotionStays
  <2>3. QED BY <2>1, <2>2
<1>3. ASSUME NEW i \in DOMAIN handled PROVE InOrder(i)'
  <2>1. i \in Nat /\ i >= 1 /\ InOrder(i) /\ handled[i] \in 1..Len(sent)
    BY <1>1, MotionInOrderIs DEF OrderInv, MotionInv
  <2>2. QED BY <1>1, <2>1, InOrderStays
<1>4. MotionInOrder'
  BY <1>3, MotionInOrderIs DEF InOrder, MotionInOrder
<1>5. QED BY <1>2, <1>4 DEF OrderInv, MotionInv
LEMMA KeepMotionInOrder ==
    ASSUME IInv, OrderInv, KeepMotion
    PROVE  OrderInv'
<1>1. PICK e \in DOMAIN sent : sent[e] = "motion" /\ PollForEvent(e) /\ mouse' = e
  BY DEF KeepMotion
<1>2. sent' = sent /\ handled' = handled
  BY DEF KeepMotion
<1>3. e = Taken + 1 /\ Taken' = Taken + 1 /\ InLine'
  BY <1>1, <1>2, PollTakesNext DEF IInv, OrderInv
<1>4. PICK n \in Nat : n = Taken
  BY DEF OrderInv, InLine
<1>5. n + 1 \in LastMotionBefore(n + 2)
  BY <1>1, <1>3, <1>4, LastMotionFacts
<1>6. LastMotionBefore(n + 2)' = LastMotionBefore(n + 2)
  BY <1>2 DEF LastMotionBefore
<1>7. Taken' + 1 = n + 2
  BY <1>3, <1>4
<1>8. mouse' \in LastMotionBefore(Taken + 1)' /\ mouse' # None
  BY <1>1, <1>3, <1>4, <1>5, <1>6, <1>7, Lengths DEF IInv
<1>9. \A i \in 1..Len(handled') : handled'[i] \in 1..Taken'
  BY <1>2, <1>3 DEF OrderInv, MotionInv, InLine
<1>10. MotionInOrder'
  BY <1>2 DEF OrderInv, MotionInv, MotionInOrder, LastMotionBefore
<1>11. QED BY <1>3, <1>8, <1>9, <1>10 DEF OrderInv, MotionInv

\* What is handled is handled in order, since whatever comes first in line is the
\* number after those taken, and the motion event that waits is the last motion.
LEMMA HandleEventInOrder ==
    ASSUME IInv, OrderInv, HandleEvent
    PROVE  OrderInv'
<1>1. PICK e \in DOMAIN sent :
        /\ sent[e] # "motion"
        /\ PollForEvent(e)
        /\ IF mouse # None /\ sent[e] \in {"crossing", "button"}
           THEN handled' = handled \o <<mouse, e>> /\ mouse' = None
           ELSE handled' = Append(handled, e) /\ UNCHANGED mouse
  BY DEF HandleEvent
<1>2. sent' = sent
  BY DEF HandleEvent
<1>3. e = Taken + 1 /\ Taken' = Taken + 1 /\ InLine'
  BY <1>1, <1>2, PollTakesNext DEF IInv, OrderInv
<1>4. PICK n \in Nat : n = Taken
  BY DEF OrderInv, InLine
<1>5. /\ LastMotionBefore(n + 2) = LastMotionBefore(n + 1)
      /\ \A l, m \in LastMotionBefore(n + 1) : l = m
      /\ LastMotionBefore(n + 1) \subseteq 1..n
      /\ \A m \in LastMotionBefore(n + 1) : sent[m] = "motion"
  BY <1>1, <1>3, <1>4, LastMotionFacts
<1>6. \A m : LastMotionBefore(m)' = LastMotionBefore(m)
  BY <1>2 DEF LastMotionBefore
<1>7. /\ Taken' + 1 = n + 2 /\ e = n + 1 /\ Taken' = n + 1
  BY <1>3, <1>4
<1>8. LastMotionBefore(Taken + 1)' = LastMotionBefore(n + 1)
  BY <1>5, <1>6, <1>7
<1>9. /\ Len(sent) \in Nat /\ DOMAIN sent = 1..Len(sent) /\ None \notin 1..Len(sent)
      /\ Len(handled) \in Nat /\ DOMAIN handled = 1..Len(handled) /\ handled \in Seq(1..Len(sent))
  BY Lengths DEF IInv, TypeInv
<1>10. /\ \A i \in 1..Len(handled) : handled[i] \in 1..n /\ InOrder(i)
       /\ mouse # None => mouse \in LastMotionBefore(n + 1)
       /\ mouse = None => LastMotionBefore(n + 1) \subseteq {handled[k] : k \in 1..Len(handled)}
  BY <1>4, <1>9, MotionInOrderIs DEF OrderInv, MotionInv
<1>10a. PICK h \in Nat : h = Len(handled)
  BY <1>9
<1>11. ASSUME NEW i \in 1..Len(handled), \A k \in 1..Len(handled) : handled'[k] = handled[k]
       PROVE  InOrder(i)'
  <2>1. i \in Nat /\ i >= 1 /\ \A k \in 1..i : k \in 1..Len(handled)
    BY <1>9
  <2>2. handled[i] \in 1..Len(sent)
    BY <1>9
  <2>3. QED BY <1>2, <1>9, <1>10, <1>11, <2>1, <2>2, InOrderStays
<1>12. CASE mouse # None /\ sent[e] \in {"crossing", "button"}
  <2>1. handled' = handled \o <<mouse, e>> /\ mouse' = None
    BY <1>1, <1>12
  <2>2. mouse \in 1..n /\ sent[mouse] = "motion" /\ mouse \in LastMotionBefore(n + 1)
    BY <1>5, <1>10, <1>12
  <2>3. <<mouse, e>> \in Seq(1..Len(sent)) /\ Len(<<mouse, e>>) = 2 /\ <<mouse, e>>[1] = mouse /\ <<mouse, e>>[2] = e
    BY <1>9, <1>12 DEF IInv, TypeInv
  <2>4. /\ Len(handled') = Len(handled) + 2
        /\ \A k \in 1..Len(handled) : handled'[k] = handled[k]
        /\ handled'[Len(handled) + 1] = mouse /\ handled'[Len(handled) + 2] = e
    <3> DEFINE two == <<mouse, e>>
    <3>1. two \in Seq(1..Len(sent)) /\ Len(two) = 2 /\ two[1] = mouse /\ two[2] = e
      BY <2>3
    <3> HIDE DEF two
    <3>2. /\ Len(handled \o two) = Len(handled) + Len(two)
          /\ \A k \in 1..Len(handled) + Len(two) :
                (handled \o two)[k] = IF k <= Len(handled) THEN handled[k] ELSE two[k - Len(handled)]
      BY <1>9, <3>1, ConcatProperties, ZenonT(60)
    <3>3. handled' = handled \o two
      BY <2>1 DEF two
    <3>4. /\ Len(handled) + 1 \in 1..Len(handled) + 2 /\ Len(handled) + 2 \in 1..Len(handled) + 2
          /\ (Len(handled) + 1) - Len(handled) = 1 /\ (Len(handled) + 2) - Len(handled) = 2
          /\ ~(Len(handled) + 1 <= Len(handled)) /\ ~(Len(handled) + 2 <= Len(handled))
          /\ \A k \in 1..Len(handled) : k \in 1..Len(handled) + 2 /\ k <= Len(handled)
      BY <1>9
    <3>5. QED BY <3>1, <3>2, <3>3, <3>4
  <2>5. \A i \in 1..Len(handled') : i \in 1..Len(handled) \/ i = Len(handled) + 1 \/ i = Len(handled) + 2
    BY <1>9, <2>4
  <2>6. \A i \in 1..Len(handled') : handled'[i] \in 1..Taken'
    BY <1>7, <1>10, <2>2, <2>4, <2>5
  <2>7. InOrder(h + 1)'
    BY <1>2, <1>10a, <2>2, <2>4 DEF InOrder
  <2>8. InOrder(h + 2)'
    <3>1. \A k \in 1..(Len(handled) + 2 - 1) : k \in 1..Len(handled) \/ k = Len(handled) + 1
      BY <1>9
    <3>2. \A k \in 1..(Len(handled) + 2 - 1) : handled'[k] < e
      BY <1>7, <1>10, <2>2, <2>4, <3>1
    <3>3. LastMotionBefore(e) \subseteq {handled'[k] : k \in 1..(Len(handled) + 2 - 1)}
      <4>1. Len(handled) + 1 \in 1..(Len(handled) + 2 - 1)
        BY <1>9
      <4>2. \A l \in LastMotionBefore(e) : l = handled'[Len(handled) + 1]
        BY <1>5, <1>7, <2>2, <2>4
      <4>3. QED BY <4>1, <4>2
    <3>4. QED BY <1>2, <1>6, <1>10a, <2>4, <3>2, <3>3 DEF InOrder
  <2>9. MotionInOrder'
    <3>1. \A i \in 1..Len(handled') : InOrder(i)'
      BY <1>11, <1>10a, <2>4, <2>5, <2>7, <2>8
    <3>2. DOMAIN handled' = 1..Len(handled')
      <4>1. handled' \in Seq(1..Len(sent))
        BY <1>9, <2>1, <2>3, ConcatProperties
      <4>2. QED BY <4>1, LenProperties
    <3>3. QED BY <3>1, <3>2 DEF InOrder, MotionInOrder
  <2>10. LastMotionBefore(n + 1) \subseteq {handled'[k] : k \in 1..Len(handled')}
    <3>1. Len(handled) + 1 \in 1..Len(handled')
      BY <1>9, <2>4
    <3>2. \A l \in LastMotionBefore(n + 1) : l = handled'[Len(handled) + 1]
      BY <1>5, <2>2, <2>4
    <3>3. QED BY <3>1, <3>2
  <2>11. QED BY <1>3, <1>8, <2>1, <2>6, <2>9, <2>10 DEF OrderInv, MotionInv
<1>13. CASE ~(mouse # None /\ sent[e] \in {"crossing", "button"})
  <2>1. handled' = Append(handled, e) /\ mouse' = mouse
    BY <1>1, <1>13
  <2>2. /\ handled' \in Seq(1..Len(sent)) /\ Len(handled') = Len(handled) + 1
        /\ \A k \in 1..Len(handled) : handled'[k] = handled[k]
        /\ handled'[Len(handled) + 1] = e
    BY <1>9, <2>1, AppendProperties
  <2>3. \A i \in 1..Len(handled') : i \in 1..Len(handled) \/ i = Len(handled) + 1
    BY <1>9, <2>2
  <2>4. \A i \in 1..Len(handled') : handled'[i] \in 1..Taken'
    <3> SUFFICES ASSUME NEW i \in 1..Len(handled') PROVE handled'[i] \in 1..(n + 1)
      BY <1>7
    <3>1. CASE i \in 1..Len(handled)
      <4>1. handled[i] \in 1..n
        BY <1>10, <3>1
      <4>2. QED BY <2>2, <3>1, <4>1
    <3>2. CASE i = Len(handled) + 1
      BY <1>7, <2>2, <3>2
    <3>3. QED BY <2>3, <3>1, <3>2
  <2>5. InOrder(h + 1)'
    <3>1. (Len(handled) + 1) - 1 = Len(handled)
      BY <1>9
    <3>2. {handled'[k] : k \in 1..((Len(handled) + 1) - 1)} = {handled[k] : k \in 1..Len(handled)}
      BY <2>2, <3>1
    <3>3. \A m \in {handled[k] : k \in 1..Len(handled)} : m < e
      BY <1>7, <1>10
    <3>4. sent[e] \in {"crossing", "button"} => LastMotionBefore(e) \subseteq {handled[k] : k \in 1..Len(handled)}
      BY <1>7, <1>10, <1>13
    <3>5. QED BY <1>2, <1>6, <1>10a, <2>2, <3>2, <3>3, <3>4 DEF InOrder
  <2>6. MotionInOrder'
    <3>1. \A i \in 1..Len(handled') : InOrder(i)'
      BY <1>11, <1>10a, <2>2, <2>3, <2>5
    <3>2. DOMAIN handled' = 1..Len(handled')
      BY <2>2, LenProperties
    <3>3. QED BY <3>1, <3>2 DEF InOrder, MotionInOrder
  <2>7. mouse = None => LastMotionBefore(n + 1) \subseteq {handled'[k] : k \in 1..Len(handled')}
    <3>1. \A k \in 1..Len(handled) : k \in 1..Len(handled')
      BY <1>9, <2>2
    <3>2. QED BY <1>10, <2>2, <3>1
  <2>8. QED BY <1>3, <1>8, <1>10, <2>1, <2>4, <2>6, <2>7 DEF OrderInv, MotionInv
<1>14. QED BY <1>12, <1>13

LEMMA CheckDoneInOrder ==
    ASSUME IInv, OrderInv, CheckDone
    PROVE  OrderInv'
<1>1. /\ sent' = sent /\ queue' = queue /\ socket' = socket /\ pending' = pending
      /\ mouse' = None
      /\ IF mouse = None THEN handled' = handled ELSE handled' = Append(handled, mouse)
  BY DEF CheckDone, serverVars
<1>2. InLine' /\ Taken' = Taken /\ \A m : LastMotionBefore(m)' = LastMotionBefore(m)
  BY <1>1 DEF OrderInv, InLine, Taken, Ahead, LastMotionBefore
<1>3. CASE mouse = None
  <2>1. handled' = handled /\ mouse' = mouse /\ Len(sent') >= Len(sent) /\ \A i \in 1..Len(sent) : sent'[i] = sent[i]
    BY <1>1, <1>3, Lengths DEF IInv
  <2>2. QED BY <1>2, <2>1, MotionStays
<1>4. CASE mouse # None
  <2>1. PICK n \in Nat : n = Taken
    BY DEF OrderInv, InLine
  <2>2. /\ mouse \in LastMotionBefore(n + 1) /\ mouse \in 1..n /\ sent[mouse] = "motion"
        /\ \A l \in LastMotionBefore(n + 1) : l = mouse
    <3>1. mouse \in LastMotionBefore(n + 1)
      BY <1>4, <2>1 DEF OrderInv, MotionInv
    <3>2. QED BY <3>1, LastMotionFacts
  <2>3. /\ Len(sent) \in Nat /\ DOMAIN sent = 1..Len(sent)
        /\ Len(handled) \in Nat /\ DOMAIN handled = 1..Len(handled) /\ handled \in Seq(1..Len(sent))
        /\ mouse \in 1..Len(sent)
    BY <1>4, Lengths DEF IInv, TypeInv
  <2>4. /\ handled' \in Seq(1..Len(sent)) /\ Len(handled') = Len(handled) + 1
        /\ \A k \in 1..Len(handled) : handled'[k] = handled[k]
        /\ handled'[Len(handled) + 1] = mouse
    BY <1>1, <1>4, <2>3, AppendProperties
  <2>5. \A i \in 1..Len(handled') : i \in 1..Len(handled) \/ i = Len(handled) + 1
    BY <2>3, <2>4
  <2>6. \A i \in 1..Len(handled') : handled'[i] \in 1..Taken'
    BY <1>2, <2>1, <2>2, <2>4, <2>5 DEF OrderInv, MotionInv
  <2>7. ASSUME NEW i \in 1..Len(handled) PROVE InOrder(i)'
    <3>1. i \in Nat /\ i >= 1 /\ InOrder(i) /\ \A k \in 1..i : k \in 1..Len(handled)
      BY <2>3, MotionInOrderIs DEF OrderInv, MotionInv
    <3>2. handled[i] \in 1..Len(sent)
      BY <2>3
    <3>3. QED BY <1>1, <2>3, <2>4, <3>1, <3>2, InOrderStays
  <2>7a. PICK h \in Nat : h = Len(handled)
    BY <2>3
  <2>8. InOrder(h + 1)'
    BY <1>1, <2>2, <2>4, <2>7a DEF InOrder
  <2>9. MotionInOrder'
    <3>1. \A i \in 1..Len(handled') : InOrder(i)'
      BY <2>5, <2>7, <2>8, <2>7a
    <3>2. DOMAIN handled' = 1..Len(handled')
      BY <2>4, LenProperties
    <3>3. QED BY <3>1, <3>2 DEF InOrder, MotionInOrder
  <2>10. LastMotionBefore(n + 1) \subseteq {handled'[k] : k \in 1..Len(handled')}
    <3>1. Len(handled) + 1 \in 1..Len(handled')
      BY <2>3, <2>4
    <3>2. QED BY <2>2, <2>4, <3>1
  <2>11. QED BY <1>1, <1>2, <2>1, <2>6, <2>9, <2>10 DEF OrderInv, MotionInv
<1>5. QED BY <1>3, <1>4

LEMMA InitOrderInv == Init => OrderInv
<1> SUFFICES ASSUME Init PROVE OrderInv
  OBVIOUS
<1>1. /\ Len(sent) = 0 /\ Len(queue) = 0 /\ Len(socket) = 0 /\ Len(handled) = 0 /\ pending = None /\ mouse = None
      /\ DOMAIN handled = {}
  BY DEF Init
<1>2. Taken = 0 /\ InLine
  BY <1>1 DEF InLine, Taken, Ahead
<1>3. LastMotionBefore(Taken + 1) = {}
  BY <1>2 DEF LastMotionBefore
<1>4. MotionInOrder
  BY <1>1 DEF MotionInOrder
<1>5. QED BY <1>1, <1>2, <1>3, <1>4 DEF OrderInv, MotionInv

LEMMA NextOrderInv == IInv /\ OrderInv /\ [Next]_vars => OrderInv'
<1> SUFFICES ASSUME IInv, OrderInv, [Next]_vars PROVE OrderInv'
  OBVIOUS
<1>1. Len(sent) \in Nat
  BY Lengths DEF IInv
<1>2. CASE \/ DelayedCalls \/ QuietStage \/ NoisyStage \/ Flush \/ WakeUp \/ Dispatch \/ SourceReady \/ UNCHANGED vars
  <2>1. UNCHANGED <<pending, mouse, queue, socket, sent, handled>>
    BY <1>2 DEF DelayedCalls, QuietStage, NoisyStage, Flush, WakeUp, Dispatch, SourceReady, vars, loopVars, serverVars
  <2>2. InLine' /\ Taken' = Taken
    BY <2>1 DEF OrderInv, InLine, Taken, Ahead
  <2>3. QED BY <1>1, <2>1, <2>2, MotionStays
<1>3. CASE Peek
  <2>1. UNCHANGED <<mouse, sent, handled>>
    BY <1>3 DEF Peek
  <2>2. QED BY <1>1, <1>3, <2>1, PeekStaysInLine, MotionStays DEF OrderInv
<1>4. CASE RoundTrip
  <2>1. UNCHANGED <<mouse, sent, handled>>
    BY <1>4 DEF RoundTrip, loopVars
  <2>2. QED BY <1>1, <1>4, <2>1, RoundTripStaysInLine, MotionStays DEF OrderInv
<1>5. CASE UserEvent \/ Execute
  <2>1. UNCHANGED <<mouse, handled>>
    BY <1>5 DEF UserEvent, Execute, loopVars
  <2>2. Len(sent) + 1 >= Len(sent)
    BY <1>1
  <2>3. QED BY <1>5, <2>1, <2>2, SendStaysInLine, MotionStays DEF OrderInv
<1>6. QED
  BY <1>2, <1>3, <1>4, <1>5, KeepMotionInOrder, HandleEventInOrder, CheckDoneInOrder DEF Next, Loop

\* For any number of events, wherever they wait and whenever replies are awaited:
\* before a crossing or button event is handled, the last motion event before it has
\* been, and none that came after it.
THEOREM MotionIsCoalescedInOrder == Spec => []MotionInOrder
<1>1. OrderInv => MotionInOrder
  BY DEF OrderInv, MotionInv
<1>2. QED BY <1>1, InitOrderInv, NextOrderInv, Inductive, PTL DEF Spec

-----------------------------------------------------------------------------
(* Objects: references.                                                    *)

EmissionRecord ==
    [self : Obj \cup {Nil}, signal : Signal, due : Seq(Func), classNext : BOOLEAN,
     connecting : (Signal \X Func) \cup {NotConnecting}]

ObjectsTypeInv ==
    /\ alive \subseteq Value /\ held \subseteq Value
    /\ checked \subseteq Obj /\ managed \subseteq Obj
    /\ count \in [Owner -> [Value -> Nat]]
    /\ handlers \in [Owner -> [Signal -> Seq(Func)]]
    /\ items \in [Obj -> Seq(Obj)]
    /\ emissions \in Seq(EmissionRecord)
    /\ objectCalls \in 0..MaxObjectCalls

\* Where a function is connected: signals, and places in their lists.
HandlerPlaces(hs, w, f) == {p \in Signal \X Nat : p[2] \in DOMAIN hs[w][p[1]] /\ hs[w][p[1]][p[2]] = f}

\* There are at least as many references as pointers.
CountsInv ==
    /\ \A w \in Owner, f \in Func :
          /\ IsFiniteSet(HandlerPlaces(handlers, w, f))
          /\ Cardinality(HandlerPlaces(handlers, w, f)) <= count[w][f]
    /\ \A o, i \in Obj : Times(items[o], i) <= count[o][i]
    /\ \A o \in managed : count[Class][o] > 0

\* What has been called, or is counted by a table that lives, is alive; tables that do not live are empty.
LivingInv ==
    /\ held \subseteq alive
    /\ \A e \in Range(emissions) :
          /\ e.self # Nil => e.self \in alive
          /\ Range(e.due) \subseteq alive
          /\ e.connecting # NotConnecting => e.connecting[2] \in alive
    /\ \A w \in (alive \cap Obj) \cup {Class}, v \in Value : count[w][v] > 0 => v \in alive
    /\ \A o \in Obj \ alive, v \in Value : count[o][v] = 0

ObjectsIInv == ObjectsTypeInv /\ CountsInv /\ LivingInv

-----------------------------------------------------------------------------
(* Objects: facts about counts.                                            *)

Counts == [Owner -> [Value -> Nat]]

\* No value is both an object and a function, and Nil is neither.
LEMMA ValueKinds ==
    /\ Obj \subseteq Owner /\ Class \in Owner /\ Obj \subseteq Value /\ Func \subseteq Value
    /\ \A f \in Func : f \notin Obj /\ f # Nil
    /\ \A o \in Obj : o # Class /\ o # Nil
  BY ObjectsAssumption DEF Owner, Value

LEMMA AtLeastOne ==
    ASSUME NEW S, IsFiniteSet(S), NEW x \in S
    PROVE  Cardinality(S) \in Nat /\ Cardinality(S) >= 1
<1>1. Cardinality(S) \in Nat
  BY FS_CardinalityType
<1>2. Cardinality(S) # 0
  BY FS_EmptySet
<1> QED BY <1>1, <1>2

LEMMA TimesFacts ==
    ASSUME NEW S, NEW vs \in Seq(S)
    PROVE  /\ \A v : Times(vs, v) \in Nat
           /\ \A i \in DOMAIN vs : Times(vs, vs[i]) >= 1
           /\ \A v : Times(vs, v) > 0 => v \in Range(vs)
           /\ \A v : v \notin S => Times(vs, v) = 0
<1>1. /\ DOMAIN vs = 1..Len(vs) /\ Len(vs) \in Nat /\ \A i \in 1..Len(vs) : vs[i] \in S
  BY LenProperties, ElementOfSeq
<1>2. IsFiniteSet(1..Len(vs))
  BY <1>1, FS_Interval
<1>3. ASSUME NEW v PROVE IsFiniteSet({i \in DOMAIN vs : vs[i] = v})
  BY <1>1, <1>2, FS_Subset
<1>4. ASSUME NEW v PROVE Times(vs, v) \in Nat
  BY <1>3, FS_CardinalityType DEF Times
<1>5. ASSUME NEW i \in DOMAIN vs PROVE Times(vs, vs[i]) >= 1
  <2> DEFINE T == {j \in DOMAIN vs : vs[j] = vs[i]}
  <2>1. i \in T /\ IsFiniteSet(T)
    BY <1>3
  <2>2. Cardinality(T) >= 1
    BY <2>1, AtLeastOne
  <2> QED BY <2>2 DEF Times
<1>6. ASSUME NEW v, \A i \in DOMAIN vs : vs[i] # v PROVE Times(vs, v) = 0
  <2>1. {i \in DOMAIN vs : vs[i] = v} = {}
    BY <1>6
  <2> QED BY <2>1, FS_EmptySet DEF Times
<1>7. ASSUME NEW v, Times(vs, v) > 0 PROVE v \in Range(vs)
  <2>1. ~(Times(vs, v) = 0)
    BY <1>7
  <2>2. \E i \in DOMAIN vs : vs[i] = v
    BY <1>6, <2>1
  <2> QED BY <2>2 DEF Range
<1>8. ASSUME NEW v, v \notin S PROVE Times(vs, v) = 0
  BY <1>1, <1>6, <1>8
<1> QED BY <1>4, <1>5, <1>7, <1>8

LEMMA IncRefFacts ==
    ASSUME NEW n \in Counts, NEW w \in Owner, NEW v \in Value
    PROVE  /\ IncRef(n, w, v) \in Counts
           /\ \A u \in Owner, x \in Value :
                 IncRef(n, w, v)[u][x] = IF u = w /\ x = v THEN n[u][x] + 1 ELSE n[u][x]
  BY DEF IncRef, Counts

LEMMA DecRefFacts ==
    ASSUME NEW n \in Counts, NEW w \in Owner, NEW v \in Value
    PROVE  /\ DecRef(n, w, v) \in Counts
           /\ \A u \in Owner, x \in Value :
                 DecRef(n, w, v)[u][x] = IF u = w /\ x = v
                                         THEN IF n[u][x] > 0 THEN n[u][x] - 1 ELSE 0
                                         ELSE n[u][x]
<1>1. DecRef(n, w, v) \in Counts
  BY DEF DecRef, Counts
<1>2. ASSUME NEW u \in Owner, NEW x \in Value
      PROVE  DecRef(n, w, v)[u][x] = IF u = w /\ x = v
                                     THEN IF n[u][x] > 0 THEN n[u][x] - 1 ELSE 0
                                     ELSE n[u][x]
  BY DEF DecRef, Counts
<1> QED BY <1>1, <1>2

\* The lists of items hold objects, so that the counts of functions stay.
LEMMA ReplacedFacts ==
    ASSUME NEW o \in Obj, NEW new \in Seq(Obj), count \in Counts, items \in [Obj -> Seq(Obj)]
    PROVE  /\ ItemsReplaced(o, new) \in Counts
           /\ \A u \in Owner, x \in Value : u # o => ItemsReplaced(o, new)[u][x] = count[u][x]
           /\ \A f \in Func : ItemsReplaced(o, new)[o][f] = count[o][f]
           /\ \A x \in Value : /\ ItemsReplaced(o, new)[o][x] >= Times(new, x)
                               /\ ItemsReplaced(o, new)[o][x] <= count[o][x] + Times(new, x)
<1> DEFINE d == DecRefs(count, o, items[o])
           r == IncRefs(d, o, new)
<1>1. /\ \A y : Times(items[o], y) \in Nat /\ Times(new, y) \in Nat
      /\ \A f \in Func : Times(items[o], f) = 0 /\ Times(new, f) = 0
  BY TimesFacts, ValueKinds
<1>2. o \in Owner
  BY ValueKinds
<1>3. /\ d \in Counts
      /\ \A u \in Owner, x \in Value : u # o => d[u][x] = count[u][x]
      /\ \A x \in Value : d[o][x] = IF count[o][x] > Times(items[o], x)
                                    THEN count[o][x] - Times(items[o], x) ELSE 0
  <2>1. d = [count EXCEPT ![o] = [y \in Value |-> IF count[o][y] > Times(items[o], y)
                                                 THEN count[o][y] - Times(items[o], y) ELSE 0]]
    BY DEF DecRefs
  <2>2. \A y \in Value : (IF count[o][y] > Times(items[o], y)
                          THEN count[o][y] - Times(items[o], y) ELSE 0) \in Nat
    BY <1>1, <1>2 DEF Counts
  <2> HIDE DEF d
  <2> QED BY <1>2, <2>1, <2>2 DEF Counts
<1> HIDE DEF d
<1>4. /\ r \in Counts
      /\ \A u \in Owner, x \in Value : u # o => r[u][x] = d[u][x]
      /\ \A x \in Value : r[o][x] = d[o][x] + Times(new, x)
  <2>1. r = [d EXCEPT ![o] = [y \in Value |-> d[o][y] + Times(new, y)]]
    BY DEF IncRefs
  <2>2. \A y \in Value : d[o][y] + Times(new, y) \in Nat
    BY <1>1, <1>2, <1>3 DEF Counts
  <2> HIDE DEF r
  <2> QED BY <1>2, <1>3, <2>1, <2>2 DEF Counts
<1>5. ItemsReplaced(o, new) = r
  BY DEF ItemsReplaced, d
<1> HIDE DEF r
<1>6. \A f \in Func : r[o][f] = count[o][f]
  <2> TAKE f \in Func
  <2>1. f \in Value /\ Times(items[o], f) = 0 /\ Times(new, f) = 0 /\ count[o][f] \in Nat
    BY <1>1, <1>2, ValueKinds DEF Counts
  <2>2. r[o][f] = d[o][f] + 0 /\ d[o][f] = IF count[o][f] > 0 THEN count[o][f] - 0 ELSE 0
    BY <1>3, <1>4, <2>1
  <2> QED BY <2>1, <2>2
<1>7. \A x \in Value : r[o][x] >= Times(new, x) /\ r[o][x] <= count[o][x] + Times(new, x)
  <2> TAKE x \in Value
  <2>1. count[o][x] \in Nat /\ Times(items[o], x) \in Nat /\ Times(new, x) \in Nat
    BY <1>1, <1>2 DEF Counts
  <2>2. /\ r[o][x] = d[o][x] + Times(new, x)
        /\ d[o][x] = IF count[o][x] > Times(items[o], x) THEN count[o][x] - Times(items[o], x) ELSE 0
    BY <1>3, <1>4
  <2> QED BY ONLY <2>1, <2>2
<1> QED BY <1>3, <1>4, <1>5, <1>6, <1>7

-----------------------------------------------------------------------------
(* Objects: handlers and their references.                                 *)

Handlers == [Owner -> [Signal -> Seq(Func)]]
HandlersCounted(n, hs) ==
    \A w \in Owner, f \in Func :
        /\ IsFiniteSet(HandlerPlaces(hs, w, f))
        /\ Cardinality(HandlerPlaces(hs, w, f)) <= n[w][f]

\* A function in a list of handlers has a reference.
LEMMA ConnectedHasReference ==
    ASSUME NEW n \in Counts, NEW hs \in Handlers, HandlersCounted(n, hs),
           NEW w \in Owner, NEW s \in Signal, NEW i \in DOMAIN hs[w][s]
    PROVE  hs[w][s][i] \in Func /\ n[w][hs[w][s][i]] > 0
<1>1. hs[w][s] \in Seq(Func)
  BY DEF Handlers
<1>2. i \in Nat /\ hs[w][s][i] \in Func
  BY <1>1, LenProperties, ElementOfSeq
<1>3. PICK f : f = hs[w][s][i]
  OBVIOUS
<1>4. <<s, i>> \in HandlerPlaces(hs, w, f)
  BY <1>2, <1>3 DEF HandlerPlaces
<1>5. Cardinality(HandlerPlaces(hs, w, f)) >= 1 /\ Cardinality(HandlerPlaces(hs, w, f)) \in Nat
  BY <1>2, <1>3, <1>4, AtLeastOne DEF HandlersCounted
<1>6. Cardinality(HandlerPlaces(hs, w, f)) <= n[w][f] /\ n[w][f] \in Nat
  BY <1>2, <1>3, ValueKinds DEF HandlersCounted, Counts
<1> QED BY <1>2, <1>3, <1>5, <1>6

LEMMA ConnectCounted ==
    ASSUME NEW n \in Counts, NEW hs \in Handlers, HandlersCounted(n, hs),
           NEW w \in Owner, NEW s \in Signal, NEW f \in Func
    PROVE  /\ [hs EXCEPT ![w][s] = Append(@, f)] \in Handlers
           /\ HandlersCounted(IncRef(n, w, f), [hs EXCEPT ![w][s] = Append(@, f)])
<1>1. PICK h : h = hs[w][s]
  OBVIOUS
<1>2. PICK a : a = Append(h, f)
  OBVIOUS
<1>3. h \in Seq(Func) /\ a \in Seq(Func) /\ Len(h) \in Nat /\ Len(a) = Len(h) + 1
      /\ DOMAIN h = 1..Len(h) /\ DOMAIN a = 1..Len(a) /\ a[Len(h) + 1] = f
      /\ \A i \in 1..Len(h) : a[i] = h[i]
  <2>1. h \in Seq(Func)
    BY <1>1 DEF Handlers
  <2> QED BY <1>2, <2>1, AppendProperties, LenProperties
<1>4. PICK g : g = [hs EXCEPT ![w][s] = a]
  OBVIOUS
<1>5. /\ g \in Handlers /\ g[w][s] = a
      /\ \A u \in Owner, t \in Signal : u # w \/ t # s => g[u][t] = hs[u][t]
  BY <1>3, <1>4 DEF Handlers
<1>6. g = [hs EXCEPT ![w][s] = Append(@, f)]
  BY <1>1, <1>2, <1>4
<1>7. ASSUME NEW u \in Owner, NEW x \in Func
      PROVE  /\ IsFiniteSet(HandlerPlaces(g, u, x))
             /\ Cardinality(HandlerPlaces(g, u, x)) <= IncRef(n, w, f)[u][x]
  <2> DEFINE old == HandlerPlaces(hs, u, x)
             there == HandlerPlaces(g, u, x)
  <2>1. /\ IsFiniteSet(old) /\ Cardinality(old) \in Nat /\ Cardinality(old) <= n[u][x]
        /\ n[u][x] \in Nat
    BY FS_CardinalityType, ValueKinds DEF HandlersCounted, Counts
  <2>2. CASE u = w /\ x = f
    <3>1. there \subseteq old \cup {<<s, Len(h) + 1>>}
      <4> SUFFICES ASSUME NEW p \in there, p # <<s, Len(h) + 1>> PROVE p \in old
        OBVIOUS
      <4>1. p \in Signal \X Nat /\ p[2] \in DOMAIN g[u][p[1]] /\ g[u][p[1]][p[2]] = x
        BY DEF HandlerPlaces
      <4>2. CASE p[1] = s
        <5>1. p[2] \in 1..Len(h)
          BY <1>1, <1>3, <1>5, <2>2, <4>1, <4>2
        <5>2. p[2] \in DOMAIN hs[u][p[1]] /\ hs[u][p[1]][p[2]] = x
          BY <1>1, <1>3, <1>5, <2>2, <4>1, <4>2, <5>1
        <5> QED BY <4>1, <5>2 DEF HandlerPlaces
      <4>3. CASE p[1] # s
        <5>1. g[u][p[1]] = hs[u][p[1]]
          BY <1>5, <4>1, <4>3
        <5> QED BY <4>1, <5>1 DEF HandlerPlaces
      <4> QED BY <4>2, <4>3
    <3> HIDE DEF old, there
    <3>2. PICK p : p = <<s, Len(h) + 1>>
      OBVIOUS
    <3>3. IsFiniteSet(old \cup {p}) /\ Cardinality(old \cup {p}) <= Cardinality(old) + 1
      <4>1. /\ IsFiniteSet(old \cup {p})
            /\ Cardinality(old \cup {p}) = IF p \in old THEN Cardinality(old) ELSE Cardinality(old) + 1
        BY <2>1, FS_AddElement
      <4> QED BY <2>1, <4>1
    <3>4. IsFiniteSet(there) /\ Cardinality(there) <= Cardinality(old \cup {p})
      BY <3>1, <3>2, <3>3, FS_Subset
    <3>5. Cardinality(there) \in Nat /\ Cardinality(old \cup {p}) \in Nat
      BY <3>3, <3>4, FS_CardinalityType
    <3>6. IncRef(n, w, f)[u][x] = n[u][x] + 1
      BY <2>2, IncRefFacts, ValueKinds
    <3>7. Cardinality(there) <= IncRef(n, w, f)[u][x]
      BY <2>1, <3>3, <3>4, <3>5, <3>6
    <3> QED BY <3>4, <3>7 DEF there
  <2>3. CASE ~(u = w /\ x = f)
    <3>1. there \subseteq old
      <4> SUFFICES ASSUME NEW p \in there PROVE p \in old
        OBVIOUS
      <4>1. p \in Signal \X Nat /\ p[2] \in DOMAIN g[u][p[1]] /\ g[u][p[1]][p[2]] = x
        BY DEF HandlerPlaces
      <4>2. CASE u = w /\ p[1] = s
        <5>1. p[2] \in 1..Len(h)
          <6>1. PICK i : i = p[2]
            OBVIOUS
          <6>2. i \in 1..Len(h) + 1 /\ a[i] = x /\ x # f
            BY <1>3, <1>5, <2>3, <4>1, <4>2, <6>1
          <6>3. i # Len(h) + 1
            BY <1>3, <6>2
          <6> QED BY <1>3, <6>1, <6>2, <6>3
        <5>2. p[2] \in DOMAIN hs[u][p[1]] /\ hs[u][p[1]][p[2]] = x
          BY <1>1, <1>3, <1>5, <4>1, <4>2, <5>1
        <5> QED BY <4>1, <5>2 DEF HandlerPlaces
      <4>3. CASE ~(u = w /\ p[1] = s)
        <5>1. g[u][p[1]] = hs[u][p[1]]
          BY <1>5, <4>1, <4>3
        <5> QED BY <4>1, <5>1 DEF HandlerPlaces
      <4> QED BY <4>2, <4>3
    <3> HIDE DEF old, there
    <3>2. IsFiniteSet(there) /\ Cardinality(there) <= Cardinality(old)
      BY <2>1, <3>1, FS_Subset
    <3>3. IncRef(n, w, f)[u][x] = n[u][x]
      BY <2>3, IncRefFacts, ValueKinds
    <3>4. Cardinality(there) <= IncRef(n, w, f)[u][x]
      BY <2>1, <3>2, <3>3, FS_CardinalityType
    <3> QED BY <3>2, <3>4 DEF there
  <2> QED BY <2>2, <2>3
<1> QED BY <1>5, <1>6, <1>7 DEF HandlersCounted

\* A set of numbers has a least element.
LEMMA Least == ASSUME NEW T, T \subseteq Nat, T # {} PROVE \E x \in T : \A y \in T : x <= y
<1> DEFINE R == OpToRel(<, Nat)
<1>1. IsWellFoundedOn(R, Nat)
  BY NatLessThanWellFounded
<1>2. ASSUME NEW a \in Nat, NEW b \in Nat, a < b PROVE <<a, b>> \in R
  BY <1>2 DEF OpToRel
<1> HIDE DEF R
<1>3. PICK x \in T : \A y \in T : <<y, x>> \notin R
  BY <1>1, WFMin
<1>4. ASSUME NEW y \in T PROVE x <= y
  <2>1. x \in Nat /\ y \in Nat /\ ~(y < x)
    BY <1>2, <1>3
  <2> QED BY <2>1
<1> QED BY <1>4

\* RemoveAt takes one element out, and those behind it move up.
LEMMA RemoveAtFacts ==
    ASSUME NEW S, NEW q \in Seq(S), NEW k \in 1..Len(q)
    PROVE  /\ RemoveAt(q, k) \in Seq(S) /\ Len(RemoveAt(q, k)) = Len(q) - 1
           /\ \A i \in 1..Len(q) - 1 : RemoveAt(q, k)[i] = IF i < k THEN q[i] ELSE q[i + 1]
<1>1. Len(q) \in Nat /\ DOMAIN q = 1..Len(q) /\ \A i \in 1..Len(q) : q[i] \in S
  BY LenProperties, ElementOfSeq
<1> DEFINE a == SubSeq(q, 1, k - 1)
           b == SubSeq(q, k + 1, Len(q))
           r == a \o b
<1>7. a \in Seq(S) /\ Len(a) = k - 1 /\ \A i \in 1..k - 1 : a[i] = q[i]
  BY <1>1, SubSeqProperties, k - 1 \in Int, \A i \in 1..k - 1 : 1 + i - 1 = i
<1>8. b \in Seq(S) /\ Len(b) = Len(q) - k /\ \A i \in 1..Len(q) - k : b[i] = q[k + i]
  <2>1. \A i \in k + 1..Len(q) : q[i] \in S
    BY <1>1
  <2>2. /\ b \in Seq(S) /\ Len(b) = IF k + 1 <= Len(q) THEN Len(q) - (k + 1) + 1 ELSE 0
        /\ \A i \in 1..Len(q) - (k + 1) + 1 : b[i] = q[k + 1 + i - 1]
    BY <1>1, <2>1, SubSeqProperties, k + 1 \in Int
  <2>3. Len(q) - (k + 1) + 1 = Len(q) - k
    BY <1>1
  <2>4. \A i \in 1..Len(q) - k : k + 1 + i - 1 = k + i
    BY <1>1
  <2>5. Len(b) = Len(q) - k
    <3>1. Len(b) = IF k + 1 <= Len(q) THEN Len(q) - (k + 1) + 1 ELSE 0
      BY <2>2
    <3>2. \A n \in Nat : \A m \in 1..n : (IF m + 1 <= n THEN n - (m + 1) + 1 ELSE 0) = n - m
      OBVIOUS
    <3>3. (IF k + 1 <= Len(q) THEN Len(q) - (k + 1) + 1 ELSE 0) = Len(q) - k
      BY ONLY <1>1, <3>2, k \in 1..Len(q)
    <3> QED BY ONLY <3>1, <3>3
  <2>6. \A i \in 1..Len(q) - k : b[i] = q[k + i]
    BY ONLY <2>2, <2>3, <2>4
  <2> QED BY ONLY <2>2, <2>5, <2>6
<1> HIDE DEF a, b
<1>9. /\ r \in Seq(S) /\ Len(r) = Len(q) - 1
      /\ \A i \in 1..Len(q) - 1 : r[i] = IF i < k THEN q[i] ELSE q[i + 1]
  <2>1. /\ r \in Seq(S) /\ Len(r) = Len(a) + Len(b)
        /\ \A i \in 1..Len(a) + Len(b) : r[i] = IF i <= Len(a) THEN a[i] ELSE b[i - Len(a)]
    BY <1>7, <1>8, ConcatProperties
  <2> HIDE DEF r
  <2>2. Len(r) = Len(q) - 1
    BY <1>1, <1>7, <1>8, <2>1
  <2>3. ASSUME NEW i \in 1..Len(q) - 1 PROVE r[i] = IF i < k THEN q[i] ELSE q[i + 1]
    <3>1. r[i] = IF i <= k - 1 THEN a[i] ELSE b[i - (k - 1)]
      BY <1>1, <1>7, <1>8, <2>1, <2>2
    <3>2. CASE i < k
      BY <1>1, <1>7, <3>1, <3>2
    <3>3. CASE ~(i < k)
      <4>1. i - (k - 1) \in 1..Len(q) - k /\ k + (i - (k - 1)) = i + 1
        BY <1>1, <3>3
      <4>2. b[i - (k - 1)] = q[k + (i - (k - 1))]
        BY <1>8, <4>1
      <4> QED BY <1>1, <3>1, <3>3, <4>1, <4>2
    <3> QED BY <3>2, <3>3
  <2> QED BY <2>1, <2>2, <2>3
<1>10. RemoveAt(q, k) = r
  BY DEF RemoveAt, a, b
<1> HIDE DEF r
<1> QED BY <1>9, <1>10

\* RemoveFirst takes one occurrence out.
LEMMA RemoveFirstFacts ==
    ASSUME NEW S, NEW q \in Seq(S), NEW e \in Range(q)
    PROVE  \E k \in 1..Len(q) :
              /\ q[k] = e
              /\ RemoveFirst(q, e) \in Seq(S) /\ Len(RemoveFirst(q, e)) = Len(q) - 1
              /\ \A i \in 1..Len(q) - 1 : RemoveFirst(q, e)[i] = IF i < k THEN q[i] ELSE q[i + 1]
<1>1. Len(q) \in Nat /\ DOMAIN q = 1..Len(q) /\ \A i \in 1..Len(q) : q[i] \in S
  BY LenProperties, ElementOfSeq
<1> DEFINE places == {i \in 1..Len(q) : q[i] = e}
           k == Min(places)
<1>2. places # {} /\ places \subseteq Nat
  BY <1>1 DEF Range
<1>3. k \in places
  <2> HIDE DEF places
  <2>1. \E x \in places : \A y \in places : x <= y
    BY <1>2, Least
  <2> QED BY <2>1 DEF Min
<1>4. RemoveFirst(q, e) = RemoveAt(q, k)
  <2>1. SelectInSeq(q, LAMBDA v : v = e) = k
    BY <1>2 DEF SelectInSeq
  <2>2. \E i \in 1..Len(q) : q[i] = e
    BY <1>2
  <2> QED BY <2>1, <2>2 DEF RemoveFirst
<1>5. k \in 1..Len(q) /\ q[k] = e
  BY <1>3
<1> HIDE DEF k, places
<1> QED BY <1>4, <1>5, RemoveAtFacts

LEMMA DisconnectCounted ==
    ASSUME NEW n \in Counts, NEW hs \in Handlers, HandlersCounted(n, hs),
           NEW w \in Owner, NEW s \in Signal, NEW f \in Func, f \in Range(hs[w][s])
    PROVE  /\ [hs EXCEPT ![w][s] = RemoveFirst(@, f)] \in Handlers
           /\ HandlersCounted(DecRef(n, w, f), [hs EXCEPT ![w][s] = RemoveFirst(@, f)])
<1>1. PICK h : h = hs[w][s]
  OBVIOUS
<1>2. PICK a : a = RemoveFirst(h, f)
  OBVIOUS
<1>3. h \in Seq(Func) /\ Len(h) \in Nat /\ DOMAIN h = 1..Len(h)
  <2>1. h \in Seq(Func)
    BY <1>1 DEF Handlers
  <2> QED BY <2>1, LenProperties
<1>4. PICK k \in 1..Len(h) : /\ h[k] = f
                             /\ a \in Seq(Func) /\ Len(a) = Len(h) - 1
                             /\ \A i \in 1..Len(h) - 1 : a[i] = IF i < k THEN h[i] ELSE h[i + 1]
  <2>1. f \in Range(h) /\ h \in Seq(Func)
    BY <1>1, <1>3
  <2>2. \E k \in 1..Len(h) :
           /\ h[k] = f
           /\ RemoveFirst(h, f) \in Seq(Func) /\ Len(RemoveFirst(h, f)) = Len(h) - 1
           /\ \A i \in 1..Len(h) - 1 : RemoveFirst(h, f)[i] = IF i < k THEN h[i] ELSE h[i + 1]
    BY ONLY <2>1, RemoveFirstFacts
  <2> QED BY <1>2, <2>2
<1>5. DOMAIN a = 1..Len(h) - 1
  BY <1>4, LenProperties
<1>6. PICK g : g = [hs EXCEPT ![w][s] = a]
  OBVIOUS
<1>7. /\ g \in Handlers /\ g[w][s] = a
      /\ \A u \in Owner, t \in Signal : u # w \/ t # s => g[u][t] = hs[u][t]
  BY <1>4, <1>6 DEF Handlers
<1>8. g = [hs EXCEPT ![w][s] = RemoveFirst(@, f)]
  BY <1>1, <1>2, <1>6
<1>9. ASSUME NEW u \in Owner, NEW x \in Func
      PROVE  /\ IsFiniteSet(HandlerPlaces(g, u, x))
             /\ Cardinality(HandlerPlaces(g, u, x)) <= DecRef(n, w, f)[u][x]
  <2> DEFINE old == HandlerPlaces(hs, u, x)
             there == HandlerPlaces(g, u, x)
  <2>1. /\ IsFiniteSet(old) /\ Cardinality(old) \in Nat /\ Cardinality(old) <= n[u][x]
        /\ n[u][x] \in Nat
    BY FS_CardinalityType, ValueKinds DEF HandlersCounted, Counts
  <2>2. CASE u # w
    <3>1. \A t \in Signal : g[u][t] = hs[u][t]
      BY <1>7, <2>2
    <3>2. there = old
      BY <3>1 DEF HandlerPlaces
    <3>3. DecRef(n, w, f)[u][x] = n[u][x]
      BY <2>2, DecRefFacts, ValueKinds
    <3> QED BY <2>1, <3>2, <3>3
  <2>3. CASE u = w
    <3> DEFINE gone == IF x = f THEN old \ {<<s, k>>} ELSE old
               Shift(p) == IF p[1] = s /\ p[2] > k THEN <<s, p[2] - 1>> ELSE p
    <3>1. IsFiniteSet(gone) /\ Cardinality(gone) <= DecRef(n, w, f)[u][x]
      <4>1. CASE x = f
        <5>1. <<s, k>> \in old
          BY <1>1, <1>3, <1>4, <2>3, <4>1 DEF HandlerPlaces
        <5>2. PICK p : p = <<s, k>>
          OBVIOUS
        <5>3. gone = old \ {p}
          BY <4>1, <5>2
        <5> HIDE DEF old, gone
        <5>4. /\ IsFiniteSet(old \ {p})
              /\ Cardinality(old \ {p}) = IF p \in old THEN Cardinality(old) - 1 ELSE Cardinality(old)
          BY <2>1, FS_RemoveElement
        <5>5. DecRef(n, w, f)[u][x] = IF n[u][x] > 0 THEN n[u][x] - 1 ELSE 0
          BY <2>3, <4>1, DecRefFacts, ValueKinds
        <5>6. Cardinality(gone) = Cardinality(old) - 1 /\ Cardinality(old) >= 1
          BY <2>1, <5>1, <5>2, <5>3, <5>4, AtLeastOne
        <5> QED BY <2>1, <5>3, <5>4, <5>5, <5>6
      <4>2. CASE x # f
        <5>1. DecRef(n, w, f)[u][x] = n[u][x]
          BY <4>2, DecRefFacts, ValueKinds
        <5>2. gone = old
          BY <4>2
        <5> QED BY <2>1, <5>1, <5>2
      <4> QED BY <4>1, <4>2
    <3>2. ASSUME NEW p \in gone PROVE Shift(p) \in there
      <4>1. p \in Signal \X Nat /\ p[2] \in DOMAIN hs[w][p[1]] /\ hs[w][p[1]][p[2]] = x
            /\ (x = f => p # <<s, k>>) /\ p = <<p[1], p[2]>>
        BY <2>3 DEF HandlerPlaces
      <4>2. CASE p[1] # s
        <5>1. Shift(p) = p /\ g[w][p[1]] = hs[w][p[1]]
          BY <1>7, <4>1, <4>2
        <5> HIDE DEF Shift, gone, old
        <5> QED BY <2>3, <4>1, <5>1 DEF HandlerPlaces
      <4>3. CASE p[1] = s
        <5>1. PICK i : i = p[2]
          OBVIOUS
        <5>2. i \in 1..Len(h) /\ h[i] = x /\ i # k /\ g[w][s] = a
          BY <1>1, <1>3, <1>4, <1>7, <4>1, <4>3, <5>1
        <5>3. CASE i < k
          <6>1. i \in 1..Len(h) - 1 /\ ~(i > k) /\ i \in Nat
            BY <1>3, <5>2, <5>3
          <6>2. Shift(p) = <<s, i>>
            BY <4>1, <4>3, <5>1, <6>1
          <6>3. a[i] = x
            BY <1>4, <5>2, <5>3, <6>1
          <6> HIDE DEF Shift, gone, old
          <6> QED BY <1>5, <2>3, <5>2, <6>1, <6>2, <6>3 DEF HandlerPlaces
        <5>4. CASE i > k
          <6>1. i - 1 \in 1..Len(h) - 1 /\ ~(i - 1 < k) /\ i - 1 \in Nat /\ (i - 1) + 1 = i
            BY <1>3, <5>2, <5>4
          <6>2. Shift(p) = <<s, i - 1>>
            BY <4>1, <4>3, <5>1, <5>4
          <6>3. a[i - 1] = x
            BY <1>4, <5>2, <6>1
          <6> HIDE DEF Shift, gone, old
          <6> QED BY <1>5, <2>3, <5>2, <6>1, <6>2, <6>3 DEF HandlerPlaces
        <5> QED BY <1>3, <5>2, <5>3, <5>4
      <4> QED BY <4>2, <4>3
    <3>3. ASSUME NEW q \in there PROVE \E p \in gone : Shift(p) = q
      <4>1. q \in Signal \X Nat /\ q[2] \in DOMAIN g[w][q[1]] /\ g[w][q[1]][q[2]] = x
            /\ q = <<q[1], q[2]>>
        BY <2>3 DEF HandlerPlaces
      <4>2. CASE q[1] # s
        <5>1. Shift(q) = q /\ g[w][q[1]] = hs[w][q[1]] /\ q # <<s, k>>
          BY <1>7, <4>1, <4>2
        <5>2. q \in old
          BY <2>3, <4>1, <5>1 DEF HandlerPlaces
        <5>3. q \in gone
          BY <5>1, <5>2
        <5> HIDE DEF Shift, gone, old
        <5> QED BY <5>1, <5>3
      <4>3. CASE q[1] = s
        <5>1. PICK i : i = q[2]
          OBVIOUS
        <5>2. i \in 1..Len(h) - 1 /\ a[i] = x /\ i \in Nat
          BY <1>5, <1>7, <4>1, <4>3, <5>1
        <5>3. CASE i < k
          <6>1. i \in 1..Len(h) /\ h[i] = x /\ ~(i > k) /\ i # k
            BY <1>3, <1>4, <5>2, <5>3
          <6>2. q = <<s, i>> /\ Shift(q) = q
            BY <4>1, <4>3, <5>1, <6>1
          <6>3. q \in old
            BY <1>1, <1>3, <2>3, <5>2, <6>1, <6>2 DEF HandlerPlaces
          <6>4. q \in gone
            BY <6>1, <6>2, <6>3
          <6> HIDE DEF Shift, gone, old
          <6> QED BY <6>2, <6>4
        <5>4. CASE ~(i < k)
          <6>1. i + 1 \in 1..Len(h) /\ h[i + 1] = x /\ i + 1 > k /\ i + 1 # k /\ i + 1 \in Nat
                /\ (i + 1) - 1 = i
            BY <1>3, <1>4, <5>2, <5>4
          <6>2. PICK p : p = <<s, i + 1>>
            OBVIOUS
          <6>3. p[1] = s /\ p[2] = i + 1 /\ p \in Signal \X Nat /\ p # <<s, k>>
            BY <6>1, <6>2
          <6>4. Shift(p) = <<s, (i + 1) - 1>>
            BY <6>1, <6>3
          <6>5. Shift(p) = q
            BY <4>1, <4>3, <5>1, <6>1, <6>4
          <6>6. p \in old
            BY <1>1, <1>3, <2>3, <6>1, <6>3 DEF HandlerPlaces
          <6>7. p \in gone
            BY <6>3, <6>6
          <6> HIDE DEF Shift, gone, old
          <6> QED BY <6>5, <6>7
        <5> QED BY <5>3, <5>4
      <4> QED BY <4>2, <4>3
    <3> HIDE DEF Shift, gone, old, there
    <3> DEFINE shift == [p \in gone |-> Shift(p)]
    <3>4. shift \in Surjection(gone, there)
      BY <3>2, <3>3 DEF Surjection
    <3> HIDE DEF shift
    <3>5. IsFiniteSet(there) /\ Cardinality(there) <= Cardinality(gone)
      BY <3>1, <3>4, FS_Surjection
    <3>6. Cardinality(there) \in Nat /\ Cardinality(gone) \in Nat
      BY <3>1, <3>5, FS_CardinalityType
    <3>7. DecRef(n, w, f)[u][x] \in Nat
      <4>1. DecRef(n, w, f) \in Counts
        BY DecRefFacts, ValueKinds
      <4> QED BY <4>1, ValueKinds DEF Counts
    <3>8. Cardinality(there) <= DecRef(n, w, f)[u][x]
      BY <3>1, <3>5, <3>6, <3>7
    <3> QED BY <3>5, <3>8 DEF there
  <2> QED BY <2>2, <2>3
<1> QED BY <1>7, <1>8, <1>9 DEF HandlersCounted

-----------------------------------------------------------------------------
(* Objects: the references.                                                *)

\* What has a reference in the tables of n.
ItemsCounted(n, its) == \A o, i \in Obj : Times(its[o], i) <= n[o][i]
ManagedCounted(n, ms) == \A o \in ms : n[Class][o] > 0

LEMMA CountsInvIs ==
    CountsInv <=> /\ HandlersCounted(count, handlers) /\ ItemsCounted(count, items)
                  /\ ManagedCounted(count, managed)
  BY DEF CountsInv, HandlersCounted, ItemsCounted, ManagedCounted

LEMMA TypeGives ==
    ObjectsTypeInv => /\ count \in Counts /\ handlers \in Handlers
                      /\ items \in [Obj -> Seq(Obj)] /\ managed \subseteq Obj
                      /\ emissions \in Seq(EmissionRecord)
                      /\ \A w \in Owner, v \in Value : count[w][v] \in Nat
                      /\ \A w \in Owner, s \in Signal : handlers[w][s] \in Seq(Func)
  BY DEF ObjectsTypeInv, Counts, Handlers

\* A change of the counts of functions only.
LEMMA OtherCountsStay ==
    ASSUME NEW n \in Counts, NEW m \in Counts, NEW its, NEW ms \in SUBSET Obj,
           \A w \in Owner, o \in Obj : m[w][o] = n[w][o]
    PROVE  /\ ItemsCounted(n, its) => ItemsCounted(m, its)
           /\ ManagedCounted(n, ms) => ManagedCounted(m, ms)
  BY ValueKinds DEF ItemsCounted, ManagedCounted

\* A change of the counts of objects only.
LEMMA HandlerCountsStay ==
    ASSUME NEW n, NEW m, NEW hs, HandlersCounted(n, hs),
           \A w \in Owner, f \in Func : m[w][f] = n[w][f]
    PROVE  HandlersCounted(m, hs)
  BY DEF HandlersCounted

LEMMA ConnectedCounts ==
    ASSUME ObjectsTypeInv, CountsInv, NEW w \in Owner, NEW s \in Signal, NEW f \in Func,
           count' = IncRef(count, w, f), handlers' = [handlers EXCEPT ![w][s] = Append(@, f)],
           UNCHANGED <<items, managed>>
    PROVE  CountsInv'
<1>1. /\ count \in Counts /\ handlers \in Handlers /\ managed \in SUBSET Obj
      /\ HandlersCounted(count, handlers) /\ ItemsCounted(count, items) /\ ManagedCounted(count, managed)
  BY TypeGives, CountsInvIs
<1>2. HandlersCounted(IncRef(count, w, f), [handlers EXCEPT ![w][s] = Append(@, f)])
  BY <1>1, ConnectCounted
<1>3. /\ IncRef(count, w, f) \in Counts
      /\ \A u \in Owner, o \in Obj : IncRef(count, w, f)[u][o] = count[u][o]
  <2>1. f \in Value /\ \A o \in Obj : o # f /\ o \in Value
    BY ValueKinds
  <2> QED BY <1>1, <2>1, IncRefFacts
<1>4. ItemsCounted(IncRef(count, w, f), items) /\ ManagedCounted(IncRef(count, w, f), managed)
  BY <1>1, <1>3, OtherCountsStay
<1>5. HandlersCounted(count', handlers') /\ ItemsCounted(count', items') /\ ManagedCounted(count', managed')
  BY <1>2, <1>4
<1> QED BY <1>5 DEF CountsInv, HandlersCounted, ItemsCounted, ManagedCounted

LEMMA DisconnectCounts ==
    ASSUME ObjectsTypeInv, CountsInv, NEW w \in Owner, NEW s \in Signal, NEW f \in Func,
           Disconnect(w, s, f)
    PROVE  CountsInv'
<1>1. /\ count \in Counts /\ handlers \in Handlers /\ managed \in SUBSET Obj
      /\ HandlersCounted(count, handlers) /\ ItemsCounted(count, items) /\ ManagedCounted(count, managed)
  BY TypeGives, CountsInvIs
<1>2. /\ count' = Disconnected(count, w, s, f)
      /\ handlers' = [handlers EXCEPT ![w][s] = RemoveFirst(@, f)]
      /\ items' = items /\ managed' = managed
  BY DEF Disconnect, Without
<1>3. CASE f \in Range(handlers[w][s])
  <2>1. HandlersCounted(DecRef(count, w, f), [handlers EXCEPT ![w][s] = RemoveFirst(@, f)])
    BY <1>1, <1>3, DisconnectCounted
  <2>2. /\ DecRef(count, w, f) \in Counts
        /\ \A u \in Owner, o \in Obj : DecRef(count, w, f)[u][o] = count[u][o]
    <3>1. f \in Value /\ \A o \in Obj : o # f /\ o \in Value
      BY ValueKinds
    <3> QED BY <1>1, <3>1, DecRefFacts
  <2>3. ItemsCounted(DecRef(count, w, f), items) /\ ManagedCounted(DecRef(count, w, f), managed)
    BY <1>1, <2>2, OtherCountsStay
  <2>4. count' = DecRef(count, w, f)
    BY <1>2, <1>3 DEF Disconnected
  <2>5. HandlersCounted(count', handlers') /\ ItemsCounted(count', items') /\ ManagedCounted(count', managed')
    BY <1>2, <2>1, <2>3, <2>4
  <2> QED BY <2>5 DEF CountsInv, HandlersCounted, ItemsCounted, ManagedCounted
<1>4. CASE f \notin Range(handlers[w][s])
  <2>1. count' = count
    BY <1>2, <1>4 DEF Disconnected
  <2>2. RemoveFirst(handlers[w][s], f) = handlers[w][s]
    <3>1. handlers[w][s] \in Seq(Func)
      BY TypeGives
    <3>2. \A i \in 1..Len(handlers[w][s]) : handlers[w][s][i] # f
      BY <1>4, <3>1, LenProperties DEF Range
    <3> QED BY <3>2 DEF RemoveFirst
  <2>3. handlers' = handlers
    BY <1>1, <1>2, <2>2 DEF Handlers
  <2> QED BY <1>1, <1>2, <2>1, <2>3 DEF CountsInv, HandlersCounted, ItemsCounted, ManagedCounted
<1> QED BY <1>3, <1>4

LEMMA ItemListsTyped == ASSUME NEW new \in ItemLists PROVE new \in Seq(Obj)
<1>1. \A a \in Obj : <<a>> \in Seq(Obj) /\ <<a, a>> \in Seq(Obj)
  OBVIOUS
<1>2. new = <<>> \/ (\E a \in Obj : new = <<a>> \/ new = <<a, a>>)
  BY DEF ItemLists
<1>3. CASE new = <<>>
  BY <1>3
<1>4. CASE \E a \in Obj : new = <<a>> \/ new = <<a, a>>
  BY <1>1, <1>4
<1> QED BY <1>2, <1>3, <1>4

LEMMA SetItemsCounts ==
    ASSUME ObjectsTypeInv, CountsInv, NEW o \in Obj, NEW new \in ItemLists, SetItems(o, new)
    PROVE  CountsInv'
<1>1. /\ count \in Counts /\ handlers \in Handlers /\ managed \in SUBSET Obj
      /\ items \in [Obj -> Seq(Obj)]
      /\ HandlersCounted(count, handlers) /\ ItemsCounted(count, items) /\ ManagedCounted(count, managed)
  BY TypeGives, CountsInvIs
<1>2. new \in Seq(Obj)
  BY ItemListsTyped
<1>3. /\ count' = ItemsReplaced(o, new) /\ items' = [items EXCEPT ![o] = new]
      /\ handlers' = handlers /\ managed' = managed
  BY DEF SetItems
<1>4. /\ count' \in Counts
      /\ \A u \in Owner, x \in Value : u # o => count'[u][x] = count[u][x]
      /\ \A f \in Func : count'[o][f] = count[o][f]
      /\ \A x \in Value : count'[o][x] >= Times(new, x)
  BY <1>1, <1>2, <1>3, ReplacedFacts
<1>5. HandlersCounted(count', handlers)
  <2>1. \A w \in Owner, f \in Func : count'[w][f] = count[w][f]
    BY <1>4, ValueKinds
  <2> QED BY <1>1, <2>1, HandlerCountsStay
<1>6. ItemsCounted(count', items')
  <2> SUFFICES ASSUME NEW p \in Obj, NEW i \in Obj PROVE Times(items'[p], i) <= count'[p][i]
    BY DEF ItemsCounted
  <2>1. CASE p = o
    <3>1. items'[p] = new
      BY <1>1, <1>3, <2>1
    <3>2. Times(new, i) \in Nat /\ count'[o][i] \in Nat
      BY <1>2, <1>4, TimesFacts, ValueKinds DEF Counts
    <3>3. count'[o][i] >= Times(new, i)
      BY <1>4, ValueKinds
    <3> QED BY <2>1, <3>1, <3>2, <3>3
  <2>2. CASE p # o
    <3>1. items'[p] = items[p] /\ count'[p][i] = count[p][i]
      BY <1>1, <1>3, <1>4, <2>2, ValueKinds
    <3> QED BY <1>1, <3>1 DEF ItemsCounted
  <2> QED BY <2>1, <2>2
<1>7. ManagedCounted(count', managed)
  BY <1>1, <1>4, ValueKinds DEF ManagedCounted
<1> QED BY <1>3, <1>5, <1>6, <1>7 DEF CountsInv, HandlersCounted, ItemsCounted, ManagedCounted

LEMMA ManageCounts ==
    ASSUME ObjectsTypeInv, CountsInv, NEW o \in Obj, Manage(o) \/ Unmanage(o)
    PROVE  CountsInv'
<1>1. /\ count \in Counts /\ handlers \in Handlers /\ managed \in SUBSET Obj
      /\ HandlersCounted(count, handlers) /\ ItemsCounted(count, items) /\ ManagedCounted(count, managed)
  BY TypeGives, CountsInvIs
<1>2. handlers' = handlers /\ items' = items
  BY DEF Manage, Unmanage
<1>3. /\ \A u \in Owner, x \in Value : u # Class \/ x # o => count'[u][x] = count[u][x]
      /\ Manage(o) => count'[Class][o] > 0
      /\ count' \in Counts
  <2>1. CASE Manage(o)
    <3>1. count' = IncRef(count, Class, o)
      BY <2>1 DEF Manage
    <3>2. Class \in Owner /\ o \in Value /\ count[Class][o] \in Nat
      BY <1>1, ValueKinds DEF Counts
    <3> QED BY <1>1, <3>1, <3>2, IncRefFacts
  <2>2. CASE Unmanage(o) /\ ~Manage(o)
    <3>1. count' = DecRef(count, Class, o)
      BY <2>2 DEF Unmanage
    <3> QED BY <1>1, <2>2, <3>1, DecRefFacts, ValueKinds
  <2> QED BY <2>1, <2>2
<1>4. HandlersCounted(count', handlers)
  <2>1. \A w \in Owner, f \in Func : count'[w][f] = count[w][f]
    BY <1>3, ValueKinds
  <2> QED BY <1>1, <2>1, HandlerCountsStay
<1>5. ItemsCounted(count', items)
  <2>1. \A p, i \in Obj : count'[p][i] = count[p][i]
    BY <1>3, ValueKinds
  <2> QED BY <1>1, <2>1 DEF ItemsCounted
<1>6. ManagedCounted(count', managed')
  <2>1. CASE Manage(o)
    <3>1. managed' = managed \cup {o}
      BY <2>1 DEF Manage
    <3> QED BY <1>1, <1>3, <2>1, <3>1, ValueKinds DEF ManagedCounted
  <2>2. CASE Unmanage(o)
    <3>1. managed' = managed \ {o}
      BY <2>2 DEF Unmanage
    <3> QED BY <1>1, <1>3, <3>1, ValueKinds DEF ManagedCounted
  <2> QED BY <2>1, <2>2
<1> QED BY <1>2, <1>4, <1>5, <1>6 DEF CountsInv, HandlersCounted, ItemsCounted, ManagedCounted

\* The tables and the lists of a collected object are empty.
LEMMA CollectCounts == ASSUME ObjectsTypeInv, CountsInv, Collect PROVE CountsInv'
<1>1. /\ count \in Counts /\ handlers \in Handlers /\ managed \in SUBSET Obj
      /\ items \in [Obj -> Seq(Obj)]
      /\ HandlersCounted(count, handlers) /\ ItemsCounted(count, items) /\ ManagedCounted(count, managed)
  BY TypeGives, CountsInvIs
<1>2. PICK gone : gone = Obj \ Marked
  OBVIOUS
<1>3. /\ handlers' = [w \in Owner |-> IF w \in gone THEN NoHandlers ELSE handlers[w]]
      /\ items' = [o \in Obj |-> IF o \in gone THEN <<>> ELSE items[o]]
      /\ count' = [w \in Owner |-> IF w \in gone THEN [v \in Value |-> 0] ELSE count[w]]
      /\ managed' = managed
  BY <1>2 DEF Collect
<1>4. HandlersCounted(count', handlers')
  <2> SUFFICES ASSUME NEW w \in Owner, NEW f \in Func
               PROVE  /\ IsFiniteSet(HandlerPlaces(handlers', w, f))
                      /\ Cardinality(HandlerPlaces(handlers', w, f)) <= count'[w][f]
    BY DEF HandlersCounted
  <2>1. CASE w \in gone
    <3>1. \A s \in Signal : DOMAIN handlers'[w][s] = {}
      BY <1>3, <2>1 DEF NoHandlers
    <3>2. HandlerPlaces(handlers', w, f) = {}
      BY <3>1 DEF HandlerPlaces
    <3>3. count'[w][f] = 0
      BY <1>3, <2>1, ValueKinds
    <3> QED BY <3>2, <3>3, FS_EmptySet
  <2>2. CASE w \notin gone
    <3>1. handlers'[w] = handlers[w] /\ count'[w] = count[w]
      BY <1>3, <2>2
    <3>2. HandlerPlaces(handlers', w, f) = HandlerPlaces(handlers, w, f)
      BY <3>1 DEF HandlerPlaces
    <3> QED BY <1>1, <3>1, <3>2 DEF HandlersCounted
  <2> QED BY <2>1, <2>2
<1>5. ItemsCounted(count', items')
  <2> SUFFICES ASSUME NEW o \in Obj, NEW i \in Obj PROVE Times(items'[o], i) <= count'[o][i]
    BY DEF ItemsCounted
  <2>1. CASE o \in gone
    <3>1. items'[o] = <<>> /\ count'[o][i] = 0
      BY <1>3, <2>1, ValueKinds
    <3>2. {j \in DOMAIN <<>> : <<>>[j] = i} = {}
      OBVIOUS
    <3>3. Times(<<>>, i) = 0
      BY <3>2, FS_EmptySet DEF Times
    <3> QED BY <3>1, <3>3
  <2>2. CASE o \notin gone
    <3>1. items'[o] = items[o] /\ count'[o] = count[o]
      BY <1>3, <2>2, ValueKinds
    <3> QED BY <1>1, <3>1 DEF ItemsCounted
  <2> QED BY <2>1, <2>2
<1>6. ManagedCounted(count', managed')
  <2>1. Class \notin gone
    BY <1>2, ValueKinds
  <2>2. count'[Class] = count[Class]
    BY <1>3, <2>1, ValueKinds
  <2> QED BY <1>1, <1>3, <2>2 DEF ManagedCounted
<1> QED BY <1>4, <1>5, <1>6 DEF CountsInv, HandlersCounted, ItemsCounted, ManagedCounted

LEMMA NextCounts ==
    ASSUME ObjectsTypeInv, CountsInv, [ObjectsNext]_objectsVars PROVE CountsInv'
<1>1. ASSUME UNCHANGED <<count, handlers, items, managed>> PROVE CountsInv'
  BY <1>1 DEF CountsInv
<1>2. ASSUME Call \/ ClassFollows PROVE CountsInv'
  BY <1>1, <1>2 DEF Call, ClassFollows
<1>3. ASSUME Return PROVE CountsInv'
  <2>1. PICK c : c = Head(emissions).connecting
    OBVIOUS
  <2>2. CASE c = NotConnecting
    BY <1>1, <1>3, <2>1, <2>2 DEF Return
  <2>3. CASE c # NotConnecting
    <3>1. c \in Signal \X Func
      <4>1. Head(emissions) \in EmissionRecord
        BY <1>3, TypeGives DEF Return
      <4> QED BY <2>1, <2>3, <4>1 DEF EmissionRecord
    <3>2. /\ count' = IncRef(count, Class, c[2])
          /\ handlers' = [handlers EXCEPT ![Class][c[1]] = Append(@, c[2])]
          /\ UNCHANGED <<items, managed>>
      BY <1>3, <2>1, <2>3 DEF Return
    <3> QED BY <3>1, <3>2, ConnectedCounts, ValueKinds
  <2> QED BY <2>2, <2>3
<1>4. ASSUME NEW o \in Obj, NewObject(o) \/ GetItems(o) PROVE CountsInv'
  BY <1>1, <1>4 DEF NewObject, GetItems
<1>5. ASSUME NEW f \in Func, NewFunction(f) PROVE CountsInv'
  BY <1>1, <1>5 DEF NewFunction
<1>6. ASSUME NEW v \in Value, Drop(v) PROVE CountsInv'
  BY <1>1, <1>6 DEF Drop
<1>7. ASSUME NEW o \in Obj, NEW s \in Signal, NEW f \in Func, Connect(o, s, f) PROVE CountsInv'
  BY <1>7, ConnectedCounts, ValueKinds DEF Connect
<1>8. ASSUME NEW s \in Signal, NEW f \in Func, ConnectClass(s, f) PROVE CountsInv'
  <2>1. CASE UNCHANGED <<count, handlers>>
    BY <1>1, <1>8, <2>1 DEF ConnectClass
  <2>2. CASE /\ count' = IncRef(count, Class, f)
             /\ handlers' = [handlers EXCEPT ![Class][s] = Append(@, f)]
    BY <1>8, <2>2, ConnectedCounts, ValueKinds DEF ConnectClass
  <2> QED BY <1>8, <2>1, <2>2 DEF ConnectClass
<1>9. ASSUME NEW o \in Obj, NEW s \in Signal, Emit(o, s) \/ EmitOnClass(s) PROVE CountsInv'
  BY <1>1, <1>9 DEF Emit, EmitOnClass
<1>10. ASSUME NEW s \in Signal, EmitOnClass(s) PROVE CountsInv'
  BY <1>1, <1>10 DEF EmitOnClass
<1>11. ASSUME UNCHANGED objectsVars PROVE CountsInv'
  BY <1>1, <1>11 DEF objectsVars
<1> QED
  BY <1>2, <1>3, <1>4, <1>5, <1>6, <1>7, <1>8, <1>9, <1>10, <1>11, CollectCounts, DisconnectCounts,
     SetItemsCounts, ManageCounts DEF ObjectsNext

-----------------------------------------------------------------------------
(* Objects: types.                                                         *)

LEMMA PushedIs ==
    ASSUME ObjectsTypeInv, CountsInv, NEW w \in Owner, NEW s \in Signal
    PROVE  /\ Pushed(count, w, handlers[w][s]) = handlers[w][s]
           /\ handlers[w][s] \in Seq(Func)
           /\ \A v \in Range(handlers[w][s]) : v \in Func /\ count[w][v] > 0
<1>1. PICK h : h = handlers[w][s]
  OBVIOUS
<1>2. h \in Seq(Func) /\ count \in Counts /\ handlers \in Handlers /\ HandlersCounted(count, handlers)
  BY <1>1, TypeGives, CountsInvIs
<1>3. \A i \in DOMAIN h : h[i] \in Func /\ count[w][h[i]] > 0
  BY <1>1, <1>2, ConnectedHasReference
<1>4. Pushed(count, w, h) = [i \in DOMAIN h |-> h[i]]
  BY <1>3 DEF Pushed
<1>5. [i \in DOMAIN h |-> h[i]] = h
  BY <1>2
<1>6. \A v \in Range(h) : v \in Func /\ count[w][v] > 0
  BY <1>3 DEF Range
<1> QED BY <1>1, <1>2, <1>4, <1>5, <1>6

LEMMA BeginFacts ==
    ASSUME NEW e \in EmissionRecord, emissions \in Seq(EmissionRecord), Begin(e)
    PROVE  /\ emissions' \in Seq(EmissionRecord)
           /\ \A x \in Range(emissions') : x = e \/ x \in Range(emissions)
<1> DEFINE one == <<e>>
<1>1. one \in Seq(EmissionRecord) /\ Len(one) = 1 /\ one[1] = e
  OBVIOUS
<1>2. emissions' = one \o emissions
  BY DEF Begin
<1> HIDE DEF one
<1>3. /\ emissions' \in Seq(EmissionRecord) /\ Len(emissions') = Len(one) + Len(emissions)
      /\ \A i \in 1..Len(one) + Len(emissions) :
            emissions'[i] = IF i <= Len(one) THEN one[i] ELSE emissions[i - Len(one)]
  BY <1>1, <1>2, ConcatProperties
<1>4. Len(emissions) \in Nat /\ DOMAIN emissions = 1..Len(emissions) /\ DOMAIN emissions' = 1..Len(emissions')
  BY <1>3, LenProperties
<1>5. ASSUME NEW i \in 1..Len(emissions) + 1 PROVE emissions'[i] = e \/ emissions'[i] \in Range(emissions)
  <2>1. CASE i = 1
    BY <1>1, <1>3, <1>4, <2>1
  <2>2. CASE i # 1
    <3>1. i - 1 \in 1..Len(emissions) /\ ~(i <= 1)
      BY <1>4, <2>2
    <3>2. emissions'[i] = emissions[i - 1]
      BY <1>1, <1>3, <1>4, <3>1
    <3> QED BY <1>4, <3>1, <3>2 DEF Range
  <2> QED BY <2>1, <2>2
<1> QED BY <1>1, <1>3, <1>4, <1>5 DEF Range

LEMMA FirstChanged ==
    ASSUME NEW x \in EmissionRecord, emissions \in Seq(EmissionRecord), emissions # <<>>
    PROVE  /\ [emissions EXCEPT ![1] = x] \in Seq(EmissionRecord)
           /\ \A y \in Range([emissions EXCEPT ![1] = x]) : y = x \/ y \in Range(emissions)
           /\ Head(emissions) = emissions[1] /\ 1 \in DOMAIN emissions /\ Head(emissions) \in EmissionRecord
           /\ Head(emissions) \in Range(emissions)
<1>1. 1 \in DOMAIN emissions /\ Head(emissions) = emissions[1] /\ Head(emissions) \in EmissionRecord
  BY HeadTailProperties, LenProperties, EmptySeq
<1>2. [emissions EXCEPT ![1] = x] \in Seq(EmissionRecord)
  BY <1>1
<1>3. \A y \in Range([emissions EXCEPT ![1] = x]) : y = x \/ y \in Range(emissions)
  BY <1>1 DEF Range
<1> QED BY <1>1, <1>2, <1>3 DEF Range

\* What an emission that begins will call has references in the table of its owner.
EmissionFrom(e, w) ==
    /\ e \in EmissionRecord
    /\ \A v \in Range(e.due) : v \in Func /\ count[w][v] > 0
    /\ e.connecting = NotConnecting

LEMMA NewObjectBegins ==
    ASSUME ObjectsTypeInv, CountsInv, NEW o \in Obj, NewObject(o)
    PROVE  \E e : EmissionFrom(e, Class) /\ e.self = o /\ Begin(e)
<1>1. PICK due : due = Pushed(count, Class, handlers[Class]["new"])
  OBVIOUS
<1>2. due \in Seq(Func) /\ \A v \in Range(due) : v \in Func /\ count[Class][v] > 0
  <2>1. "new" \in Signal
    BY ObjectsAssumption
  <2> QED BY <1>1, <2>1, PushedIs, ValueKinds
<1>3. PICK e : e = Emission(o, "new", due, FALSE, NotConnecting)
  OBVIOUS
<1>4. /\ o \in Obj \cup {Nil} /\ "new" \in Signal /\ FALSE \in BOOLEAN
      /\ NotConnecting \in (Signal \X Func) \cup {NotConnecting}
  BY ObjectsAssumption
<1>5. e \in EmissionRecord /\ e.self = o /\ e.due = due /\ e.connecting = NotConnecting
  BY ONLY <1>2, <1>3, <1>4 DEF Emission, EmissionRecord
<1>6. Begin(e)
  BY <1>1, <1>3 DEF NewObject
<1> QED BY <1>2, <1>5, <1>6 DEF EmissionFrom

LEMMA EmitBegins ==
    ASSUME ObjectsTypeInv, CountsInv, NEW o \in Obj, NEW s \in Signal, Emit(o, s)
    PROVE  \E e : EmissionFrom(e, o) /\ e.self = o /\ Begin(e)
<1>1. PICK due : due = Pushed(count, o, handlers[o][s])
  OBVIOUS
<1>2. due \in Seq(Func) /\ \A v \in Range(due) : v \in Func /\ count[o][v] > 0
  BY <1>1, PushedIs, ValueKinds
<1>3. PICK e : e = Emission(o, s, due, TRUE, NotConnecting)
  OBVIOUS
<1>4. /\ o \in Obj \cup {Nil} /\ s \in Signal /\ TRUE \in BOOLEAN
      /\ NotConnecting \in (Signal \X Func) \cup {NotConnecting}
  BY ObjectsAssumption
<1>5. e \in EmissionRecord /\ e.self = o /\ e.due = due /\ e.connecting = NotConnecting
  BY ONLY <1>2, <1>3, <1>4 DEF Emission, EmissionRecord
<1>6. Begin(e)
  BY <1>1, <1>3 DEF Emit
<1> QED BY <1>2, <1>5, <1>6 DEF EmissionFrom

LEMMA EmitOnClassBegins ==
    ASSUME ObjectsTypeInv, CountsInv, NEW s \in Signal, EmitOnClass(s)
    PROVE  \E e : EmissionFrom(e, Class) /\ e.self = Nil /\ Begin(e)
<1>1. PICK due : due = Pushed(count, Class, handlers[Class][s])
  OBVIOUS
<1>2. due \in Seq(Func) /\ \A v \in Range(due) : v \in Func /\ count[Class][v] > 0
  BY <1>1, PushedIs, ValueKinds
<1>3. PICK e : e = Emission(Nil, s, due, FALSE, NotConnecting)
  OBVIOUS
<1>4. /\ Nil \in Obj \cup {Nil} /\ s \in Signal /\ FALSE \in BOOLEAN
      /\ NotConnecting \in (Signal \X Func) \cup {NotConnecting}
  BY ObjectsAssumption
<1>5. e \in EmissionRecord /\ e.self = Nil /\ e.due = due /\ e.connecting = NotConnecting
  BY ONLY <1>2, <1>3, <1>4 DEF Emission, EmissionRecord
<1>6. Begin(e)
  BY <1>1, <1>3 DEF EmitOnClass
<1> QED BY <1>2, <1>5, <1>6 DEF EmissionFrom

\* Announcing a connection is an emission that holds on to the function to connect.
LEMMA ConnectClassDoes ==
    ASSUME ObjectsTypeInv, CountsInv, NEW s \in Signal, NEW f \in Func, ConnectClass(s, f)
    PROVE  \/ /\ \E e \in EmissionRecord : /\ \A v \in Range(e.due) : v \in Func /\ count[Class][v] > 0
                                           /\ e.self = Nil /\ e.connecting = <<s, f>>
                                           /\ Begin(e)
              /\ UNCHANGED <<count, handlers>>
           \/ /\ count' = IncRef(count, Class, f)
              /\ handlers' = [handlers EXCEPT ![Class][s] = Append(@, f)]
              /\ UNCHANGED emissions
<1> DEFINE told == IF s \in DOMAIN Announced THEN handlers[Class][Announced[s]] ELSE <<>>
<1>1. CASE told # <<>>
  <2>1. s \in DOMAIN Announced /\ Announced[s] \in Signal /\ told = handlers[Class][Announced[s]]
    BY <1>1, ObjectsAssumption
  <2>2. PICK due : due = Pushed(count, Class, told)
    OBVIOUS
  <2>3. PICK t \in Signal : t = Announced[s]
    BY <2>1
  <2>4. due \in Seq(Func) /\ \A v \in Range(due) : v \in Func /\ count[Class][v] > 0
    <3>1. told = handlers[Class][t]
      BY <2>1, <2>3
    <3> HIDE DEF told
    <3> QED BY <2>2, <3>1, PushedIs, ValueKinds
  <2>5. PICK c : c = <<s, f>>
    OBVIOUS
  <2>6. PICK e : e = Emission(Nil, t, due, FALSE, c)
    OBVIOUS
  <2>7. c \in (Signal \X Func) \cup {NotConnecting} /\ Nil \in Obj \cup {Nil} /\ FALSE \in BOOLEAN
    BY <2>5
  <2>8. e \in EmissionRecord /\ e.self = Nil /\ e.due = due /\ e.connecting = c
    BY ONLY <2>4, <2>6, <2>7, t \in Signal DEF Emission, EmissionRecord
  <2>9. Begin(e) /\ UNCHANGED <<count, handlers>>
    BY <1>1, <2>2, <2>3, <2>5, <2>6 DEF ConnectClass
  <2> HIDE DEF told
  <2> QED BY <2>4, <2>5, <2>8, <2>9
<1>2. CASE told = <<>>
  BY <1>2 DEF ConnectClass
<1> QED BY <1>1, <1>2

\* The emissions after a step: each was there, perhaps with more of its functions called, or is new.
LEMMA CallChanges ==
    ASSUME ObjectsTypeInv, CountsInv, Call
    PROVE  \E e \in EmissionRecord :
              /\ emissions' = [emissions EXCEPT ![1] = e]
              /\ e.self = Head(emissions).self /\ e.connecting = Head(emissions).connecting
              /\ Range(e.due) \subseteq Range(Head(emissions).due)
              /\ Head(Head(emissions).due) \in Range(Head(emissions).due)
<1>1. /\ emissions \in Seq(EmissionRecord) /\ emissions # <<>> /\ Head(emissions).due # <<>>
      /\ emissions' = [emissions EXCEPT ![1].due = Tail(@)]
  BY TypeGives DEF Call
<1>2. /\ 1 \in DOMAIN emissions /\ Head(emissions) = emissions[1] /\ Head(emissions) \in EmissionRecord
  BY <1>1, HeadTailProperties, LenProperties, EmptySeq
<1>3. PICK old : old = Head(emissions)
  OBVIOUS
<1>4. old \in EmissionRecord /\ old.due \in Seq(Func) /\ old.due # <<>>
  BY <1>1, <1>2, <1>3 DEF EmissionRecord
<1>5. Tail(old.due) \in Seq(Func) /\ Range(Tail(old.due)) \subseteq Range(old.due) /\ Head(old.due) \in Range(old.due)
  <2>1. PICK d : d = old.due
    OBVIOUS
  <2>2. d \in Seq(Func) /\ d # <<>>
    BY <1>4, <2>1
  <2>3. /\ Tail(d) \in Seq(Func) /\ Head(d) = d[1] /\ Len(Tail(d)) = Len(d) - 1
        /\ \A i \in 1..Len(d) - 1 : Tail(d)[i] = d[i + 1]
    BY <2>2, HeadTailProperties
  <2>4. /\ Len(d) \in Nat /\ Len(d) > 0 /\ DOMAIN d = 1..Len(d) /\ DOMAIN Tail(d) = 1..Len(d) - 1
    BY <2>2, <2>3, LenProperties, EmptySeq
  <2>5. \A i \in 1..Len(d) - 1 : i + 1 \in 1..Len(d)
    BY <2>4
  <2>6. Range(Tail(d)) \subseteq Range(d) /\ Head(d) \in Range(d)
    BY <2>3, <2>4, <2>5 DEF Range
  <2> QED BY <2>1, <2>3, <2>6
<1>6. PICK e : e = [old EXCEPT !.due = Tail(old.due)]
  OBVIOUS
<1>7. /\ e \in EmissionRecord /\ e.self = old.self /\ e.connecting = old.connecting
      /\ e.due = Tail(old.due)
  BY <1>4, <1>5, <1>6 DEF EmissionRecord
<1>8. emissions' = [emissions EXCEPT ![1] = e]
  BY <1>1, <1>2, <1>3, <1>6
<1> QED BY <1>3, <1>5, <1>7, <1>8

LEMMA ClassFollowsChanges ==
    ASSUME ObjectsTypeInv, CountsInv, ClassFollows
    PROVE  \E e \in EmissionRecord :
              /\ emissions' = [emissions EXCEPT ![1] = e]
              /\ e.self = Head(emissions).self /\ e.connecting = Head(emissions).connecting
              /\ \A v \in Range(e.due) : v \in Func /\ count[Class][v] > 0
<1>1. /\ emissions \in Seq(EmissionRecord) /\ emissions # <<>>
  BY TypeGives DEF ClassFollows
<1>2. /\ 1 \in DOMAIN emissions /\ Head(emissions) = emissions[1] /\ Head(emissions) \in EmissionRecord
  BY <1>1, HeadTailProperties, LenProperties, EmptySeq
<1>3. PICK old : old = Head(emissions)
  OBVIOUS
<1>4. old \in EmissionRecord /\ old.signal \in Signal
  BY <1>2, <1>3 DEF EmissionRecord
<1>5. PICK due : due = Pushed(count, Class, handlers[Class][old.signal])
  OBVIOUS
<1>6. due \in Seq(Func) /\ \A v \in Range(due) : v \in Func /\ count[Class][v] > 0
  <2>1. PICK s \in Signal : s = old.signal
    BY <1>4
  <2> QED BY <1>5, <2>1, PushedIs, ValueKinds
<1>7. PICK e : e = [old EXCEPT !.due = due, !.classNext = FALSE]
  OBVIOUS
<1>8. /\ e \in EmissionRecord /\ e.self = old.self /\ e.connecting = old.connecting /\ e.due = due
  BY <1>4, <1>6, <1>7 DEF EmissionRecord
<1>9. emissions' = [emissions EXCEPT ![1] = e]
  BY <1>3, <1>5, <1>7 DEF ClassFollows
<1> QED BY <1>3, <1>6, <1>8, <1>9

LEMMA ReturnFacts ==
    ASSUME ObjectsTypeInv, Return
    PROVE  /\ emissions' \in Seq(EmissionRecord)
           /\ Range(emissions') \subseteq Range(emissions)
           /\ Head(emissions) \in EmissionRecord /\ Head(emissions) \in Range(emissions)
<1>1. /\ emissions \in Seq(EmissionRecord) /\ emissions # <<>> /\ emissions' = Tail(emissions)
  BY TypeGives DEF Return
<1>2. /\ Tail(emissions) \in Seq(EmissionRecord) /\ Head(emissions) = emissions[1]
      /\ Head(emissions) \in EmissionRecord /\ Len(Tail(emissions)) = Len(emissions) - 1
      /\ \A i \in 1..Len(emissions) - 1 : Tail(emissions)[i] = emissions[i + 1]
  BY <1>1, HeadTailProperties
<1>3. /\ Len(emissions) \in Nat /\ Len(emissions) > 0 /\ DOMAIN emissions = 1..Len(emissions)
      /\ DOMAIN Tail(emissions) = 1..Len(emissions) - 1
  BY <1>1, <1>2, LenProperties, EmptySeq
<1>4. \A i \in 1..Len(emissions) - 1 : i + 1 \in 1..Len(emissions)
  BY <1>3
<1>5. Range(Tail(emissions)) \subseteq Range(emissions) /\ Head(emissions) \in Range(emissions)
  BY <1>2, <1>3, <1>4 DEF Range
<1> QED BY <1>1, <1>2, <1>5

LEMMA NextTyped ==
    ASSUME ObjectsTypeInv, CountsInv, [ObjectsNext]_objectsVars PROVE ObjectsTypeInv'
<1>1. /\ alive \subseteq Value /\ held \subseteq Value /\ checked \subseteq Obj /\ managed \subseteq Obj
      /\ count \in Counts /\ handlers \in Handlers /\ items \in [Obj -> Seq(Obj)]
      /\ emissions \in Seq(EmissionRecord) /\ objectCalls \in 0..MaxObjectCalls
  BY DEF ObjectsTypeInv, Counts, Handlers
<1>2. SUFFICES
        /\ alive' \subseteq Value /\ held' \subseteq Value /\ checked' \subseteq Obj /\ managed' \subseteq Obj
        /\ count' \in Counts /\ handlers' \in Handlers /\ items' \in [Obj -> Seq(Obj)]
        /\ emissions' \in Seq(EmissionRecord) /\ objectCalls' \in 0..MaxObjectCalls
  BY DEF ObjectsTypeInv, Counts, Handlers
<1> DEFINE Typed ==
        /\ alive' \subseteq Value /\ held' \subseteq Value /\ checked' \subseteq Obj /\ managed' \subseteq Obj
        /\ count' \in Counts /\ handlers' \in Handlers /\ items' \in [Obj -> Seq(Obj)]
        /\ emissions' \in Seq(EmissionRecord) /\ objectCalls' \in 0..MaxObjectCalls
<1>3. LuaCode(1) => objectCalls' \in 0..MaxObjectCalls
  BY <1>1, ObjectsAssumption DEF LuaCode
<1>4. ASSUME Collect PROVE Typed
  <2>1. NoHandlers \in [Signal -> Seq(Func)] /\ <<>> \in Seq(Obj)
    BY DEF NoHandlers
  <2>2. handlers' \in Handlers
    BY <1>1, <1>4, <2>1 DEF Collect, Handlers
  <2>3. items' \in [Obj -> Seq(Obj)]
    BY <1>1, <1>4, <2>1 DEF Collect
  <2>4. count' \in Counts
    BY <1>1, <1>4 DEF Collect, Counts
  <2>5. /\ alive' \subseteq Value /\ checked' \subseteq Obj
        /\ UNCHANGED <<held, managed, emissions, objectCalls>>
    BY <1>1, <1>4 DEF Collect
  <2> QED BY <1>1, <2>2, <2>3, <2>4, <2>5
<1>5. ASSUME Call PROVE Typed
  <2>1. emissions' \in Seq(EmissionRecord)
    <3>1. PICK e \in EmissionRecord : emissions' = [emissions EXCEPT ![1] = e]
      BY <1>5, CallChanges
    <3> QED BY <1>1, <1>5, <3>1, FirstChanged DEF Call
  <2>2. held' \subseteq Value
    <3>1. PICK k \in SUBSET ({Head(emissions).self, Head(Head(emissions).due)} \ {Nil}) : held' = held \cup k
      BY <1>5 DEF Call
    <3>2. Head(emissions) \in EmissionRecord /\ Head(Head(emissions).due) \in Range(Head(emissions).due)
      BY <1>1, <1>5, CallChanges, HeadTailProperties DEF Call
    <3>3. PICK h \in EmissionRecord : h = Head(emissions)
      BY <3>2
    <3>4. h.due \in Seq(Func) /\ h.self \in Obj \cup {Nil}
      BY DEF EmissionRecord
    <3>5. \A i \in DOMAIN h.due : h.due[i] \in Func
      BY <3>4
    <3>6. Range(h.due) \subseteq Func
      BY <3>5 DEF Range
    <3> QED BY <1>1, <3>1, <3>2, <3>3, <3>4, <3>6, ValueKinds
  <2>3. UNCHANGED <<alive, checked, count, handlers, items, managed, objectCalls>>
    BY <1>5 DEF Call
  <2> QED BY <1>1, <2>1, <2>2, <2>3
<1>6. ASSUME ClassFollows PROVE Typed
  <2>1. PICK e \in EmissionRecord : emissions' = [emissions EXCEPT ![1] = e]
    BY <1>6, ClassFollowsChanges
  <2>2. emissions' \in Seq(EmissionRecord)
    BY <1>1, <1>6, <2>1, FirstChanged DEF ClassFollows
  <2>3. UNCHANGED <<alive, checked, held, count, handlers, items, managed, objectCalls>>
    BY <1>6 DEF ClassFollows
  <2> QED BY <1>1, <2>2, <2>3
<1>7. ASSUME Return PROVE Typed
  <2>1. emissions' \in Seq(EmissionRecord) /\ Head(emissions) \in EmissionRecord
    BY <1>7, ReturnFacts
  <2>2. UNCHANGED <<alive, checked, held, items, managed, objectCalls>>
    BY <1>7 DEF Return
  <2>3. count' \in Counts /\ handlers' \in Handlers
    <3>1. PICK c : c = Head(emissions).connecting
      OBVIOUS
    <3>2. CASE c = NotConnecting
      BY <1>1, <1>7, <3>1, <3>2 DEF Return
    <3>3. CASE c # NotConnecting
      <4>1. c \in Signal \X Func
        BY <2>1, <3>1, <3>3 DEF EmissionRecord
      <4>2. /\ count' = IncRef(count, Class, c[2])
            /\ handlers' = [handlers EXCEPT ![Class][c[1]] = Append(@, c[2])]
        BY <1>7, <3>1, <3>3 DEF Return
      <4> QED BY <1>1, <4>1, <4>2, IncRefFacts, ConnectCounted, CountsInvIs, ValueKinds
    <3> QED BY <3>2, <3>3
  <2> QED BY <1>1, <2>1, <2>2, <2>3
<1>8. ASSUME NEW o \in Obj, NewObject(o) PROVE Typed
  <2>1. emissions' \in Seq(EmissionRecord)
    BY <1>1, <1>8, NewObjectBegins, BeginFacts DEF EmissionFrom
  <2>2. /\ alive' = alive \cup {o} /\ checked' = checked \cup {o} /\ held' = held \cup {o} /\ LuaCode(1)
        /\ UNCHANGED <<count, handlers, items, managed>>
    BY <1>8 DEF NewObject
  <2> QED BY <1>1, <1>3, <2>1, <2>2, ValueKinds
<1>9. ASSUME NEW o \in Obj, Manage(o) \/ Unmanage(o) PROVE Typed
  <2>1. count' \in Counts
    BY <1>1, <1>9, IncRefFacts, DecRefFacts, ValueKinds DEF Manage, Unmanage
  <2>2. /\ checked' \subseteq Obj /\ managed' \subseteq Obj /\ LuaCode(1)
        /\ UNCHANGED <<alive, held, handlers, items, emissions>>
    BY <1>1, <1>9 DEF Manage, Unmanage
  <2> QED BY <1>1, <1>3, <2>1, <2>2
<1>10. ASSUME NEW o \in Obj, GetItems(o) PROVE Typed
  <2>1. Range(items[o]) \subseteq Obj
    <3>1. items[o] \in Seq(Obj)
      BY <1>1
    <3>2. \A i \in DOMAIN items[o] : items[o][i] \in Obj
      BY <3>1
    <3> QED BY <3>2 DEF Range
  <2>2. /\ held' = held \cup Range(items[o])
        /\ UNCHANGED <<alive, checked, count, handlers, items, managed, emissions, objectCalls>>
    BY <1>10 DEF GetItems
  <2> QED BY <1>1, <2>1, <2>2, ValueKinds
<1>11. ASSUME NEW f \in Func, NewFunction(f) PROVE Typed
  BY <1>1, <1>3, <1>11, ValueKinds DEF NewFunction
<1>12. ASSUME NEW v \in Value, Drop(v) PROVE Typed
  BY <1>1, <1>12 DEF Drop
<1>13. ASSUME NEW o \in Obj, NEW s \in Signal, NEW f \in Func, Connect(o, s, f) PROVE Typed
  <2>1. count' \in Counts /\ handlers' \in Handlers
    BY <1>1, <1>13, IncRefFacts, ConnectCounted, CountsInvIs, ValueKinds DEF Connect
  <2>2. LuaCode(1) /\ UNCHANGED <<alive, checked, held, items, managed, emissions>>
    BY <1>13 DEF Connect
  <2> QED BY <1>1, <1>3, <2>1, <2>2
<1>14. ASSUME NEW w \in Owner, NEW s \in Signal, NEW f \in Func, Disconnect(w, s, f) PROVE Typed
  <2>1. count' \in Counts /\ handlers' \in Handlers
    <3>1. /\ count' = Disconnected(count, w, s, f)
          /\ handlers' = [handlers EXCEPT ![w][s] = RemoveFirst(@, f)]
      BY <1>14 DEF Disconnect, Without
    <3>2. CASE f \in Range(handlers[w][s])
      BY <1>1, <3>1, <3>2, DecRefFacts, DisconnectCounted, CountsInvIs, ValueKinds DEF Disconnected
    <3>3. CASE f \notin Range(handlers[w][s])
      <4>1. handlers[w][s] \in Seq(Func)
        BY <1>1 DEF Handlers
      <4>2. \A i \in 1..Len(handlers[w][s]) : handlers[w][s][i] # f
        BY <3>3, <4>1, LenProperties DEF Range
      <4>3. RemoveFirst(handlers[w][s], f) = handlers[w][s]
        BY <4>2 DEF RemoveFirst
      <4> QED BY <1>1, <3>1, <3>3, <4>3 DEF Disconnected, Handlers
    <3> QED BY <3>2, <3>3
  <2>2. LuaCode(1) /\ UNCHANGED <<alive, checked, held, items, managed, emissions>>
    BY <1>14 DEF Disconnect
  <2> QED BY <1>1, <1>3, <2>1, <2>2
<1>15. ASSUME NEW s \in Signal, NEW f \in Func, ConnectClass(s, f) PROVE Typed
  <2>1. LuaCode(1) /\ UNCHANGED <<alive, checked, held, items, managed>>
    BY <1>15 DEF ConnectClass
  <2>2. count' \in Counts /\ handlers' \in Handlers /\ emissions' \in Seq(EmissionRecord)
    <3>1. CASE /\ \E e \in EmissionRecord : Begin(e)
               /\ UNCHANGED <<count, handlers>>
      BY <1>1, <3>1, BeginFacts
    <3>2. CASE /\ count' = IncRef(count, Class, f)
               /\ handlers' = [handlers EXCEPT ![Class][s] = Append(@, f)]
               /\ UNCHANGED emissions
      BY <1>1, <3>2, IncRefFacts, ConnectCounted, CountsInvIs, ValueKinds
    <3> QED BY <1>15, <3>1, <3>2, ConnectClassDoes
  <2> QED BY <1>1, <1>3, <2>1, <2>2
<1>16. ASSUME NEW o \in Obj, NEW s \in Signal, Emit(o, s) PROVE Typed
  <2>1. emissions' \in Seq(EmissionRecord)
    BY <1>1, <1>16, EmitBegins, BeginFacts DEF EmissionFrom
  <2>2. LuaCode(1) /\ UNCHANGED <<alive, checked, held, count, handlers, items, managed>>
    BY <1>16 DEF Emit
  <2> QED BY <1>1, <1>3, <2>1, <2>2
<1>17. ASSUME NEW s \in Signal, EmitOnClass(s) PROVE Typed
  <2>1. emissions' \in Seq(EmissionRecord)
    BY <1>1, <1>17, EmitOnClassBegins, BeginFacts DEF EmissionFrom
  <2>2. LuaCode(1) /\ UNCHANGED <<alive, checked, held, count, handlers, items, managed>>
    BY <1>17 DEF EmitOnClass
  <2> QED BY <1>1, <1>3, <2>1, <2>2
<1>18. ASSUME NEW o \in Obj, NEW new \in ItemLists, SetItems(o, new) PROVE Typed
  <2>1. new \in Seq(Obj)
    BY ItemListsTyped
  <2>2. count' \in Counts /\ items' \in [Obj -> Seq(Obj)]
    BY <1>1, <1>18, <2>1, ReplacedFacts DEF SetItems
  <2>3. LuaCode(1) /\ UNCHANGED <<alive, checked, held, handlers, managed, emissions>>
    BY <1>18 DEF SetItems
  <2> QED BY <1>1, <1>3, <2>2, <2>3
<1>19. ASSUME UNCHANGED objectsVars PROVE Typed
  BY <1>1, <1>19 DEF objectsVars
<1> QED
  BY <1>4, <1>5, <1>6, <1>7, <1>8, <1>9, <1>10, <1>11, <1>12, <1>13, <1>14, <1>15, <1>16, <1>17, <1>18,
     <1>19 DEF ObjectsNext

-----------------------------------------------------------------------------
(* Objects: what lives.                                                    *)

EmissionLives(e, A) ==
    /\ e.self # Nil => e.self \in A
    /\ Range(e.due) \subseteq A
    /\ e.connecting # NotConnecting => e.connecting[2] \in A
TablesLive(n, A) ==
    /\ \A w \in (A \cap Obj) \cup {Class}, v \in Value : n[w][v] > 0 => v \in A
    /\ \A o \in Obj \ A, v \in Value : n[o][v] = 0

LEMMA LivingInvIs ==
    LivingInv <=> /\ held \subseteq alive
                  /\ \A e \in Range(emissions) : EmissionLives(e, alive)
                  /\ TablesLive(count, alive)
  BY DEF LivingInv, EmissionLives, TablesLive

\* What the collector starts from is alive; what it marks is closed and alive.
LEMMA MarkedFacts ==
    ASSUME ObjectsTypeInv, LivingInv
    PROVE  /\ Roots \subseteq Marked /\ Marked \subseteq alive
           /\ \A o \in Marked \cap Obj, v \in Value : count[o][v] > 0 => v \in Marked
<1>1. /\ alive \subseteq Value /\ held \subseteq alive
      /\ \A e \in Range(emissions) : EmissionLives(e, alive)
      /\ TablesLive(count, alive) /\ emissions \in Seq(EmissionRecord)
  BY LivingInvIs DEF ObjectsTypeInv
<1>2. OnStack \ {Nil} \subseteq alive
  <2> SUFFICES ASSUME NEW x \in OnStack, x # Nil PROVE x \in alive
    OBVIOUS
  <2>1. PICK i \in DOMAIN emissions :
           x \in Range(emissions[i].due) \cup {emissions[i].self} \cup {emissions[i].connecting[2]}
    BY DEF OnStack
  <2>2. PICK e : e = emissions[i]
    OBVIOUS
  <2>3. EmissionLives(e, alive)
    BY <1>1, <2>2 DEF Range
  <2>4. CASE x = e.connecting[2]
    <3>1. e.connecting # NotConnecting
      BY <2>4 DEF NotConnecting
    <3> QED BY <2>3, <2>4, <3>1 DEF EmissionLives
  <2>5. CASE x \in Range(e.due) \/ x = e.self
    BY <2>3, <2>5 DEF EmissionLives
  <2> QED BY <2>1, <2>2, <2>4, <2>5
<1>3. {v \in Value : count[Class][v] > 0} \subseteq alive
  BY <1>1 DEF TablesLive
<1>4. Roots \subseteq alive
  BY <1>1, <1>2, <1>3 DEF Roots
<1>5. ~LeadsOn(alive)
  BY <1>1, ValueKinds DEF LeadsOn, TablesLive
<1> DEFINE closed == {S \in SUBSET Value : Roots \subseteq S /\ ~LeadsOn(S)}
<1>6. Marked = {v \in Value : \A S \in closed : v \in S}
  BY DEF Marked
<1>7. alive \in closed
  BY <1>1, <1>4, <1>5
<1>8. Roots \subseteq Marked
  <2>1. \A S \in closed : Roots \subseteq S
    OBVIOUS
  <2> HIDE DEF closed
  <2> QED BY <1>1, <1>4, <1>6, <2>1
<1>9. Marked \subseteq alive
  <2> HIDE DEF closed
  <2> QED BY <1>6, <1>7
<1>10. ASSUME NEW o \in Marked \cap Obj, NEW v \in Value, count[o][v] > 0 PROVE v \in Marked
  <2>1. ASSUME NEW S \in closed PROVE v \in S
    <3>1. ~LeadsOn(S)
      OBVIOUS
    <3>2. o \in S
      BY <1>6
    <3> QED BY <1>10, <3>1, <3>2 DEF LeadsOn
  <2> HIDE DEF closed
  <2> QED BY <1>6, <2>1
<1> QED BY <1>8, <1>9, <1>10

LEMMA CollectLives == ASSUME ObjectsTypeInv, LivingInv, Collect PROVE LivingInv'
<1>1. /\ alive \subseteq Value /\ held \subseteq alive
      /\ \A e \in Range(emissions) : EmissionLives(e, alive)
      /\ TablesLive(count, alive) /\ emissions \in Seq(EmissionRecord) /\ Nil \notin Value
      /\ held \subseteq Value /\ count \in Counts
  BY LivingInvIs, TypeGives, ObjectsAssumption DEF ObjectsTypeInv, Value
<1>2. PICK M : M = Marked
  OBVIOUS
<1>3. /\ Roots \subseteq M /\ M \subseteq alive
      /\ \A o \in M \cap Obj, v \in Value : count[o][v] > 0 => v \in M
  BY <1>2, MarkedFacts
<1>4. /\ alive' = M
      /\ count' = [w \in Owner |-> IF w \in Obj \ M THEN [v \in Value |-> 0] ELSE count[w]]
      /\ held' = held /\ emissions' = emissions
  BY <1>2, <1>3 DEF Collect
<1>5. held' \subseteq alive'
  <2>1. Nil \notin held
    BY <1>1
  <2> QED BY <1>3, <1>4, <2>1 DEF Roots
<1>6. \A e \in Range(emissions') : EmissionLives(e, alive')
  <2> SUFFICES ASSUME NEW i \in DOMAIN emissions PROVE EmissionLives(emissions[i], M)
    BY <1>4 DEF Range
  <2>1. PICK e : e = emissions[i]
    OBVIOUS
  <2>2. EmissionLives(e, alive)
    BY <1>1, <2>1 DEF Range
  <2>3. (Range(e.due) \cup {e.self} \cup {e.connecting[2]}) \ {Nil} \subseteq Roots
    BY <2>1 DEF Roots, OnStack
  <2>4. Nil \notin alive
    BY <1>1
  <2>5. Range(e.due) \subseteq M
    BY <1>3, <2>2, <2>3, <2>4 DEF EmissionLives
  <2>6. e.connecting # NotConnecting => e.connecting[2] \in M
    BY <1>3, <2>2, <2>3, <2>4 DEF EmissionLives
  <2>7. e.self # Nil => e.self \in M
    BY <1>3, <2>3
  <2> QED BY <2>1, <2>5, <2>6, <2>7 DEF EmissionLives
<1>7. TablesLive(count', alive')
  <2>1. ASSUME NEW w \in (M \cap Obj) \cup {Class}, NEW v \in Value, count'[w][v] > 0 PROVE v \in M
    <3>1. w \notin Obj \ M /\ w \in Owner
      BY ValueKinds
    <3>2. count[w][v] > 0
      BY <1>4, <2>1, <3>1
    <3>3. CASE w = Class
      <4>1. v \in Roots
        BY <1>1, <3>2, <3>3 DEF Roots
      <4> QED BY <1>3, <4>1
    <3>4. CASE w \in M \cap Obj
      BY <1>3, <3>2, <3>4
    <3> QED BY <3>3, <3>4
  <2>2. \A o \in Obj \ M, v \in Value : count'[o][v] = 0
    BY <1>4, ValueKinds
  <2> QED BY <1>4, <2>1, <2>2 DEF TablesLive
<1>8. held' \subseteq alive' /\ (\A e \in Range(emissions') : EmissionLives(e, alive')) /\ TablesLive(count', alive')
  BY <1>5, <1>6, <1>7
<1> QED BY <1>8 DEF LivingInv, EmissionLives, TablesLive

\* The table of what lives may get references to what lives, and any table may lose some.
LEMMA ReferenceLives ==
    ASSUME NEW n \in Counts, NEW A, TablesLive(n, A), NEW w \in (A \cap Obj) \cup {Class}, NEW v \in A, v \in Value
    PROVE  TablesLive(IncRef(n, w, v), A)
<1>1. w \in Owner
  BY ValueKinds
<1>2. \A u \in Owner, x \in Value :
         IncRef(n, w, v)[u][x] = IF u = w /\ x = v THEN n[u][x] + 1 ELSE n[u][x]
  BY <1>1, IncRefFacts
<1> QED BY <1>1, <1>2, ValueKinds DEF TablesLive

LEMMA FewerLive ==
    ASSUME NEW n \in Counts, NEW A, TablesLive(n, A), NEW w \in Owner, NEW v \in Value
    PROVE  TablesLive(DecRef(n, w, v), A)
<1>1. \A u \in Owner, x \in Value :
         DecRef(n, w, v)[u][x] = IF u = w /\ x = v THEN IF n[u][x] > 0 THEN n[u][x] - 1 ELSE 0 ELSE n[u][x]
  BY DecRefFacts
<1>2. \A u \in Owner, x \in Value : n[u][x] \in Nat
  BY DEF Counts
<1>3. \A u \in Owner, x \in Value :
         (DecRef(n, w, v)[u][x] > 0 => n[u][x] > 0) /\ (n[u][x] = 0 => DecRef(n, w, v)[u][x] = 0)
  BY <1>1, <1>2
<1> QED BY <1>3, ValueKinds DEF TablesLive

\* More may live as long as nothing that begins to live has references yet.
LEMMA MoreLive ==
    ASSUME NEW n \in Counts, NEW A, TablesLive(n, A), NEW x
    PROVE  TablesLive(n, A \cup {x})
<1>1. ASSUME NEW w \in ((A \cup {x}) \cap Obj) \cup {Class}, NEW v \in Value, n[w][v] > 0 PROVE v \in A \cup {x}
  <2>1. CASE w \in (A \cap Obj) \cup {Class}
    BY <1>1, <2>1 DEF TablesLive
  <2>2. CASE w \in Obj \ A
    <3>1. n[w][v] = 0
      BY <2>2 DEF TablesLive
    <3> QED BY <1>1, <3>1
  <2> QED BY <2>1, <2>2
<1>2. \A o \in Obj \ (A \cup {x}), v \in Value : n[o][v] = 0
  BY DEF TablesLive
<1> QED BY <1>1, <1>2 DEF TablesLive

\* An emission that begins with functions of a table that lives.
LEMMA BegunLives ==
    ASSUME NEW n \in Counts, NEW A, TablesLive(n, A), NEW w \in (A \cap Obj) \cup {Class}, NEW e,
           \A v \in Range(e.due) : v \in Func /\ n[w][v] > 0
    PROVE  Range(e.due) \subseteq A
  BY ValueKinds DEF TablesLive

LEMMA NextLives ==
    ASSUME ObjectsTypeInv, CountsInv, LivingInv, [ObjectsNext]_objectsVars PROVE LivingInv'
<1>1. /\ alive \subseteq Value /\ held \subseteq alive
      /\ \A e \in Range(emissions) : EmissionLives(e, alive)
      /\ TablesLive(count, alive) /\ emissions \in Seq(EmissionRecord) /\ count \in Counts
      /\ items \in [Obj -> Seq(Obj)]
  BY LivingInvIs, TypeGives DEF ObjectsTypeInv
<1> DEFINE Lives == /\ held' \subseteq alive'
                    /\ \A e \in Range(emissions') : EmissionLives(e, alive')
                    /\ TablesLive(count', alive')
<1>2. Lives => LivingInv'
  BY DEF LivingInv, EmissionLives, TablesLive
<1>3. ASSUME Call PROVE Lives
  <2>1. PICK e \in EmissionRecord :
           /\ emissions' = [emissions EXCEPT ![1] = e]
           /\ e.self = Head(emissions).self /\ e.connecting = Head(emissions).connecting
           /\ Range(e.due) \subseteq Range(Head(emissions).due)
           /\ Head(Head(emissions).due) \in Range(Head(emissions).due)
    BY <1>3, CallChanges
  <2>2. emissions # <<>> /\ UNCHANGED <<alive, count>>
    BY <1>3 DEF Call
  <2>3. /\ \A y \in Range(emissions') : y = e \/ y \in Range(emissions)
        /\ Head(emissions) \in Range(emissions)
    BY <1>1, <2>1, <2>2, FirstChanged
  <2>4. EmissionLives(Head(emissions), alive)
    BY <1>1, <2>3
  <2>5. EmissionLives(e, alive)
    BY <2>1, <2>4 DEF EmissionLives
  <2>6. \A k \in SUBSET ({Head(emissions).self, Head(Head(emissions).due)} \ {Nil}) : k \subseteq alive
    BY <2>1, <2>4 DEF EmissionLives
  <2>7. held' \subseteq alive
    BY <1>1, <1>3, <2>6 DEF Call
  <2> QED BY <1>1, <2>2, <2>3, <2>5, <2>7
<1>4. ASSUME ClassFollows PROVE Lives
  <2>1. PICK e \in EmissionRecord :
           /\ emissions' = [emissions EXCEPT ![1] = e]
           /\ e.self = Head(emissions).self /\ e.connecting = Head(emissions).connecting
           /\ \A v \in Range(e.due) : v \in Func /\ count[Class][v] > 0
    BY <1>4, ClassFollowsChanges
  <2>2. emissions # <<>> /\ UNCHANGED <<alive, held, count>>
    BY <1>4 DEF ClassFollows
  <2>3. /\ \A y \in Range(emissions') : y = e \/ y \in Range(emissions)
        /\ Head(emissions) \in Range(emissions)
    BY <1>1, <2>1, <2>2, FirstChanged
  <2>4. EmissionLives(Head(emissions), alive)
    BY <1>1, <2>3
  <2>5. Range(e.due) \subseteq alive
    BY <1>1, <2>1, BegunLives
  <2>6. EmissionLives(e, alive)
    BY <2>1, <2>4, <2>5 DEF EmissionLives
  <2> QED BY <1>1, <2>2, <2>3, <2>6
<1>5. ASSUME Return PROVE Lives
  <2>1. /\ Range(emissions') \subseteq Range(emissions)
        /\ Head(emissions) \in EmissionRecord /\ Head(emissions) \in Range(emissions)
    BY <1>5, ReturnFacts
  <2>2. UNCHANGED <<alive, held>>
    BY <1>5 DEF Return
  <2>3. TablesLive(count', alive)
    <3>1. PICK c : c = Head(emissions).connecting
      OBVIOUS
    <3>2. CASE c = NotConnecting
      BY <1>1, <1>5, <3>1, <3>2 DEF Return
    <3>3. CASE c # NotConnecting
      <4>1. c \in Signal \X Func
        BY <2>1, <3>1, <3>3 DEF EmissionRecord
      <4>2. count' = IncRef(count, Class, c[2])
        BY <1>5, <3>1, <3>3 DEF Return
      <4>3. c[2] \in alive /\ c[2] \in Value
        BY <1>1, <2>1, <3>1, <3>3 DEF EmissionLives
      <4> QED BY <1>1, <4>2, <4>3, ReferenceLives
    <3> QED BY <3>2, <3>3
  <2> QED BY <1>1, <2>1, <2>2, <2>3
<1>6. ASSUME NEW o \in Obj, NewObject(o) PROVE Lives
  <2>1. PICK e : EmissionFrom(e, Class) /\ e.self = o /\ Begin(e)
    BY <1>6, NewObjectBegins
  <2>2. alive' = alive \cup {o} /\ held' = held \cup {o} /\ UNCHANGED count
    BY <1>6 DEF NewObject
  <2>3. \A x \in Range(emissions') : x = e \/ x \in Range(emissions)
    BY <1>1, <2>1, BeginFacts DEF EmissionFrom
  <2>4. Range(e.due) \subseteq alive
    BY <1>1, <2>1, BegunLives DEF EmissionFrom
  <2>5. EmissionLives(e, alive')
    BY <2>1, <2>2, <2>4 DEF EmissionLives, EmissionFrom
  <2>6. \A x \in Range(emissions) : EmissionLives(x, alive')
    BY <1>1, <2>2 DEF EmissionLives
  <2>7. TablesLive(count', alive')
    BY <1>1, <2>2, MoreLive
  <2> QED BY <1>1, <2>2, <2>3, <2>5, <2>6, <2>7
<1>7. ASSUME NEW o \in Obj, Manage(o) \/ Unmanage(o) PROVE Lives
  <2>1. UNCHANGED <<alive, held, emissions>>
    BY <1>7 DEF Manage, Unmanage
  <2>2. CASE Manage(o)
    <3>1. count' = IncRef(count, Class, o) /\ o \in alive /\ o \in Value
      BY <1>1, <2>2, ValueKinds DEF Manage
    <3>2. TablesLive(count', alive)
      BY <1>1, <3>1, ReferenceLives
    <3> QED BY <1>1, <2>1, <3>2
  <2>3. CASE Unmanage(o)
    <3>1. count' = DecRef(count, Class, o)
      BY <2>3 DEF Unmanage
    <3>2. TablesLive(count', alive)
      BY <1>1, <3>1, FewerLive, ValueKinds
    <3> QED BY <1>1, <2>1, <3>2
  <2> QED BY <1>7, <2>2, <2>3
<1>8. ASSUME NEW o \in Obj, GetItems(o) PROVE Lives
  <2>1. ASSUME NEW v \in Range(items[o]) PROVE v \in alive
    <3>1. items[o] \in Seq(Obj)
      BY <1>1
    <3>2. PICK i \in DOMAIN items[o] : items[o][i] = v
      BY DEF Range
    <3>3. v \in Obj /\ v \in Value
      BY <3>1, <3>2, ValueKinds
    <3>4. Times(items[o], v) \in Nat /\ Times(items[o], v) >= 1
      BY <3>1, <3>2, TimesFacts
    <3>5. Times(items[o], v) <= count[o][v]
      BY <3>3 DEF CountsInv
    <3>6. count[o][v] > 0
      <4>1. count[o][v] \in Nat
        BY <1>1, <3>3, ValueKinds DEF Counts
      <4> QED BY <3>4, <3>5, <4>1
    <3>7. o \in alive
      BY <1>8 DEF GetItems, Usable
    <3> QED BY <1>1, <3>3, <3>6, <3>7 DEF TablesLive
  <2>2. held' = held \cup Range(items[o]) /\ UNCHANGED <<alive, count, emissions>>
    BY <1>8 DEF GetItems
  <2> QED BY <1>1, <2>1, <2>2
<1>9. ASSUME NEW f \in Func, NewFunction(f) PROVE Lives
  <2>1. alive' = alive \cup {f} /\ held' = held \cup {f} /\ UNCHANGED <<count, emissions>>
    BY <1>9 DEF NewFunction
  <2>2. \A x \in Range(emissions) : EmissionLives(x, alive')
    BY <1>1, <2>1 DEF EmissionLives
  <2>3. TablesLive(count', alive')
    BY <1>1, <2>1, MoreLive
  <2> QED BY <1>1, <2>1, <2>2, <2>3
<1>10. ASSUME NEW v \in Value, Drop(v) PROVE Lives
  BY <1>1, <1>10 DEF Drop
<1>11. ASSUME NEW o \in Obj, NEW s \in Signal, NEW f \in Func, Connect(o, s, f) PROVE Lives
  <2>1. count' = IncRef(count, o, f) /\ o \in alive /\ f \in alive /\ f \in Value
    BY <1>1, <1>11 DEF Connect
  <2>2. TablesLive(count', alive)
    BY <1>1, <2>1, ReferenceLives
  <2>3. UNCHANGED <<alive, held, emissions>>
    BY <1>11 DEF Connect
  <2> QED BY <1>1, <2>2, <2>3
<1>12. ASSUME NEW w \in Owner, NEW s \in Signal, NEW f \in Func, Disconnect(w, s, f) PROVE Lives
  <2>1. count' = count \/ count' = DecRef(count, w, f)
    BY <1>12 DEF Disconnect, Disconnected
  <2>2. TablesLive(count', alive)
    BY <1>1, <2>1, FewerLive, ValueKinds
  <2>3. UNCHANGED <<alive, held, emissions>>
    BY <1>12 DEF Disconnect
  <2> QED BY <1>1, <2>2, <2>3
<1>13. ASSUME NEW s \in Signal, NEW f \in Func, ConnectClass(s, f) PROVE Lives
  <2>1. UNCHANGED <<alive, held>> /\ f \in alive /\ f \in Value
    BY <1>1, <1>13 DEF ConnectClass
  <2>2. CASE /\ count' = IncRef(count, Class, f)
             /\ UNCHANGED emissions
    <3>1. TablesLive(count', alive)
      BY <1>1, <2>1, <2>2, ReferenceLives
    <3> QED BY <1>1, <2>1, <2>2, <3>1
  <2>3. ASSUME NEW e \in EmissionRecord, \A v \in Range(e.due) : v \in Func /\ count[Class][v] > 0,
               e.self = Nil, e.connecting = <<s, f>>, Begin(e), UNCHANGED count
        PROVE  Lives
    <3>1. \A x \in Range(emissions') : x = e \/ x \in Range(emissions)
      BY <1>1, <2>3, BeginFacts
    <3>2. Range(e.due) \subseteq alive
      BY <1>1, <2>3, BegunLives
    <3>3. EmissionLives(e, alive)
      BY <2>1, <2>3, <3>2 DEF EmissionLives
    <3> QED BY <1>1, <2>1, <2>3, <3>1, <3>3
  <2> QED BY <1>13, <2>2, <2>3, ConnectClassDoes
<1>14. ASSUME NEW o \in Obj, NEW s \in Signal, Emit(o, s) PROVE Lives
  <2>1. PICK e : EmissionFrom(e, o) /\ e.self = o /\ Begin(e)
    BY <1>14, EmitBegins
  <2>2. o \in alive /\ UNCHANGED <<alive, held, count>>
    BY <1>14 DEF Emit, Usable
  <2>3. \A x \in Range(emissions') : x = e \/ x \in Range(emissions)
    BY <1>1, <2>1, BeginFacts DEF EmissionFrom
  <2>4. Range(e.due) \subseteq alive
    BY <1>1, <2>1, <2>2, BegunLives DEF EmissionFrom
  <2>5. EmissionLives(e, alive)
    BY <2>1, <2>2, <2>4 DEF EmissionLives, EmissionFrom
  <2> QED BY <1>1, <2>2, <2>3, <2>5
<1>15. ASSUME NEW s \in Signal, EmitOnClass(s) PROVE Lives
  <2>1. PICK e : EmissionFrom(e, Class) /\ e.self = Nil /\ Begin(e)
    BY <1>15, EmitOnClassBegins
  <2>2. UNCHANGED <<alive, held, count>>
    BY <1>15 DEF EmitOnClass
  <2>3. \A x \in Range(emissions') : x = e \/ x \in Range(emissions)
    BY <1>1, <2>1, BeginFacts DEF EmissionFrom
  <2>4. Range(e.due) \subseteq alive
    BY <1>1, <2>1, BegunLives DEF EmissionFrom
  <2>5. EmissionLives(e, alive)
    BY <2>1, <2>4 DEF EmissionLives, EmissionFrom
  <2> QED BY <1>1, <2>2, <2>3, <2>5
<1>16. ASSUME NEW o \in Obj, NEW new \in ItemLists, SetItems(o, new) PROVE Lives
  <2>1. new \in Seq(Obj) /\ Range(new) \subseteq alive /\ o \in alive /\ count' = ItemsReplaced(o, new)
    BY <1>1, <1>16, ItemListsTyped DEF SetItems
  <2>2. /\ count' \in Counts
        /\ \A u \in Owner, x \in Value : u # o => count'[u][x] = count[u][x]
        /\ \A x \in Value : count'[o][x] <= count[o][x] + Times(new, x)
    BY <1>1, <2>1, ReplacedFacts
  <2>3. ASSUME NEW x \in Value, count'[o][x] > 0 PROVE x \in alive
    <3>1. CASE Times(new, x) > 0
      BY <2>1, <3>1, TimesFacts
    <3>2. CASE ~(Times(new, x) > 0)
      <4>1. Times(new, x) \in Nat /\ count'[o][x] \in Nat /\ count[o][x] \in Nat
        BY <1>1, <2>1, <2>2, TimesFacts, ValueKinds DEF Counts
      <4>2. count'[o][x] <= count[o][x] + Times(new, x)
        BY <2>2
      <4>3. count[o][x] > 0
        BY <2>3, <3>2, <4>1, <4>2
      <4> QED BY <1>1, <2>1, <4>3 DEF TablesLive
    <3> QED BY <3>1, <3>2
  <2>4. TablesLive(count', alive)
    <3>1. ASSUME NEW w \in (alive \cap Obj) \cup {Class}, NEW v \in Value, count'[w][v] > 0 PROVE v \in alive
      <4>1. CASE w = o
        BY <2>3, <3>1, <4>1
      <4>2. CASE w # o
        <5>1. count[w][v] > 0
          BY <2>2, <3>1, <4>2, ValueKinds
        <5> QED BY <1>1, <5>1 DEF TablesLive
      <4> QED BY <4>1, <4>2
    <3>2. ASSUME NEW u \in Obj \ alive, NEW v \in Value PROVE count'[u][v] = 0
      <4>1. count'[u][v] = count[u][v]
        BY <2>1, <2>2, ValueKinds
      <4> QED BY <1>1, <4>1 DEF TablesLive
    <3> QED BY <3>1, <3>2 DEF TablesLive
  <2>5. UNCHANGED <<alive, held, emissions>>
    BY <1>16 DEF SetItems
  <2> QED BY <1>1, <2>4, <2>5
<1>17. ASSUME UNCHANGED objectsVars PROVE Lives
  BY <1>1, <1>17 DEF objectsVars
<1> HIDE DEF Lives
<1> QED
  BY <1>2, <1>3, <1>4, <1>5, <1>6, <1>7, <1>8, <1>9, <1>10, <1>11, <1>12, <1>13, <1>14, <1>15, <1>16,
     <1>17, CollectLives DEF ObjectsNext

-----------------------------------------------------------------------------
LEMMA InitObjects == ObjectsInit => ObjectsIInv
<1> SUFFICES ASSUME ObjectsInit PROVE ObjectsIInv
  OBVIOUS
<1>1. /\ alive = {} /\ checked = {} /\ held = {} /\ managed = {}
      /\ count = [w \in Owner |-> [v \in Value |-> 0]]
      /\ handlers = [w \in Owner |-> NoHandlers] /\ items = [o \in Obj |-> <<>>]
      /\ emissions = <<>> /\ objectCalls = 0
  BY DEF ObjectsInit
<1>2. NoHandlers \in [Signal -> Seq(Func)] /\ <<>> \in Seq(Obj) /\ <<>> \in Seq(EmissionRecord)
  BY DEF NoHandlers
<1>3. count \in [Owner -> [Value -> Nat]]
  BY <1>1
<1>4. ObjectsTypeInv
  BY <1>1, <1>2, <1>3, ObjectsAssumption DEF ObjectsTypeInv
<1>5. CountsInv
  <2>1. ASSUME NEW w \in Owner, NEW f \in Func PROVE HandlerPlaces(handlers, w, f) = {}
    <3>1. \A s \in Signal : DOMAIN handlers[w][s] = {}
      BY <1>1 DEF NoHandlers
    <3> QED BY <3>1 DEF HandlerPlaces
  <2>2. \A w \in Owner, v \in Value : count[w][v] = 0
    BY <1>1
  <2>3. ASSUME NEW o \in Obj, NEW i \in Obj PROVE Times(items[o], i) = 0
    <3>1. {j \in DOMAIN items[o] : items[o][j] = i} = {}
      BY <1>1
    <3> QED BY <3>1, FS_EmptySet DEF Times
  <2>4. \A w \in Owner, f \in Func : /\ IsFiniteSet(HandlerPlaces(handlers, w, f))
                                     /\ Cardinality(HandlerPlaces(handlers, w, f)) <= count[w][f]
    BY <2>1, <2>2, FS_EmptySet, ValueKinds
  <2>5. \A o, i \in Obj : Times(items[o], i) <= count[o][i]
    BY <2>2, <2>3, ValueKinds
  <2> QED BY <1>1, <2>4, <2>5 DEF CountsInv
<1>6. LivingInv
  BY <1>1, ValueKinds DEF LivingInv, Range
<1> QED BY <1>4, <1>5, <1>6 DEF ObjectsIInv

LEMMA NextObjects == ObjectsIInv /\ [ObjectsNext]_objectsVars => ObjectsIInv'
  BY NextTyped, NextCounts, NextLives DEF ObjectsIInv

LEMMA ObjectsInvFollows == ObjectsIInv => ObjectsInv
<1> SUFFICES ASSUME ObjectsIInv PROVE ObjectsInv
  OBVIOUS
<1>1. /\ ObjectsTypeInv /\ CountsInv /\ LivingInv
      /\ count \in Counts /\ handlers \in Handlers /\ HandlersCounted(count, handlers)
      /\ emissions \in Seq(EmissionRecord)
      /\ \A e \in Range(emissions) : EmissionLives(e, alive)
      /\ TablesLive(count, alive) /\ ManagedCounted(count, managed) /\ items \in [Obj -> Seq(Obj)]
      /\ managed \subseteq Obj
  BY TypeGives, CountsInvIs, LivingInvIs DEF ObjectsIInv
<1>2. ASSUME NEW w \in Owner, NEW s \in Signal, NEW f \in Range(handlers[w][s])
      PROVE  f \in Func /\ count[w][f] > 0
  BY <1>1, PushedIs
<1>3. ASSUME NEW o \in Obj, NEW i \in Range(items[o]) PROVE i \in Obj /\ count[o][i] > 0
  <2>1. items[o] \in Seq(Obj)
    BY <1>1
  <2>2. PICK j \in DOMAIN items[o] : items[o][j] = i
    BY DEF Range
  <2>3. i \in Obj
    BY <2>1, <2>2
  <2>4. Times(items[o], i) \in Nat /\ Times(items[o], i) >= 1
    BY <2>1, <2>2, TimesFacts
  <2>5. Times(items[o], i) <= count[o][i] /\ count[o][i] \in Nat
    BY <1>1, <2>3, ValueKinds DEF CountsInv, Counts
  <2> QED BY <2>3, <2>4, <2>5
<1>4. ASSUME NEW i \in DOMAIN emissions
      PROVE  /\ emissions[i].self \in Obj \cup {Nil}
             /\ Range(emissions[i].due) \subseteq Func /\ Range(emissions[i].due) \subseteq alive
  <2>1. PICK e : e = emissions[i]
    OBVIOUS
  <2>2. e \in EmissionRecord /\ EmissionLives(e, alive)
    <3>1. e \in EmissionRecord
      BY <1>1, <2>1
    <3>2. e \in Range(emissions)
      BY <2>1 DEF Range
    <3> QED BY <1>1, <3>1, <3>2
  <2>3. e.self \in Obj \cup {Nil} /\ e.due \in Seq(Func) /\ Range(e.due) \subseteq alive
    BY <2>2 DEF EmissionRecord, EmissionLives
  <2>4. \A j \in DOMAIN e.due : e.due[j] \in Func
    BY <2>3
  <2>5. Range(e.due) \subseteq Func
    BY <2>4 DEF Range
  <2> QED BY <2>1, <2>3, <2>5
<1>5. ObjectsTypeOK
  <2>1. /\ alive \subseteq Value /\ checked \subseteq Obj /\ held \subseteq Value
        /\ count \in [Owner -> [Value -> Nat]] /\ managed \subseteq Obj /\ objectCalls \in 0..MaxObjectCalls
        /\ DOMAIN handlers = Owner
    <3>1. /\ alive \subseteq Value /\ checked \subseteq Obj /\ held \subseteq Value
          /\ count \in [Owner -> [Value -> Nat]] /\ managed \subseteq Obj
          /\ objectCalls \in 0..MaxObjectCalls
      BY <1>1 DEF ObjectsTypeInv
    <3>2. DOMAIN handlers = Owner
      BY <1>1 DEF Handlers
    <3> QED BY <3>1, <3>2
  <2>2. \A w \in Owner, s \in Signal : Range(handlers[w][s]) \subseteq Func
    BY <1>2
  <2>3. \A o \in Obj : Range(items[o]) \subseteq Obj
    BY <1>3
  <2>4. \A i \in DOMAIN emissions : /\ emissions[i].self \in Obj \cup {Nil}
                                    /\ Range(emissions[i].due) \subseteq Func \cup {Nil}
    BY <1>4
  <2> QED BY <2>1, <2>2, <2>3, <2>4 DEF ObjectsTypeOK
<1>6. PointersAreAlive
  <2>1. ASSUME NEW w \in (alive \cap Obj) \cup {Class}, NEW p \in PointersOf(w) PROVE p \in alive
    <3>1. w \in Owner
      BY ValueKinds
    <3>2. CASE \E s \in Signal : p \in Range(handlers[w][s])
      <4>1. p \in Value /\ count[w][p] > 0
        BY <1>2, <3>1, <3>2, ValueKinds
      <4> QED BY <1>1, <4>1 DEF TablesLive
    <3>3. CASE w = Class /\ p \in managed
      <4>1. p \in Value /\ count[Class][p] > 0
        BY <1>1, <3>3, ValueKinds DEF ManagedCounted
      <4> QED BY <1>1, <3>3, <4>1 DEF TablesLive
    <3>4. CASE w # Class /\ p \in Range(items[w])
      <4>1. w \in Obj /\ p \in Value /\ count[w][p] > 0
        BY <1>3, <3>4, ValueKinds
      <4> QED BY <1>1, <4>1 DEF TablesLive
    <3>5. \/ \E s \in Signal : p \in Range(handlers[w][s])
          \/ p \in IF w = Class THEN managed ELSE Range(items[w])
      <4>1. p \in (UNION {Range(handlers[w][s]) : s \in Signal})
                    \cup (IF w = Class THEN managed ELSE Range(items[w]))
        BY DEF PointersOf
      <4> QED BY ONLY <4>1
    <3> QED BY <3>2, <3>3, <3>4, <3>5
  <2> QED BY <1>4, <2>1 DEF PointersAreAlive
<1> QED BY <1>5, <1>6 DEF ObjectsInv

(***************************************************************************)
(* No pointer of C to a Lua value dangles and no emission calls nil,       *)
(* whatever handlers do while they run and whenever Lua collects           *)
(* (luaobject.c, luaclass.c, signal.h).                                    *)
(***************************************************************************)
THEOREM PointersStayAlive == ObjectsSpec => []ObjectsInv
<1>1. ObjectsIInv /\ [ObjectsNext]_objectsVars => ObjectsIInv'
  BY NextObjects
<1> QED BY <1>1, InitObjects, ObjectsInvFollows, PTL DEF ObjectsSpec
=============================================================================

------------------------------- MODULE Layers -------------------------------
(***************************************************************************)
(* The setters of a client's special layers, client_set_below and so on,   *)
(* one call at a time.  Stacking takes such a call to be one step; here    *)
(* the signals are seen that it emits on its way, and the signal handlers, *)
(* which are Lua code that may call the setters again, for the same        *)
(* client, before the first call is done.                                  *)
(***************************************************************************)
EXTENDS Naturals, SequencesExt

CONSTANT MaxDepth \* bound: the setters that are running at the same time

Flags == {"fullscreen", "above", "below", "ontop"}

ASSUME LayersAssumption == MaxDepth \in Nat \ {0}

VARIABLES layers,  \* the flags that are set
          calls,   \* the setters that are running, the outermost one first
          restack, \* need_stack_refresh
          stacked, \* history: the flags when the windows were stacked last
          crossed  \* history: a handler has set a flag that a setter around it had cleared already

layersVars == <<layers, calls, restack, stacked, crossed>>

\* A call of client_set_<flag>: the flags it has to clear still, then the
\* assignment, then the signals.
Frame == [flag : Flags, value : BOOLEAN, clear : Seq(Flags), at : {"clear", "signals"}]

LayersTypeOK == /\ layers \subseteq Flags /\ stacked \subseteq Flags
                /\ calls \in Seq(Frame)
                /\ \A i \in DOMAIN calls : calls[i].at = "signals" \/ ~calls[i].value => calls[i].clear = <<>>
                /\ restack \in BOOLEAN /\ crossed \in BOOLEAN

LayersInit == /\ layers = {} /\ stacked = {}
              /\ calls = <<>>
              /\ restack = FALSE /\ crossed = FALSE

-----------------------------------------------------------------------------

\* The others, in the order of the code.
Others == [fullscreen |-> <<"below", "above", "ontop">>, above |-> <<"below", "ontop", "fullscreen">>,
           below |-> <<"above", "ontop", "fullscreen">>, ontop |-> <<"above", "below", "fullscreen">>]

Top == calls[Len(calls)]
WithTop(frame) == [calls EXCEPT ![Len(calls)] = frame]

\* A call is running once its test of the flag has found a difference.
Enter(frames, flag, value) ==
    IF (flag \in layers) = value THEN frames
    ELSE Append(frames, [flag |-> flag, value |-> value,
                         clear |-> IF value THEN Others[flag] ELSE <<>>, at |-> "clear"])

AtMostOne(flags) == \A f, g \in flags : f = g

\* A call that sets its flag is clearing the others still, and one that has cleared this one.
Setting(frame) == frame.value /\ frame.at = "clear"
ClearedAlready(frame, flag) == Setting(frame) /\ flag # frame.flag /\ flag \notin Range(frame.clear)

\* Lua code: a key binding, or a handler of the signals of the innermost call.
Call(flag, value) ==
    /\ \/ calls = <<>> /\ crossed' = (crossed /\ ~AtMostOne(layers))
       \/ /\ calls # <<>> /\ Top.at = "signals" /\ Len(calls) < MaxDepth
          /\ crossed' = (crossed \/ (value /\ \E i \in DOMAIN calls : ClearedAlready(calls[i], flag)))
    /\ (flag \in layers) # value
    /\ calls' = Enter(calls, flag, value)
    /\ UNCHANGED <<layers, restack, stacked>>

\* The call of a setter with the value false.
ClearNext ==
    /\ calls # <<>> /\ Top.at = "clear" /\ Top.clear # <<>>
    /\ calls' = Enter(WithTop([Top EXCEPT !.clear = Tail(@)]), Head(Top.clear), FALSE)
    /\ UNCHANGED <<layers, restack, stacked, crossed>>

\* As Assign, with the other flags still set.
AssignAtOnce ==
    /\ calls # <<>> /\ Top.at = "clear"
    /\ layers' = IF Top.value THEN layers \cup {Top.flag} ELSE layers \ {Top.flag}
    /\ restack' = (restack \/ Top.flag # "fullscreen")
    /\ calls' = WithTop([Top EXCEPT !.at = "signals"])
    /\ UNCHANGED <<stacked, crossed>>

\* The flag is set or reset.  client_set_fullscreen calls stack_windows only after
\* its signals.
Assign ==
    /\ calls # <<>> /\ Top.at = "clear" /\ Top.clear = <<>>
    /\ layers' = IF Top.value THEN layers \cup {Top.flag} ELSE layers \ {Top.flag}
    /\ restack' = (restack \/ Top.flag # "fullscreen")
    /\ calls' = WithTop([Top EXCEPT !.at = "signals"])
    /\ UNCHANGED <<stacked, crossed>>

\* As Return, with client_set_fullscreen not calling stack_windows.
ReturnUnstacked ==
    /\ calls # <<>> /\ Top.at = "signals"
    /\ calls' = SubSeq(calls, 1, Len(calls) - 1)
    /\ UNCHANGED <<layers, stacked, restack, crossed>>

\* The handlers are done, and the setter returns.
Return ==
    /\ calls # <<>> /\ Top.at = "signals"
    /\ calls' = SubSeq(calls, 1, Len(calls) - 1)
    /\ restack' = (restack \/ Top.flag = "fullscreen")
    /\ UNCHANGED <<layers, stacked, crossed>>

\* stack_refresh, in the main loop.
StackRefresh ==
    /\ calls = <<>> /\ restack
    /\ stacked' = layers
    /\ restack' = FALSE
    /\ UNCHANGED <<layers, calls, crossed>>

LayersNext == \/ \E flag \in Flags, value \in BOOLEAN : Call(flag, value)
              \/ ClearNext \/ Assign \/ Return \/ StackRefresh

LayersSpec == LayersInit /\ [][LayersNext]_layersVars

-----------------------------------------------------------------------------
(* Properties.                                                             *)

\* The comment of the setters, client.c:2738, says: "You can only be part of one of the special
\* layers."  The code does not keep it for all handlers.  What it keeps, at rest and for
\* whoever looks in between: two layers are set only if a handler of the signals of clearing
\* has set a flag that the setter around it had cleared by then.  The next call that finds at
\* most one of them set starts afresh.
OneLayerUnlessCrossed == ~crossed => AtMostOne(layers)

\* When all calls are done, a change of the layer has been seen by the stacking
\* or is going to be.
LayerChangesRestack == calls = <<>> /\ layers # stacked => restack

=============================================================================

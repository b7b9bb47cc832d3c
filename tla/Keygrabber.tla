------------------------------- MODULE Keygrabber -------------------------------
(***************************************************************************)
(* Keys that are pressed (event.c) and the keygrabber (keygrabber.c).  A   *)
(* key goes to the function that the keygrabber runs, or else to the       *)
(* bindings of the root window that match.  Keys are typed while others    *)
(* are waiting to be handled, and the functions and bindings that hear     *)
(* them start and stop keygrabbers and change the bindings.  The server    *)
(* gives the keyboard to one program at a time.                            *)
(***************************************************************************)
EXTENDS Integers, SequencesExt

CONSTANTS Callback,     \* functions for keygrabber.run
          Typed,        \* keys
          KeyBinding,   \* bindings
          KeyOf,        \* the keys that a binding is for
          KeyLists,     \* what Lua code sets root.keys() to: sequences of bindings
          MaxTyped, MaxKeygrabs, \* bounds: keys; changes by Lua code and by other programs
          NoCallback, NoEvent

ASSUME KeygrabberAssumption ==
    KeyOf \in [KeyBinding -> SUBSET Typed] /\ <<>> \in KeyLists /\ KeyLists \subseteq Seq(KeyBinding)
ASSUME NoCallbackAssumption == NoCallback \notin Callback

VARIABLES keygrabber,     \* globalconf.keygrabber
          keyboardGrab,   \* the server: who has grabbed the keyboard
          typed,          \* keys to be handled
          rootKeys,       \* globalconf.keys
          event,          \* the key being handled: who is called, the bindings on Lua's stack
          hearers,        \* history: who has heard the event so far
          denied,         \* history: the grab of this keygrabber was denied
          failed,         \* history: callbacks that have raised an error since they were started
          typedSoFar, keygrabs

keygrabberVars == <<keygrabber, keyboardGrab, typed, rootKeys, event, hearers, denied, failed,
                    typedSoFar, keygrabs>>

KeygrabberTypeOK ==
    /\ keygrabber \in Callback \cup {NoCallback} /\ keyboardGrab \in {"nobody", "awesome", "other"}
    /\ typed \in Seq(Typed) /\ rootKeys \in KeyLists /\ denied \in BOOLEAN
    /\ failed \subseteq Callback /\ hearers \in Seq(KeyBinding)
    /\ event # NoEvent => /\ event.callback \in Callback \cup {NoCallback}
                          /\ event.stack \in Seq(KeyBinding)

-----------------------------------------------------------------------------
(* The server.                                                             *)

Step == keygrabs < MaxKeygrabs /\ keygrabs' = keygrabs + 1

\* The bindings' keys are grabbed on the root window; the others are for applications.
ForAwesome(k) == \/ keyboardGrab = "awesome"
                 \/ keyboardGrab = "nobody" /\ \E i \in DOMAIN rootKeys : k \in KeyOf[rootKeys[i]]
Type(k) ==
    /\ typedSoFar < MaxTyped /\ typedSoFar' = typedSoFar + 1
    /\ ForAwesome(k) /\ typed' = Append(typed, k)
    /\ UNCHANGED <<keygrabber, keyboardGrab, rootKeys, event, hearers, denied, failed, keygrabs>>

OtherGrabsKeyboard ==
    /\ Step
    /\ \/ keyboardGrab = "nobody" /\ keyboardGrab' = "other"
       \/ keyboardGrab = "other" /\ keyboardGrab' = "nobody"
    /\ UNCHANGED <<keygrabber, typed, rootKeys, event, hearers, denied, failed, typedSoFar>>

-----------------------------------------------------------------------------
(* Handling a key.                                                         *)

\* event_key_match walks through the bindings as they are when the event is handled; pushed[n]
\* is what the first n of them leave on Lua's stack.
Matching(k) ==
    LET pushed[n \in 0..Len(rootKeys)] ==
            IF n = 0 THEN <<>>
            ELSE IF k \in KeyOf[rootKeys[n]] THEN Append(pushed[n - 1], rootKeys[n]) ELSE pushed[n - 1]
    IN  pushed[Len(rootKeys)]

\* event_handle_key: the function of the keygrabber, or else the matching bindings, all of
\* which are pushed on Lua's stack before any of them is called.
Begin ==
    /\ event = NoEvent /\ typed # <<>> /\ typed' = Tail(typed)
    /\ event' = IF keygrabber # NoCallback THEN [callback |-> keygrabber, stack |-> <<>>, all |-> <<>>]
                ELSE [callback |-> NoCallback, stack |-> Matching(Head(typed)), all |-> Matching(Head(typed))]
    /\ hearers' = <<>>
    /\ UNCHANGED <<keygrabber, keyboardGrab, rootKeys, denied, failed, typedSoFar, keygrabs>>

\* event_key_callback: the one on top of the stack is called.
CallNext ==
    /\ event # NoEvent /\ event.stack # <<>>
    /\ hearers' = Append(hearers, Last(event.stack))
    /\ event' = [event EXCEPT !.stack = Front(event.stack)]
    /\ UNCHANGED <<keygrabber, keyboardGrab, typed, rootKeys, denied, failed, typedSoFar, keygrabs>>

End ==
    /\ event # NoEvent /\ event.stack = <<>> /\ event' = NoEvent
    /\ UNCHANGED <<keygrabber, keyboardGrab, typed, rootKeys, hearers, denied, failed, typedSoFar, keygrabs>>

\* luaA_keygrabber_stop.
Stop ==
    /\ keyboardGrab' = IF keyboardGrab = "awesome" THEN "nobody" ELSE keyboardGrab
    /\ keygrabber' = NoCallback /\ denied' = FALSE

\* event_handle_key: a callback that raises an error stops the keygrabber, be it another one
\* that the callback has started.  And if it only forgot the function.
Forget == keygrabber' = NoCallback /\ denied' = FALSE /\ UNCHANGED keyboardGrab
AfterError == Stop
CallbackFails ==
    /\ event # NoEvent /\ event.callback # NoCallback
    /\ AfterError
    /\ failed' = failed \cup {event.callback} /\ event' = NoEvent
    /\ UNCHANGED <<typed, rootKeys, hearers, typedSoFar, keygrabs>>

-----------------------------------------------------------------------------
(* Lua code, in any of the functions that are called, or otherwise.        *)

\* luaA_keygrabber_run, and keygrabber_grab: any reply of the server will do.
Run(f) ==
    /\ Step /\ keygrabber = NoCallback
    /\ keygrabber' = f
    /\ keyboardGrab' = IF keyboardGrab = "other" THEN "other" ELSE "awesome"
    /\ denied' = (keyboardGrab = "other") /\ failed' = failed \ {f}
    /\ UNCHANGED <<typed, rootKeys, event, hearers, typedSoFar>>

LuaStops ==
    /\ Step /\ Stop
    /\ UNCHANGED <<typed, rootKeys, event, hearers, failed, typedSoFar>>

\* luaA_root_keys.
SetRootKeys(list) ==
    /\ Step /\ rootKeys' = list
    /\ UNCHANGED <<keygrabber, keyboardGrab, typed, event, hearers, denied, failed, typedSoFar>>

KeygrabberInit ==
    /\ keygrabber = NoCallback /\ keyboardGrab = "nobody" /\ typed = <<>> /\ rootKeys \in KeyLists
    /\ event = NoEvent /\ hearers = <<>> /\ denied = FALSE /\ failed = {}
    /\ typedSoFar = 0 /\ keygrabs = 0

KeygrabberNext ==
    \/ OtherGrabsKeyboard \/ Begin \/ CallNext \/ End \/ CallbackFails \/ LuaStops
    \/ \E k \in Typed : Type(k)
    \/ \E f \in Callback : Run(f)
    \/ \E list \in KeyLists : SetRootKeys(list)

KeygrabberSpec == KeygrabberInit /\ [][KeygrabberNext]_keygrabberVars

-----------------------------------------------------------------------------
\* The keyboard is never left grabbed without a function that hears the keys, whichever way
\* keygrabbers start, stop, fail and replace each other; and it is grabbed while there is
\* one, unless another program had it when the function was started.
GrabFollowsFunction ==
    /\ keyboardGrab = "awesome" => keygrabber # NoCallback
    /\ keygrabber # NoCallback /\ ~denied => keyboardGrab = "awesome"

\* A callback that has failed hears no key before it is started again.
FailedIsStopped == keygrabber \notin failed

\* All bindings that match a key hear it, once each, the last one first, though each of
\* them may change the bindings or start a keygrabber.
MatchingHear ==
    event # NoEvent /\ event.callback = NoCallback => event.all = event.stack \o Reverse(hearers)

\* Together: the keyboard is grabbed as long as there is a function that hears the keys, no
\* function goes on after an error, and a key is heard by all the bindings that match it.
KeygrabberInv == KeygrabberTypeOK /\ GrabFollowsFunction /\ FailedIsStopped /\ MatchingHear
=================================================================================

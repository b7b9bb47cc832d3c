------------------------------- MODULE MCInput -------------------------------
(***************************************************************************)
(* Model checking of what follows the user: visibility and focus, crossing *)
(* events, the pointer, the keyboard and the tray.  As in MCWindows a      *)
(* behaviour is about one component, its part, and the others stay in one  *)
(* of their initial states.                                                *)
(***************************************************************************)
EXTENDS Banning, EnterLeave, Pointer, Keyboard, Keygrabber, Tray, TLC

VARIABLE part      \* the component that a behaviour is about

keyVars == <<keyboardVars, keygrabberVars>>

otherThanBanning    == <<part, enterLeaveVars, pointerVars, keyVars, trayVars>>
otherThanEnterLeave == <<part, banningVars, pointerVars, keyVars, trayVars>>
otherThanPointer    == <<part, banningVars, enterLeaveVars, keyVars, trayVars>>
otherThanKeyboard   == <<part, banningVars, enterLeaveVars, pointerVars, keygrabberVars, trayVars>>
otherThanKeygrabber == <<part, banningVars, enterLeaveVars, pointerVars, keyboardVars, trayVars>>
otherThanTray       == <<part, banningVars, enterLeaveVars, pointerVars, keyVars>>

CONSTANTS code1, code2, sym1, sym2

\* Two keys that the layout exchanges, or gives the same meaning.
MCCode == {code1, code2}
MCSym == {sym1, sym2}
MCKeymaps == {code1 :> sym1 @@ code2 :> sym2, code1 :> sym2 @@ code2 :> sym1, code1 :> sym1 @@ code2 :> sym1}

\* How key objects are made: of a keycode or of a keysym.
MCKeyb == [mods : {"none"}, key : {[code |-> code1, sym |-> NoKey], [code |-> NoKey, sym |-> sym1]}]

InputInit ==
    /\ part \in {"banning", "enter and leave", "pointer", "keyboard", "keygrabber", "tray"}
    /\ BanningInit /\ EnterLeaveInit /\ PointerInit /\ KeyboardInit /\ KeygrabberInit /\ TrayInit
    /\ part # "pointer" => ~trayInside
    /\ \A o \in KeyObject : keyb[o] \in MCKeyb
    /\ part # "keyboard" => keymap = (CHOOSE m \in Keymaps : TRUE) /\ group = (CHOOSE g \in Group : TRUE)
                            /\ \A o \in KeyObject : keyb[o].key.code = NoKey
    /\ part # "keygrabber" => rootKeys = <<>>
    /\ part # "tray" => xembedInfo = [w \in Icon |-> "none"]

InputNext ==
    \/ part = "banning" /\ BanningNext /\ UNCHANGED otherThanBanning
    \/ part = "enter and leave" /\ EnterLeaveNext /\ UNCHANGED otherThanEnterLeave
    \/ part = "pointer" /\ PointerNext /\ UNCHANGED otherThanPointer
    \/ part = "keyboard" /\ KeyboardNext /\ UNCHANGED otherThanKeyboard
    \/ part = "keygrabber" /\ KeygrabberNext /\ UNCHANGED otherThanKeygrabber
    \/ part = "tray" /\ TrayNext /\ UNCHANGED otherThanTray

InputSpec == InputInit /\ [][InputNext]_<<banningVars, otherThanBanning>>

-----------------------------------------------------------------------------

\* Bindings of the root window, for one key or for two.
MCKeyOf == [a |-> {"a"}, b |-> {"b"}, ab |-> {"a", "b"}]
MCKeyLists == {<<>>, <<"a", "ab">>, <<"ab", "b", "a">>}

=============================================================================

----------------------------- MODULE MCLifecycle -----------------------------
(***************************************************************************)
(* Model checking of the life of clients, and of what other programs are   *)
(* told of them.  As in MCWindows a behaviour is about one component, its  *)
(* part, and the other stays in its initial state.  Windows are            *)
(* interchangeable.                                                        *)
(***************************************************************************)
EXTENDS Lifecycle, Ewmh

VARIABLE part      \* the component that a behaviour is about

Symmetry == Permutations(Window)

LivesInit == /\ part \in {"lifecycle", "EWMH"}
             /\ Init /\ EwmhInit
             /\ part # "EWMH" => desktops = <<>>

LivesNext == \/ part = "lifecycle" /\ Next /\ UNCHANGED <<part, ewmhVars>>
             \/ part = "EWMH" /\ EwmhNext /\ UNCHANGED <<part, vars>>

LivesSpec == LivesInit /\ [][LivesNext]_<<part, vars, ewmhVars>>
=============================================================================

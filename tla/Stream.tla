-------------------------------- MODULE Stream --------------------------------
(***************************************************************************)
(* What a selection transfer promises to its two ends: the asker gets the  *)
(* bytes that the owner gives, all of them, once and in order, and learns  *)
(* when there are no more; or it learns that the owner refuses.            *)
(***************************************************************************)
EXTENDS Naturals, SequencesExt

CONSTANTS Transfer,  \* the transfers
          MaxData    \* bound: the bytes that are given in one transfer

VARIABLES given,  \* given[t]: how many bytes the owner has given; they are numbered
          got,    \* got[t]: the bytes that the asker has got
          ended   \* the transfers that are over for the asker

vars == <<given, got, ended>>

Init == /\ given = [t \in Transfer |-> 0]
        /\ got = [t \in Transfer |-> <<>>]
        /\ ended = {}

\* The bytes from i to j.
Bytes(i, j) == [k \in 1..(j - i + 1) |-> i + k - 1]

Give(t) == /\ t \notin ended
           /\ given[t] < MaxData
           /\ \E n \in 1..(MaxData - given[t]) : given' = [given EXCEPT ![t] = @ + n]

\* The asker gets what comes next.
Get(t) == /\ t \notin ended
          /\ Len(got[t]) < given[t]
          /\ \E n \in (Len(got[t]) + 1)..given[t] :
                got' = [got EXCEPT ![t] = @ \o Bytes(Len(@) + 1, n)]

\* All that has been given has been got.
End(t) == /\ t \notin ended
          /\ ended' = ended \cup {t}
          /\ Len(got'[t]) = given'[t]

\* Getting the last bytes may be the end at the same time.
Next == \E t \in Transfer : \/ Give(t) /\ UNCHANGED <<got, ended>>
                            \/ Get(t) /\ UNCHANGED <<given, ended>>
                            \/ Get(t) /\ End(t) /\ UNCHANGED given
                            \/ End(t) /\ UNCHANGED <<given, got>>

Spec == Init /\ [][Next]_vars
=============================================================================

---------------------------- MODULE Input_proofs ----------------------------
(***************************************************************************)
(* Proofs about the components that follow the user.                       *)
(*                                                                         *)
(* Keygrabber: the function that is called is kept with the event, and may *)
(* be another one than the keygrabber by the time it fails; all that the   *)
(* argument needs of it is that it is a function, so that it differs from  *)
(* the keygrabber that its failure leaves, which is none.  The bindings on *)
(* the stack and those called, in reverse, are the bindings that match.    *)
(*                                                                         *)
(* EnterLeave: the ranges are in order and behind the requests, and less   *)
(* than half of the numbers are in use, so that unsigned differences of    *)
(* numbers tell what is over from what is to come.                         *)
(*                                                                         *)
(* Keyboard: grabs are always those of the layout that awesome knows,      *)
(* except where a key object was changed since they were made.  What       *)
(* it or Lua code does not know yet is told by an event or by the refresh  *)
(* that one has asked for.                                                 *)
(*                                                                         *)
(* Pointer: whichever way the events that are waiting are handled, they    *)
(* will tell what the pointer is over, and one of them is the press that   *)
(* has frozen it, of a window that is still there to allow it to go on.    *)
(*                                                                         *)
(* Tray: an icon, the layout and the tray's window are as awesome believes *)
(* or something in the requests or the events will make them so; the last  *)
(* of each kind decides.                                                   *)
(***************************************************************************)
EXTENDS Keygrabber, EnterLeave, Keyboard, Pointer, Tray, SequenceTheorems, FiniteSetTheorems, WellFoundedInduction, TLAPS

-----------------------------------------------------------------------------
(* Keygrabber.                                                             *)

\* The bindings that match a key, those already called in reverse and those still on the stack,
\* for an event that the keygrabber has not got.
CalledInv ==
    event # NoEvent =>
        /\ event.callback \in Callback \cup {NoCallback}
        /\ event.stack \in Seq(KeyBinding)
        /\ event.callback = NoCallback => event.all = event.stack \o Reverse(hearers)
        /\ DOMAIN event = {"callback", "stack", "all"}

GrabTypeInv ==
    /\ keygrabber \in Callback \cup {NoCallback}
    /\ keyboardGrab \in {"nobody", "awesome", "other"}
    /\ denied \in BOOLEAN
    /\ failed \subseteq Callback

QueueTypeInv ==
    /\ typed \in Seq(Typed) /\ rootKeys \in KeyLists /\ hearers \in Seq(KeyBinding)

LetGo == GrabFollowsFunction /\ FailedIsStopped
GrabInv == GrabTypeInv /\ QueueTypeInv /\ CalledInv /\ LetGo

-----------------------------------------------------------------------------
(* What event_key_match pushes: the recursive function exists, and its     *)
(* values are sequences of bindings.  Both hold for every number of        *)
(* bindings, since there is no least one for which they do not.            *)

PushedStep(k, s, f, n) ==
    IF n = 0 THEN <<>>
    ELSE IF k \in KeyOf[s[n]] THEN Append(f[n - 1], s[n]) ELSE f[n - 1]

\* A set of numbers has a least element.
LEMMA LeastOf == ASSUME NEW T, T \subseteq Nat, T # {} PROVE \E x \in T : \A y \in T : x <= y
<1> DEFINE R == OpToRel(<, Nat)
<1>1. IsWellFoundedOn(R, Nat)
  BY NatLessThanWellFounded
<1>2. ASSUME NEW m \in Nat, NEW n \in Nat, m < n PROVE <<m, n>> \in R
  BY <1>2 DEF OpToRel
<1> HIDE DEF R
<1>3. PICK x \in T : \A y \in T : <<y, x>> \notin R
  BY <1>1, WFMin
<1>4. ASSUME NEW y \in T PROVE x <= y
  <2>1. x \in Nat /\ y \in Nat /\ ~(y < x)
    BY <1>2, <1>3
  <2> QED BY <2>1
<1> QED BY <1>4

LEMMA PushedExists ==
    ASSUME NEW k, NEW s \in Seq(KeyBinding)
    PROVE  \E f : f = [n \in 0..Len(s) |-> PushedStep(k, s, f, n)]
<1> DEFINE Missing == {m \in 0..Len(s) : ~\E f : f = [n \in 0..m |-> PushedStep(k, s, f, n)]}
<1>1. Len(s) \in Nat
  BY LenProperties
<1>2. SUFFICES ASSUME Missing # {} PROVE FALSE
  BY <1>1
<1>3. Missing \subseteq Nat
  BY <1>1
<1>4. PICK m \in Missing : \A x \in Missing : m <= x
  <2> HIDE DEF Missing
  <2> QED BY <1>2, <1>3, LeastOf
<1>5. CASE m = 0
  <2>1. PICK f : f = [n \in 0..0 |-> <<>>]
    OBVIOUS
  <2>2. f = [n \in 0..0 |-> PushedStep(k, s, f, n)]
    BY <2>1 DEF PushedStep
  <2> QED BY <1>5, <2>2
<1>6. CASE m # 0
  <2>1. m \in Nat /\ m - 1 \in 0..Len(s) /\ ~(m <= m - 1) /\ m \in 0..Len(s)
    BY <1>1, <1>3, <1>6
  <2>2. m - 1 \notin Missing
    <3> HIDE DEF Missing
    <3> QED BY <1>4, <2>1
  <2>3. PICK f : f = [n \in 0..m - 1 |-> PushedStep(k, s, f, n)]
    BY <2>1, <2>2
  <2>4. PICK g : g = [n \in 0..m |-> IF n = m THEN PushedStep(k, s, f, m) ELSE f[n]]
    OBVIOUS
  <2>5. ASSUME NEW n \in 0..m PROVE g[n] = PushedStep(k, s, g, n)
    <3>1. CASE n = m
      <4>1. m - 1 \in 0..m /\ m - 1 # m
        BY <2>1
      <4>2. g[m - 1] = f[m - 1] /\ g[m] = PushedStep(k, s, f, m)
        BY <2>1, <2>4, <4>1
      <4> QED BY <3>1, <4>2 DEF PushedStep
    <3>2. CASE n # m
      <4>1. n \in 0..m - 1 /\ (n # 0 => n - 1 \in 0..m /\ n - 1 # m)
        BY <2>1, <3>2
      <4>2. g[n] = f[n] /\ (n # 0 => g[n - 1] = f[n - 1])
        BY <2>4, <3>2, <4>1
      <4>3. f[n] = PushedStep(k, s, f, n)
        BY <2>3, <4>1
      <4> QED BY <4>2, <4>3 DEF PushedStep
    <3> QED BY <3>1, <3>2
  <2>6. g = [n \in 0..m |-> g[n]]
    BY <2>4
  <2>7. g = [n \in 0..m |-> PushedStep(k, s, g, n)]
    BY <2>5, <2>6
  <2> QED BY <2>7
<1> QED BY <1>5, <1>6

LEMMA PushedTyped ==
    ASSUME NEW k, NEW s \in Seq(KeyBinding), NEW f, f = [n \in 0..Len(s) |-> PushedStep(k, s, f, n)],
           NEW n \in 0..Len(s)
    PROVE  f[n] \in Seq(KeyBinding)
<1> DEFINE Wrong == {m \in 0..Len(s) : f[m] \notin Seq(KeyBinding)}
<1>1. Len(s) \in Nat /\ \A i \in 1..Len(s) : s[i] \in KeyBinding
  BY LenProperties, ElementOfSeq
<1>2. SUFFICES ASSUME Wrong # {} PROVE FALSE
  OBVIOUS
<1>3. Wrong \subseteq Nat
  BY <1>1
<1>4. PICK m \in Wrong : \A x \in Wrong : m <= x
  <2> HIDE DEF Wrong
  <2> QED BY <1>2, <1>3, LeastOf
<1>5. f[m] = PushedStep(k, s, f, m)
  OBVIOUS
<1>6. CASE m = 0
  <2>1. f[m] = <<>>
    BY <1>5, <1>6 DEF PushedStep
  <2> QED BY <2>1
<1>7. CASE m # 0
  <2>1. m - 1 \in 0..Len(s) /\ ~(m <= m - 1) /\ m \in 1..Len(s)
    BY <1>1, <1>7
  <2>2. m - 1 \notin Wrong
    <3> HIDE DEF Wrong
    <3> QED BY <1>4, <2>1
  <2>3. PICK h : h = f[m - 1]
    OBVIOUS
  <2>4. h \in Seq(KeyBinding) /\ s[m] \in KeyBinding
    BY <1>1, <2>1, <2>2, <2>3
  <2>5. f[m] = Append(h, s[m]) \/ f[m] = h
    BY <1>5, <1>7, <2>3 DEF PushedStep
  <2>6. Append(h, s[m]) \in Seq(KeyBinding)
    BY <2>4, AppendProperties
  <2> QED BY <2>4, <2>5, <2>6
<1> QED BY <1>6, <1>7

LEMMA MatchingTyped == ASSUME NEW k, rootKeys \in Seq(KeyBinding) PROVE Matching(k) \in Seq(KeyBinding)
<1> DEFINE pushed == CHOOSE f : f = [n \in 0..Len(rootKeys) |->
               IF n = 0 THEN <<>>
               ELSE IF k \in KeyOf[rootKeys[n]] THEN Append(f[n - 1], rootKeys[n]) ELSE f[n - 1]]
<1>1. Matching(k) = pushed[Len(rootKeys)]
  BY DEF Matching
<1>2. \E f : f = [n \in 0..Len(rootKeys) |->
                    IF n = 0 THEN <<>>
                    ELSE IF k \in KeyOf[rootKeys[n]] THEN Append(f[n - 1], rootKeys[n]) ELSE f[n - 1]]
  <2>1. PICK f : f = [n \in 0..Len(rootKeys) |-> PushedStep(k, rootKeys, f, n)]
    BY PushedExists
  <2> QED BY <2>1 DEF PushedStep
<1>3. pushed = [n \in 0..Len(rootKeys) |->
                    IF n = 0 THEN <<>>
                    ELSE IF k \in KeyOf[rootKeys[n]] THEN Append(pushed[n - 1], rootKeys[n]) ELSE pushed[n - 1]]
  BY <1>2
<1> HIDE DEF pushed
<1>4. pushed = [n \in 0..Len(rootKeys) |-> PushedStep(k, rootKeys, pushed, n)]
  BY <1>3 DEF PushedStep
<1>5. Len(rootKeys) \in 0..Len(rootKeys)
  BY LenProperties
<1> QED BY <1>1, <1>4, <1>5, PushedTyped

-----------------------------------------------------------------------------
\* Stopping, on request or after an error, leaves no function and lets go of the keyboard.
LEMMA StopLetsGo ==
    ASSUME GrabTypeInv, Stop, failed' \subseteq Callback
    PROVE  GrabTypeInv' /\ LetGo'
<1>1. GrabTypeInv'
  BY DEF Stop, GrabTypeInv
<1>2. GrabFollowsFunction'
  BY DEF Stop, GrabTypeInv, GrabFollowsFunction
<1>3. FailedIsStopped'
  BY NoCallbackAssumption DEF Stop, FailedIsStopped
<1>4. QED
  BY <1>1, <1>2, <1>3 DEF LetGo

\* Steps that have nothing to do with the keyboard.
LEMMA OthersKeep ==
    ASSUME GrabInv, UNCHANGED <<keygrabber, keyboardGrab, denied, failed>>, QueueTypeInv', CalledInv'
    PROVE  GrabInv'
  BY DEF GrabInv, GrabTypeInv, LetGo, GrabFollowsFunction, FailedIsStopped

LEMMA CalledStays ==
    ASSUME GrabInv, UNCHANGED <<event, hearers>>
    PROVE  CalledInv'
  BY DEF GrabInv, CalledInv

\* A function that is started has the keyboard, or was refused it.
LEMMA RunKeeps ==
    ASSUME GrabInv, NEW f \in Callback, Run(f)
    PROVE  GrabInv'
<1>1. GrabTypeInv'
  BY DEF Run, GrabInv, GrabTypeInv
<1>2. CalledInv' /\ QueueTypeInv'
  BY CalledStays DEF Run, GrabInv, QueueTypeInv
<1>3. GrabFollowsFunction'
  BY NoCallbackAssumption DEF Run, GrabInv, GrabTypeInv, GrabFollowsFunction
<1>4. FailedIsStopped'
  BY DEF Run, FailedIsStopped
<1>5. QED
  BY <1>1, <1>2, <1>3, <1>4 DEF GrabInv, LetGo

\* Other programs take the keyboard only from nobody.
LEMMA OtherGrabsKeep ==
    ASSUME GrabInv, OtherGrabsKeyboard
    PROVE  GrabInv'
<1>1. GrabTypeInv' /\ CalledInv' /\ QueueTypeInv'
  BY CalledStays DEF OtherGrabsKeyboard, GrabInv, GrabTypeInv, QueueTypeInv
<1>2. GrabFollowsFunction' /\ FailedIsStopped'
  BY DEF OtherGrabsKeyboard, GrabInv, GrabTypeInv, LetGo, GrabFollowsFunction, FailedIsStopped
<1>3. QED
  BY <1>1, <1>2 DEF GrabInv, LetGo

LEMMA FailureKeeps ==
    ASSUME GrabInv, CallbackFails
    PROVE  GrabInv'
<1>1. event.callback \in Callback /\ event' = NoEvent
  BY DEF CallbackFails, GrabInv, CalledInv
<1>2. failed' \subseteq Callback
  BY <1>1 DEF CallbackFails, GrabInv, GrabTypeInv
<1>3. Stop
  BY DEF CallbackFails, AfterError
<1>4. GrabTypeInv' /\ LetGo'
  BY <1>2, <1>3, StopLetsGo DEF GrabInv
<1>5. QueueTypeInv'
  BY DEF CallbackFails, GrabInv, QueueTypeInv
<1>6. QED
  BY <1>1, <1>4, <1>5 DEF GrabInv, CalledInv

LEMMA BeginKeeps ==
    ASSUME GrabInv, Begin
    PROVE  GrabInv'
<1>1. /\ typed \in Seq(Typed) /\ typed # <<>> /\ typed' = Tail(typed) /\ hearers' = <<>>
      /\ rootKeys \in Seq(KeyBinding)
      /\ UNCHANGED <<keygrabber, keyboardGrab, rootKeys, denied, failed>>
  BY KeygrabberAssumption DEF Begin, GrabInv, QueueTypeInv
<1>2. QueueTypeInv'
  <2>1. typed' \in Seq(Typed)
    BY <1>1, HeadTailProperties
  <2> QED BY <1>1, <2>1 DEF GrabInv, QueueTypeInv
<1>3. PICK m : m = Matching(Head(typed))
  OBVIOUS
<1>4. m \in Seq(KeyBinding)
  BY <1>1, <1>3, MatchingTyped
<1>5. event' = IF keygrabber # NoCallback THEN [callback |-> keygrabber, stack |-> <<>>, all |-> <<>>]
               ELSE [callback |-> NoCallback, stack |-> m, all |-> m]
  BY <1>3 DEF Begin
<1>6. m = m \o Reverse(<<>>)
  <2>1. Reverse(<<>>) = <<>>
    BY DEF Reverse
  <2>2. m \o <<>> = m
    BY <1>4, ConcatEmptySeq
  <2> QED BY <2>1, <2>2
<1>7. CalledInv'
  <2>1. CASE keygrabber # NoCallback
    <3>1. event' = [callback |-> keygrabber, stack |-> <<>>, all |-> <<>>] /\ keygrabber \in Callback
      BY <1>5, <2>1 DEF GrabInv, GrabTypeInv
    <3> QED BY <2>1, <3>1, NoCallbackAssumption DEF CalledInv
  <2>2. CASE keygrabber = NoCallback
    <3>1. event' = [callback |-> NoCallback, stack |-> m, all |-> m]
      BY <1>5, <2>2
    <3> QED BY <1>1, <1>4, <1>6, <3>1 DEF CalledInv
  <2> QED BY <2>1, <2>2
<1> QED BY <1>1, <1>2, <1>7, OthersKeep

\* One more has heard it: the line of those on the stack and those who heard it stays.
LEMMA OneMoreHears ==
    ASSUME NEW s \in Seq(KeyBinding), s # <<>>, NEW h \in Seq(KeyBinding)
    PROVE  /\ Front(s) \in Seq(KeyBinding) /\ Append(h, Last(s)) \in Seq(KeyBinding)
           /\ Front(s) \o Reverse(Append(h, Last(s))) = s \o Reverse(h)
<1>1. /\ Len(s) \in Nat /\ Len(s) > 0 /\ Len(h) \in Nat /\ DOMAIN s = 1..Len(s)
      /\ \A i \in 1..Len(s) : s[i] \in KeyBinding
      /\ \A i \in 1..Len(h) : h[i] \in KeyBinding
  BY LenProperties, EmptySeq, ElementOfSeq
<1>2. PICK f : f = Front(s)
  OBVIOUS
<1>3. PICK x : x = s[Len(s)]
  OBVIOUS
<1>4. x = Last(s) /\ x \in KeyBinding
  BY <1>1, <1>3 DEF Last
<1>5. f \in Seq(KeyBinding) /\ Len(f) = Len(s) - 1 /\ \A i \in 1..Len(s) - 1 : f[i] = s[i]
  BY <1>1, <1>2 DEF Front
<1>6. PICK a : a = Append(h, x)
  OBVIOUS
<1>7. /\ a \in Seq(KeyBinding) /\ Len(a) = Len(h) + 1 /\ a[Len(h) + 1] = x
      /\ \A i \in 1..Len(h) : a[i] = h[i]
  BY <1>1, <1>4, <1>6, AppendProperties
<1>8. PICK r : r = Reverse(a)
  OBVIOUS
<1>9. PICK q : q = Reverse(h)
  OBVIOUS
<1>10. /\ r \in Seq(KeyBinding) /\ Len(r) = Len(h) + 1
       /\ \A i \in 1..Len(h) + 1 : r[i] = a[Len(h) + 1 - i + 1]
  <2>1. r = [i \in 1..Len(h) + 1 |-> a[(Len(h) + 1 - i) + 1]]
    BY <1>7, <1>8 DEF Reverse
  <2>2. \A i \in 1..Len(h) + 1 : (Len(h) + 1 - i) + 1 \in 1..Len(h) + 1
    BY <1>1
  <2>3. \A j \in 1..Len(h) + 1 : a[j] \in KeyBinding
    BY <1>7, ElementOfSeq
  <2>4. \A i \in 1..Len(h) + 1 : r[i] \in KeyBinding
    BY <2>1, <2>2, <2>3
  <2>5. Len(h) + 1 \in Nat
    BY <1>1
  <2> QED BY <2>1, <2>4, <2>5
<1>11. /\ q \in Seq(KeyBinding) /\ Len(q) = Len(h)
       /\ \A i \in 1..Len(h) : q[i] = h[Len(h) - i + 1]
  <2>1. q = [i \in 1..Len(h) |-> h[(Len(h) - i) + 1]]
    BY <1>9 DEF Reverse
  <2>2. \A i \in 1..Len(h) : (Len(h) - i) + 1 \in 1..Len(h)
    BY <1>1
  <2>3. \A i \in 1..Len(h) : q[i] \in KeyBinding
    BY <1>1, <2>1, <2>2
  <2> QED BY <1>1, <2>1, <2>3
<1>12. /\ f \o r \in Seq(KeyBinding) /\ Len(f \o r) = Len(s) + Len(h)
       /\ \A i \in 1..Len(s) + Len(h) : (f \o r)[i] = IF i <= Len(s) - 1 THEN f[i] ELSE r[i - (Len(s) - 1)]
  <2>1. /\ f \o r \in Seq(KeyBinding) /\ Len(f \o r) = Len(f) + Len(r)
        /\ \A i \in 1..Len(f) + Len(r) : (f \o r)[i] = IF i <= Len(f) THEN f[i] ELSE r[i - Len(f)]
    BY <1>5, <1>10, ConcatProperties
  <2>2. Len(f) + Len(r) = Len(s) + Len(h)
    BY <1>1, <1>5, <1>10
  <2> QED BY <1>5, <2>1, <2>2
<1>13. /\ s \o q \in Seq(KeyBinding) /\ Len(s \o q) = Len(s) + Len(h)
       /\ \A i \in 1..Len(s) + Len(h) : (s \o q)[i] = IF i <= Len(s) THEN s[i] ELSE q[i - Len(s)]
  <2>1. /\ s \o q \in Seq(KeyBinding) /\ Len(s \o q) = Len(s) + Len(q)
        /\ \A i \in 1..Len(s) + Len(q) : (s \o q)[i] = IF i <= Len(s) THEN s[i] ELSE q[i - Len(s)]
    <3>1. q \in Seq(KeyBinding) /\ s \in Seq(KeyBinding)
      BY <1>11
    <3> QED BY ONLY <3>1, ConcatProperties
  <2> QED BY <1>11, <2>1
<1>14. ASSUME NEW i \in 1..Len(s) + Len(h) PROVE (f \o r)[i] = (s \o q)[i]
  <2>1. CASE i <= Len(s) - 1
    <3>1. i <= Len(s) /\ i \in 1..Len(s) - 1
      BY <1>1, <2>1
    <3> QED BY <1>5, <1>12, <1>13, <2>1, <3>1
  <2>2. CASE i = Len(s)
    <3>1. ~(i <= Len(s) - 1) /\ i - (Len(s) - 1) = 1 /\ 1 \in 1..Len(h) + 1
          /\ Len(h) + 1 - 1 + 1 = Len(h) + 1 /\ i <= Len(s)
      BY <1>1, <2>2
    <3>2. (f \o r)[i] = r[1] /\ r[1] = a[Len(h) + 1]
      BY <1>10, <1>12, <3>1
    <3>3. (s \o q)[i] = s[Len(s)]
      BY <1>13, <2>2, <3>1
    <3> QED BY <1>3, <1>7, <3>2, <3>3
  <2>3. CASE i > Len(s)
    <3>1. PICK j : j = i - Len(s)
      OBVIOUS
    <3>2. /\ ~(i <= Len(s) - 1) /\ ~(i <= Len(s)) /\ i - (Len(s) - 1) = j + 1 /\ i - Len(s) = j
          /\ j \in 1..Len(h) /\ j + 1 \in 1..Len(h) + 1
          /\ Len(h) + 1 - (j + 1) + 1 = Len(h) - j + 1 /\ Len(h) - j + 1 \in 1..Len(h)
      BY <1>1, <2>3, <3>1
    <3>3. (f \o r)[i] = r[j + 1] /\ r[j + 1] = a[Len(h) - j + 1]
      BY <1>10, <1>12, <3>2
    <3>4. (s \o q)[i] = q[j] /\ q[j] = h[Len(h) - j + 1]
      BY <1>11, <1>13, <3>2
    <3> QED BY <1>7, <3>2, <3>3, <3>4
  <2>4. i <= Len(s) - 1 \/ i = Len(s) \/ i > Len(s)
    <3>1. Len(s) \in Nat /\ i \in Nat
      BY <1>1
    <3>2. \A m, n \in Nat : m <= n - 1 \/ m = n \/ m > n
      OBVIOUS
    <3> QED BY ONLY <3>1, <3>2
  <2> QED BY <2>1, <2>2, <2>3, <2>4
<1>15. f \o r = s \o q
  BY <1>12, <1>13, <1>14, SeqEqual
<1> QED BY <1>2, <1>4, <1>5, <1>6, <1>7, <1>8, <1>9, <1>15

LEMMA CallNextKeeps ==
    ASSUME GrabInv, CallNext
    PROVE  GrabInv'
<1>1. PICK s : s = event.stack
  OBVIOUS
<1>2. PICK h : h = hearers
  OBVIOUS
<1>3. /\ event # NoEvent /\ s # <<>> /\ s \in Seq(KeyBinding) /\ h \in Seq(KeyBinding)
      /\ hearers' = Append(h, Last(s)) /\ event' = [event EXCEPT !.stack = Front(s)]
      /\ event.callback \in Callback \cup {NoCallback}
      /\ event.callback = NoCallback => event.all = s \o Reverse(h)
      /\ DOMAIN event = {"callback", "stack", "all"}
      /\ UNCHANGED <<keygrabber, keyboardGrab, typed, rootKeys, denied, failed>>
  BY <1>1, <1>2 DEF CallNext, GrabInv, CalledInv, QueueTypeInv
<1>4. /\ Front(s) \in Seq(KeyBinding) /\ Append(h, Last(s)) \in Seq(KeyBinding)
      /\ Front(s) \o Reverse(Append(h, Last(s))) = s \o Reverse(h)
  BY <1>3, OneMoreHears
<1>5. /\ event'.callback = event.callback /\ event'.all = event.all /\ event'.stack = Front(s)
      /\ DOMAIN event' = DOMAIN event
  BY <1>3
<1>6. CalledInv' /\ QueueTypeInv'
  BY <1>3, <1>4, <1>5 DEF CalledInv, QueueTypeInv, GrabInv
<1> QED BY <1>3, <1>6, OthersKeep

LEMMA TypeKeeps ==
    ASSUME GrabInv, NEW k \in Typed, Type(k)
    PROVE  GrabInv'
<1>1. typed' \in Seq(Typed)
  BY AppendProperties DEF Type, GrabInv, QueueTypeInv
<1>2. QueueTypeInv'
  BY <1>1 DEF Type, GrabInv, QueueTypeInv
<1> QED BY <1>2, CalledStays, OthersKeep DEF Type

LEMMA StepKeepsGrabInv ==
    ASSUME GrabInv, [KeygrabberNext]_keygrabberVars
    PROVE  GrabInv'
<1>1. CASE OtherGrabsKeyboard
  BY <1>1, OtherGrabsKeep
<1>2. CASE Begin
  BY <1>2, BeginKeeps
<1>3. CASE CallNext
  BY <1>3, CallNextKeeps
<1>4. CASE End
  <2>1. CalledInv' /\ QueueTypeInv'
    BY <1>4 DEF End, CalledInv, GrabInv, QueueTypeInv
  <2> QED BY <1>4, <2>1, OthersKeep DEF End
<1>5. CASE CallbackFails
  BY <1>5, FailureKeeps
<1>6. CASE LuaStops
  <2>1. failed' \subseteq Callback /\ CalledInv' /\ QueueTypeInv'
    BY <1>6, CalledStays DEF LuaStops, GrabInv, GrabTypeInv, QueueTypeInv
  <2>2. QED
    BY <1>6, <2>1, StopLetsGo DEF LuaStops, GrabInv
<1>7. CASE \E k \in Typed : Type(k)
  BY <1>7, TypeKeeps
<1>8. CASE \E f \in Callback : Run(f)
  BY <1>8, RunKeeps
<1>9. CASE \E list \in KeyLists : SetRootKeys(list)
  <2>1. CalledInv' /\ QueueTypeInv'
    BY <1>9, CalledStays DEF SetRootKeys, GrabInv, QueueTypeInv
  <2> QED BY <1>9, <2>1, OthersKeep DEF SetRootKeys
<1>10. CASE UNCHANGED keygrabberVars
  <2>1. CalledInv' /\ QueueTypeInv'
    BY <1>10, CalledStays DEF keygrabberVars, GrabInv, QueueTypeInv
  <2> QED BY <1>10, <2>1, OthersKeep DEF keygrabberVars
<1>11. QED
  BY <1>1, <1>2, <1>3, <1>4, <1>5, <1>6, <1>7, <1>8, <1>9, <1>10 DEF KeygrabberNext

-----------------------------------------------------------------------------
\* For any functions, bindings and keys: the keyboard is never left grabbed without a
\* function, it is grabbed while one runs that was not refused it, a function that has
\* failed is not run until it is started again, and a key that is not for the keygrabber is
\* heard by all the bindings that match it, once each (keygrabber.c, event_handle_key).
THEOREM KeysAreHeard == KeygrabberSpec => []KeygrabberInv
<1>1. KeygrabberInit => GrabInv
  <2> SUFFICES ASSUME KeygrabberInit PROVE GrabInv
    OBVIOUS
  <2>1. <<>> \in Seq(Typed) /\ <<>> \in Seq(KeyBinding)
    OBVIOUS
  <2>2. GrabTypeInv /\ LetGo
    BY NoCallbackAssumption DEF KeygrabberInit, GrabTypeInv, LetGo, GrabFollowsFunction, FailedIsStopped
  <2>3. QueueTypeInv /\ CalledInv
    BY <2>1 DEF KeygrabberInit, QueueTypeInv, CalledInv
  <2> QED BY <2>2, <2>3 DEF GrabInv
<1>2. GrabInv /\ [KeygrabberNext]_keygrabberVars => GrabInv'
  BY StepKeepsGrabInv
<1>3. GrabInv => KeygrabberInv
  BY DEF GrabInv, GrabTypeInv, QueueTypeInv, CalledInv, LetGo, KeygrabberInv, KeygrabberTypeOK, MatchingHear
<1>4. QED
  BY <1>1, <1>2, <1>3, PTL DEF KeygrabberSpec

-----------------------------------------------------------------------------
(* EnterLeave.                                                             *)

\* No bracket is open when the numbers wrap around, and events are handled before half of the
\* numbers are used: should_ignore takes a range that is further ahead for one that is over.
NumbersAreAhead == ~MayStraddle /\ MaxBehind <= (Modulus - 1) \div 2

\* Half of the numbers are not used up, and a bracket is open for events to come only.
NumbersInv ==
    /\ out \in 0..MaxRequests /\ done \in 0..out /\ begin \in 0..out /\ seen \in 0..done
    /\ out <= seen + MaxBehind /\ (begin # 0 => seen < begin)

\* The ranges are in order, after the last event that was handled, and none wraps around.
RangesInOrder ==
    /\ ranges \in Seq((1..out) \X (1..out))
    /\ \A k \in 1..Len(ranges) :
          /\ ranges[k][1] < ranges[k][2] /\ ranges[k][2] < out /\ seen <= ranges[k][2]
          /\ ranges[k][1] \div Modulus = ranges[k][2] \div Modulus
          /\ begin # 0 => ranges[k][2] < begin
    /\ \A k, l \in 1..Len(ranges) : k < l => ranges[k][2] < ranges[l][1]
    /\ brackets = {ranges[k] : k \in 1..Len(ranges)}

\* The server sends the events in the order of the requests.
EventsInOrder ==
    /\ events \in Seq(seen..done)
    /\ \A i, j \in 1..Len(events) : i <= j => events[i] <= events[j]

RangesInv == NumbersInv /\ RangesInOrder /\ EventsInOrder /\ ignored \in BOOLEAN /\ IgnoredIfInside

-----------------------------------------------------------------------------
(* Sequence numbers.                                                       *)

LEMMA Division ==
    ASSUME NEW n \in Nat
    PROVE  /\ Seq32(n) \in 0..Modulus - 1 /\ n \div Modulus \in Nat
           /\ n = Modulus * (n \div Modulus) + Seq32(n)
  BY EnterLeaveAssumption DEF Seq32

LEMMA FollowingIsNext ==
    ASSUME NEW n \in Nat PROVE Following(n) \in Nat /\ n < Following(n)
  BY DEF Following

\* The difference of two sequence numbers, when the requests are not far apart.
LEMMA MinusIsDifference ==
    ASSUME NEW m \in Nat, NEW n \in Nat, m - n < Modulus, n - m < Modulus
    PROVE  Minus(Seq32(m), Seq32(n)) = IF n <= m THEN m - n ELSE m - n + Modulus
<1> DEFINE a == m \div Modulus
           b == n \div Modulus
           x == Seq32(m)
           y == Seq32(n)
<1>1. /\ x \in 0..Modulus - 1 /\ a \in Nat /\ m = Modulus * a + x
      /\ y \in 0..Modulus - 1 /\ b \in Nat /\ n = Modulus * b + y /\ Modulus \in Nat \ {0}
  BY Division, EnterLeaveAssumption
<1>2. Minus(x, y) = (x + Modulus - y) % Modulus
  BY DEF Minus
<1> HIDE DEF a, b, x, y
<1>3. (x + Modulus - y) % Modulus = IF y <= x THEN x - y ELSE x - y + Modulus
  <2>1. CASE y <= x
    <3>1. x - y \in 0..Modulus - 1 /\ x + Modulus - y = Modulus * 1 + (x - y)
      BY <1>1, <2>1
    <3> QED BY <1>1, <2>1, <3>1
  <2>2. CASE ~(y <= x)
    <3>1. x + Modulus - y \in 0..Modulus - 1
      BY <1>1, <2>2
    <3>2. (x + Modulus - y) % Modulus = x + Modulus - y
      BY <1>1, <3>1
    <3> QED BY <1>1, <2>2, <3>2
  <2> QED BY <2>1, <2>2
<1>4. a = b \/ a = b + 1 \/ b = a + 1
  <2>1. ASSUME a > b + 1 PROVE FALSE
    <3>1. Modulus * a >= Modulus * b + Modulus + Modulus
      BY <1>1, <2>1
    <3> QED BY <1>1, <3>1
  <2>2. ASSUME b > a + 1 PROVE FALSE
    <3>1. Modulus * b >= Modulus * a + Modulus + Modulus
      BY <1>1, <2>2
    <3> QED BY <1>1, <3>1
  <2> QED BY <1>1, <2>1, <2>2
<1>5. CASE a = b
  <2>1. m - n = x - y
    BY <1>1, <1>5
  <2> QED BY <1>1, <1>2, <1>3, <2>1 DEF x, y
<1>6. CASE a = b + 1
  <2>1. m - n = Modulus + x - y
    BY <1>1, <1>6
  <2> QED BY <1>1, <1>2, <1>3, <2>1 DEF x, y
<1>7. CASE b = a + 1
  <2>1. m - n = x - y - Modulus
    BY <1>1, <1>7
  <2> QED BY <1>1, <1>2, <1>3, <2>1 DEF x, y
<1> QED BY <1>4, <1>5, <1>6, <1>7

\* An event that is not later than the end of a range is in it, if its number is.
LEMMA InsideByNumbers ==
    ASSUME NEW b \in Nat, NEW e \in Nat, b <= e, b \div Modulus = e \div Modulus,
           NEW n \in Nat, n <= e, e - n < Modulus
    PROVE  (Seq32(b) <= Seq32(n) /\ Seq32(n) <= Seq32(e)) <=> b <= n
<1> DEFINE q == e \div Modulus
           p == n \div Modulus
           x == Seq32(b)
           y == Seq32(e)
           z == Seq32(n)
<1>1. /\ x \in 0..Modulus - 1 /\ y \in 0..Modulus - 1 /\ z \in 0..Modulus - 1
      /\ q \in Nat /\ p \in Nat /\ Modulus \in Nat \ {0}
      /\ b = Modulus * q + x /\ e = Modulus * q + y /\ n = Modulus * p + z
  BY Division, EnterLeaveAssumption
<1> HIDE DEF q, p, x, y, z
<1>2. p = q \/ q = p + 1
  <2>1. ASSUME q > p + 1 PROVE FALSE
    <3>1. Modulus * q >= Modulus * p + Modulus + Modulus
      BY <1>1, <2>1
    <3> QED BY <1>1, <3>1
  <2>2. ASSUME p > q PROVE FALSE
    <3>1. Modulus * p >= Modulus * q + Modulus
      BY <1>1, <2>2
    <3> QED BY <1>1, <3>1
  <2> QED BY <1>1, <2>1, <2>2
<1>3. (x <= z /\ z <= y) <=> b <= n
  <2>1. CASE p = q
    BY <1>1, <2>1
  <2>2. CASE q = p + 1
    <3>1. e - n = Modulus + y - z /\ n - b = z - x - Modulus
      BY <1>1, <2>2
    <3> QED BY <1>1, <3>1
  <2> QED BY <1>2, <2>1, <2>2
<1> QED BY <1>3 DEF x, y, z
-----------------------------------------------------------------------------
(* Pruning.                                                                *)

LEMMA LeastElement ==
    ASSUME NEW T, T \subseteq Nat, T # {}
    PROVE  \E m \in T : \A l \in T : m <= l
<1>1. PICK m \in T : \A l \in T : <<l, m>> \notin OpToRel(<, Nat)
  BY NatLessThanWellFounded, WFMin
<1>2. ASSUME NEW l \in T PROVE m <= l
  <2>1. m \in Nat /\ l \in Nat
    OBVIOUS
  <2>2. ~(l < m)
    BY <1>1, <2>1 DEF OpToRel
  <2> QED BY <2>1, <2>2
<1> QED BY <1>2

\* A range is kept if it is not over before the event, and so are all that are after it.
LEMMA PrunedIsSuffix ==
    ASSUME NumbersAreAhead, RangesInv, NEW e \in seen..done
    PROVE  \E m \in 1..Len(ranges) + 1 :
              /\ \A k \in 1..Len(ranges) : k < m <=> ranges[k][2] < e
              /\ Pruned(Seq32(e)) \in Seq((1..out) \X (1..out))
              /\ Len(Pruned(Seq32(e))) = Len(ranges) + 1 - m
              /\ \A i \in 1..Len(Pruned(Seq32(e))) : Pruned(Seq32(e))[i] = ranges[m + i - 1]
<1> DEFINE left == Pruned(Seq32(e))
           keep == {k \in DOMAIN ranges : Minus(Seq32(ranges[k][2]), Seq32(e)) < (Modulus - 1) \div 2}
           least == CHOOSE k \in keep : \A l \in keep : k <= l
<1>1. /\ out \in Nat /\ done \in 0..out /\ seen \in 0..done /\ out <= seen + MaxBehind /\ e \in Nat
      /\ ranges \in Seq((1..out) \X (1..out))
      /\ Modulus \in Nat /\ Modulus > 1 /\ MaxBehind \in Nat /\ MaxBehind <= (Modulus - 1) \div 2
  BY EnterLeaveAssumption DEF RangesInv, NumbersInv, RangesInOrder, NumbersAreAhead
<1>2. /\ DOMAIN ranges = 1..Len(ranges) /\ Len(ranges) \in Nat
      /\ \A k \in 1..Len(ranges) : ranges[k] \in (1..out) \X (1..out)
  BY <1>1, LenProperties, ElementOfSeq
<1>3. ASSUME NEW k \in 1..Len(ranges) PROVE k \in keep <=> ranges[k][2] >= e
  <2> DEFINE r == ranges[k][2]
  <2>1. r \in Nat /\ r < out /\ seen <= r
    BY <1>1, <1>2 DEF RangesInv, RangesInOrder
  <2> HIDE DEF r
  <2>2. r - e < Modulus /\ e - r < Modulus
    BY <1>1, <2>1
  <2>3. Minus(Seq32(r), Seq32(e)) = IF e <= r THEN r - e ELSE r - e + Modulus
    BY <1>1, <2>1, <2>2, MinusIsDifference
  <2>4. (e <= r) <=> Minus(Seq32(r), Seq32(e)) < (Modulus - 1) \div 2
    BY <1>1, <2>1, <2>3
  <2> QED BY <1>2, <2>1, <2>4 DEF r
<1>4. \A k, l \in 1..Len(ranges) : k < l => ranges[k][2] < ranges[l][2]
  BY <1>2 DEF RangesInv, RangesInOrder
<1>5. left = IF keep = {} THEN <<>> ELSE SubSeq(ranges, least, Len(ranges))
  BY DEF Pruned
<1>6. keep \subseteq 1..Len(ranges)
  BY <1>2
<1> HIDE DEF left, keep
<1>7. CASE keep = {}
  <2>1. left = <<>> /\ left \in Seq((1..out) \X (1..out)) /\ Len(left) = 0
    BY <1>5, <1>7
  <2>2. \A k \in 1..Len(ranges) : k < Len(ranges) + 1 <=> ranges[k][2] < e
    BY <1>1, <1>2, <1>3, <1>7
  <2>3. /\ Len(ranges) + 1 \in 1..Len(ranges) + 1
        /\ Len(left) = Len(ranges) + 1 - (Len(ranges) + 1)
        /\ \A i \in 1..Len(left) : left[i] = ranges[Len(ranges) + 1 + i - 1]
    BY <1>2, <2>1
  <2> QED BY <2>1, <2>2, <2>3 DEF left
<1>8. CASE keep # {}
  <2>1. least \in keep /\ \A l \in keep : least <= l
    <3>1. \E m \in keep : \A l \in keep : m <= l
      <4>1. keep \subseteq Nat
        BY <1>6
      <4> QED BY <1>8, <4>1, LeastElement
    <3> QED BY <3>1
  <2> HIDE DEF least
  <2>2. least \in 1..Len(ranges)
    BY <1>6, <2>1
  <2>3. \A k \in 1..Len(ranges) : k < least <=> ranges[k][2] < e
    <3>1. ASSUME NEW k \in 1..Len(ranges) PROVE k < least <=> ranges[k][2] < e
      <4>1. ranges[least][2] >= e /\ (k \in keep <=> ranges[k][2] >= e)
        BY <1>3, <2>1, <2>2
      <4>2. ranges[k][2] \in Nat /\ ranges[least][2] \in Nat
        BY <1>2, <2>2
      <4>3. k = least \/ (k < least /\ k \notin keep) \/ (least < k /\ ranges[least][2] < ranges[k][2])
        BY <1>2, <1>4, <2>1, <2>2
      <4> QED BY ONLY <2>2, <4>1, <4>2, <4>3, <1>1, SMTT(30)
    <3> QED BY <3>1
  <2>4. /\ left \in Seq((1..out) \X (1..out)) /\ Len(left) = Len(ranges) - least + 1
        /\ \A i \in 1..Len(ranges) - least + 1 : left[i] = ranges[least + i - 1]
    <3>1. \A i \in least..Len(ranges) : ranges[i] \in (1..out) \X (1..out)
      BY <1>2, <2>2
    <3>2. least \in Int /\ Len(ranges) \in Int /\ least <= Len(ranges)
      BY <1>2, <2>2
    <3>3. left = SubSeq(ranges, least, Len(ranges))
      BY <1>5, <1>8
    <3> QED BY <3>1, <3>2, <3>3, SubSeqProperties
  <2>5. /\ least \in 1..Len(ranges) + 1 /\ Len(left) = Len(ranges) + 1 - least
        /\ \A i \in 1..Len(left) : left[i] = ranges[least + i - 1]
    BY <1>2, <2>2, <2>4
  <2> QED BY <2>3, <2>4, <2>5 DEF left
<1> QED BY <1>7, <1>8
-----------------------------------------------------------------------------
(* The invariant.                                                          *)

LEMMA RangesInit == EnterLeaveInit => RangesInv
<1> SUFFICES ASSUME EnterLeaveInit PROVE RangesInv
  OBVIOUS
<1>1. NumbersInv
  BY EnterLeaveAssumption DEF EnterLeaveInit, NumbersInv
<1>2. RangesInOrder
  <2>1. ranges \in Seq((1..out) \X (1..out)) /\ 1..Len(ranges) = {} /\ brackets = {}
    BY DEF EnterLeaveInit
  <2> QED BY <2>1 DEF RangesInOrder
<1>3. EventsInOrder
  <2>1. events \in Seq(seen..done) /\ 1..Len(events) = {}
    BY DEF EnterLeaveInit
  <2> QED BY <2>1 DEF EventsInOrder
<1>4. ignored \in BOOLEAN /\ IgnoredIfInside
  BY DEF EnterLeaveInit, IgnoredIfInside
<1> QED BY <1>1, <1>2, <1>3, <1>4 DEF RangesInv

\* Later requests do not disturb the ranges.
LEMMA RangesStay ==
    ASSUME RangesInv, NumbersInv', out <= out', UNCHANGED <<ranges, brackets, seen>>,
           begin' = begin \/ (begin = 0 /\ out < begin')
    PROVE  RangesInOrder'
<1>1. out \in Nat /\ out' \in Nat /\ (1..out) \X (1..out) \subseteq (1..out') \X (1..out')
  BY DEF RangesInv, NumbersInv
<1>2. ranges' \in Seq((1..out') \X (1..out'))
  BY <1>1, SeqMonotonic DEF RangesInv, RangesInOrder
<1>3. ASSUME NEW k \in 1..Len(ranges)
      PROVE  /\ ranges[k][1] < ranges[k][2] /\ ranges[k][2] < out' /\ seen <= ranges[k][2]
             /\ ranges[k][1] \div Modulus = ranges[k][2] \div Modulus
             /\ begin' # 0 => ranges[k][2] < begin'
  <2>1. ranges[k] \in (1..out) \X (1..out)
    BY ElementOfSeq DEF RangesInv, RangesInOrder
  <2>2. begin' \in Nat /\ begin \in Nat
    BY <1>1 DEF RangesInv, NumbersInv
  <2> QED BY <1>1, <2>1, <2>2 DEF RangesInv, RangesInOrder
<1>4. /\ \A k, l \in 1..Len(ranges) : k < l => ranges[k][2] < ranges[l][1]
      /\ brackets = {ranges[k] : k \in 1..Len(ranges)}
  BY DEF RangesInv, RangesInOrder
<1> QED BY <1>2, <1>3, <1>4 DEF RangesInOrder

LEMMA RequestKeeps == ASSUME NumbersAreAhead, RangesInv, Request PROVE RangesInv'
<1>1. out \in Nat /\ out < Following(out) /\ out' = Following(out) /\ out' \in Nat
  BY FollowingIsNext DEF RangesInv, NumbersInv, Request
<1>2. NumbersInv'
  BY <1>1, EnterLeaveAssumption DEF RangesInv, NumbersInv, Request, Fits
<1>3. RangesInOrder'
  BY <1>1, <1>2, RangesStay DEF Request
<1> QED BY <1>2, <1>3 DEF RangesInv, Request, EventsInOrder, IgnoredIfInside

LEMMA IgnoreKeeps == ASSUME NumbersAreAhead, RangesInv, Ignore PROVE RangesInv'
<1>1. out \in Nat /\ out < Following(out) /\ out' = Following(out) /\ out' \in Nat
  BY FollowingIsNext DEF RangesInv, NumbersInv, Ignore
<1>2. NumbersInv'
  BY <1>1, EnterLeaveAssumption DEF RangesInv, NumbersInv, Ignore, Fits
<1>3. RangesInOrder'
  BY <1>1, <1>2, RangesStay DEF Ignore
<1> QED BY <1>2, <1>3 DEF RangesInv, Ignore, EventsInOrder, IgnoredIfInside

LEMMA RestoreKeeps == ASSUME NumbersAreAhead, RangesInv, Restore PROVE RangesInv'
<1> DEFINE end == Following(out)
           new == <<begin, end>>
<1>1. /\ out \in Nat /\ begin \in 1..out /\ end \in Nat /\ out < end
      /\ out' = Following(end) /\ out' \in Nat /\ end < out'
      /\ ranges' = Append(ranges, new) /\ brackets' = brackets \cup {new} /\ begin' = 0
      /\ end \div Modulus = begin \div Modulus
      /\ seen \in Nat /\ seen < begin /\ seen' = seen
  <2>1. out \in Nat /\ begin \in 1..out /\ seen \in Nat /\ seen < begin
    BY DEF RangesInv, NumbersInv, Restore
  <2> QED BY <2>1, FollowingIsNext DEF Restore, NumbersAreAhead
<1>2. NumbersInv'
  BY <1>1, EnterLeaveAssumption DEF RangesInv, NumbersInv, Restore, Fits
<1> HIDE DEF end
<1>3. RangesInOrder'
  <2>1. (1..out) \X (1..out) \subseteq (1..out') \X (1..out')
    BY <1>1
  <2>2. ranges \in Seq((1..out') \X (1..out')) /\ new \in (1..out') \X (1..out')
    BY <1>1, <2>1, SeqMonotonic DEF RangesInv, RangesInOrder
  <2>3. /\ ranges' \in Seq((1..out') \X (1..out'))
        /\ Len(ranges') = Len(ranges) + 1 /\ Len(ranges) \in Nat
        /\ ranges'[Len(ranges) + 1] = new
        /\ \A k \in 1..Len(ranges) : ranges'[k] = ranges[k]
    BY <1>1, <2>2, AppendProperties, LenProperties
  <2>4. ASSUME NEW k \in 1..Len(ranges)
        PROVE  /\ ranges[k][1] \in Nat /\ ranges[k][2] \in Nat
               /\ ranges[k][1] < ranges[k][2] /\ seen <= ranges[k][2]
               /\ ranges[k][1] \div Modulus = ranges[k][2] \div Modulus
               /\ ranges[k][2] < begin
    <3>1. ranges[k] \in (1..out) \X (1..out)
      BY ElementOfSeq DEF RangesInv, RangesInOrder
    <3>2. ranges[k][1] \in Nat /\ ranges[k][2] \in Nat
      BY <1>1, <3>1
    <3>3. /\ ranges[k][1] < ranges[k][2] /\ seen <= ranges[k][2]
          /\ ranges[k][1] \div Modulus = ranges[k][2] \div Modulus
          /\ (begin # 0 => ranges[k][2] < begin)
      BY DEF RangesInv, RangesInOrder
    <3> QED BY <1>1, <3>2, <3>3
  <2>5. ASSUME NEW k \in 1..Len(ranges')
        PROVE  /\ ranges'[k][1] < ranges'[k][2] /\ ranges'[k][2] < out' /\ seen' <= ranges'[k][2]
               /\ ranges'[k][1] \div Modulus = ranges'[k][2] \div Modulus
               /\ begin' # 0 => ranges'[k][2] < begin'
    <3>1. CASE k \in 1..Len(ranges)
      BY <1>1, <2>3, <2>4, <3>1
    <3>2. CASE k = Len(ranges) + 1
      BY <1>1, <2>3, <3>2
    <3> QED BY <2>3, <3>1, <3>2
  <2>6. ASSUME NEW k \in 1..Len(ranges'), NEW l \in 1..Len(ranges'), k < l
        PROVE  ranges'[k][2] < ranges'[l][1]
    <3>1. k \in 1..Len(ranges) /\ ranges'[k] = ranges[k]
      <4>1. Len(ranges) \in Nat /\ Len(ranges') = Len(ranges) + 1
        BY <2>3
      <4>2. k \in 1..Len(ranges)
        BY <2>6, <4>1
      <4> QED BY <2>3, <4>2
    <3>2. CASE l \in 1..Len(ranges)
      BY <2>3, <2>6, <3>1, <3>2 DEF RangesInv, RangesInOrder
    <3>3. CASE l = Len(ranges) + 1
      BY <1>1, <2>3, <2>4, <3>1, <3>3
    <3> QED BY <2>3, <3>2, <3>3
  <2>7. brackets' = {ranges'[k] : k \in 1..Len(ranges')}
    <3>1. brackets = {ranges[k] : k \in 1..Len(ranges)}
      BY DEF RangesInv, RangesInOrder
    <3>2. 1..Len(ranges') = (1..Len(ranges)) \cup {Len(ranges) + 1}
      BY <2>3
    <3> HIDE DEF new
    <3>3. ASSUME NEW r \in brackets' PROVE \E k \in 1..Len(ranges') : r = ranges'[k]
      <4>1. CASE r = new
        BY <2>3, <3>2, <4>1
      <4>2. CASE r # new
        BY <1>1, <2>3, <3>1, <3>2, <4>2
      <4> QED BY <4>1, <4>2
    <3>4. ASSUME NEW k \in 1..Len(ranges') PROVE ranges'[k] \in brackets'
      <4>1. CASE k = Len(ranges) + 1
        BY <1>1, <2>3, <4>1
      <4>2. CASE k \in 1..Len(ranges)
        BY <1>1, <2>3, <3>1, <4>2
      <4> QED BY <3>2, <4>1, <4>2
    <3> QED BY <3>3, <3>4
  <2> QED BY <2>3, <2>5, <2>6, <2>7 DEF RangesInOrder
<1>4. EventsInOrder'
  BY DEF RangesInv, EventsInOrder, Restore
<1>5. IgnoredIfInside'
  <2>1. ~(new[1] <= seen)
    BY <1>1
  <2>2. ignored' = ignored /\ (ignored <=> \E r \in brackets : r[1] <= seen /\ seen <= r[2])
    BY DEF RangesInv, IgnoredIfInside, Restore
  <2> HIDE DEF new
  <2> QED BY <1>1, <2>1, <2>2 DEF IgnoredIfInside
<1> QED BY <1>2, <1>3, <1>4, <1>5 DEF RangesInv, Restore

\* A sequence whose elements are in T is one over T.
LEMMA SequenceOver ==
    ASSUME NEW S, NEW T, NEW q \in Seq(S), \A i \in 1..Len(q) : q[i] \in T PROVE q \in Seq(T)
<1>1. Len(q) \in Nat /\ q \in [1..Len(q) -> S]
  BY LenProperties
<1>2. q \in [1..Len(q) -> T]
  BY <1>1
<1> QED BY <1>1, <1>2, SeqDef

\* An event that is caused now is not earlier than those that were.
LEMMA LaterEventIsLast ==
    ASSUME EventsInOrder, NEW d \in Nat, done \in Nat, done <= d, seen \in Nat, seen <= done,
           seen' = seen, done' = d, events' = Append(events, d)
    PROVE  EventsInOrder'
<1>1. events \in Seq(seen..d) /\ d \in seen..d
  BY SeqMonotonic DEF EventsInOrder
<1>2. /\ events' \in Seq(seen'..done')
      /\ Len(events') = Len(events) + 1 /\ Len(events) \in Nat /\ events'[Len(events) + 1] = d
      /\ \A i \in 1..Len(events) : events'[i] = events[i] /\ events[i] \in seen..d
  BY <1>1, AppendProperties, LenProperties, ElementOfSeq
<1>3. ASSUME NEW i \in 1..Len(events'), NEW j \in 1..Len(events'), i <= j
      PROVE  events'[i] <= events'[j]
  <2>1. CASE j \in 1..Len(events)
    BY <1>2, <1>3, <2>1 DEF EventsInOrder
  <2>2. CASE j = Len(events) + 1 /\ i \in 1..Len(events)
    BY <1>2, <2>2
  <2>3. CASE j = Len(events) + 1 /\ i = Len(events) + 1
    BY <1>2, <2>3
  <2> QED BY <1>2, <1>3, <2>1, <2>2, <2>3
<1> QED BY <1>2, <1>3 DEF EventsInOrder

LEMMA ExecuteKeeps == ASSUME NumbersAreAhead, RangesInv, Execute PROVE RangesInv'
<1>1. /\ done \in Nat /\ seen \in Nat /\ seen <= done /\ done' = done + 1 /\ seen' = seen
      /\ seen..done \subseteq seen..done' /\ done' \in seen..done'
  BY DEF RangesInv, NumbersInv, Execute
<1>2. NumbersInv'
  BY <1>1 DEF RangesInv, NumbersInv, Execute
<1>3. RangesInOrder'
  BY DEF RangesInv, RangesInOrder, Execute
<1>4. events \in Seq(seen'..done')
  BY <1>1, SeqMonotonic DEF RangesInv, EventsInOrder
<1>5. EventsInOrder'
  <2>1. CASE events' = events
    BY <1>1, <1>4, <2>1 DEF RangesInv, EventsInOrder
  <2>2. CASE events' = Append(events, done')
    BY <1>1, <1>4, <2>2, LaterEventIsLast DEF RangesInv
  <2> QED BY <1>1, <2>1, <2>2 DEF Execute
<1> QED BY <1>2, <1>3, <1>5 DEF RangesInv, Execute, IgnoredIfInside

LEMMA UserCrossesKeeps == ASSUME NumbersAreAhead, RangesInv, UserCrosses PROVE RangesInv'
<1>1. /\ done \in Nat /\ seen \in Nat /\ seen <= done /\ done' = done /\ seen' = seen
      /\ done' \in seen'..done' /\ events' = Append(events, done')
  BY DEF RangesInv, NumbersInv, UserCrosses
<1>2. EventsInOrder'
  BY <1>1, LaterEventIsLast DEF RangesInv, EventsInOrder
<1> QED BY <1>2 DEF RangesInv, NumbersInv, RangesInOrder, UserCrosses, IgnoredIfInside
LEMMA HandleEventKeeps == ASSUME NumbersAreAhead, RangesInv, HandleEvent PROVE RangesInv'
<1> DEFINE e == Head(events)
           left == Pruned(Seq32(e))
<1>1. /\ out \in Nat /\ done \in 0..out /\ seen \in 0..done /\ out <= seen + MaxBehind
      /\ Modulus \in Nat /\ Modulus > 1 /\ MaxBehind \in Nat /\ MaxBehind <= (Modulus - 1) \div 2
  BY EnterLeaveAssumption DEF RangesInv, NumbersInv, NumbersAreAhead
<1>2. events \in Seq(seen..done) /\ events # <<>>
  BY DEF RangesInv, EventsInOrder, HandleEvent
<1>3. /\ e \in seen..done /\ e = events[1] /\ Len(events) \in Nat /\ Len(events) >= 1
      /\ Tail(events) \in Seq(seen..done) /\ Len(Tail(events)) = Len(events) - 1
      /\ \A i \in 1..Len(Tail(events)) : Tail(events)[i] = events[i + 1]
  <2>1. Len(events) \in Nat /\ Len(events) # 0 /\ Head(events) = events[1]
    BY <1>2, EmptySeq, LenProperties, HeadTailProperties
  <2>2. Len(events) >= 1 /\ events[1] \in seen..done
    <3>1. Len(events) >= 1 /\ 1 \in 1..Len(events)
      BY <2>1
    <3> QED BY <1>2, <3>1, ElementOfSeq
  <2> QED BY <1>2, <2>1, <2>2, HeadTailProperties
<1>4. /\ begin = 0 /\ begin' = 0 /\ out' = out /\ done' = done /\ seen' = e
      /\ events' = Tail(events) /\ ranges' = left
      /\ brackets' = {r \in brackets : r[2] >= e}
      /\ ignored' = (/\ left # <<>>
                     /\ Seq32(left[1][1]) <= Seq32(e) /\ Seq32(e) <= Seq32(left[1][2]))
  BY DEF HandleEvent
<1>5. PICK m \in 1..Len(ranges) + 1 :
              /\ \A k \in 1..Len(ranges) : k < m <=> ranges[k][2] < e
              /\ left \in Seq((1..out) \X (1..out))
              /\ Len(left) = Len(ranges) + 1 - m
              /\ \A i \in 1..Len(left) : left[i] = ranges[m + i - 1]
  BY <1>3, PrunedIsSuffix
<1> HIDE DEF e, left
<1>6. Len(ranges) \in Nat /\ Len(left) \in Nat
  BY LenProperties, <1>5 DEF RangesInv, RangesInOrder
<1>7. ASSUME NEW k \in 1..Len(ranges)
      PROVE  /\ ranges[k][1] \in Nat /\ ranges[k][2] \in Nat
             /\ ranges[k][1] < ranges[k][2] /\ ranges[k][2] < out
             /\ ranges[k][1] \div Modulus = ranges[k][2] \div Modulus
             /\ (k < m <=> ranges[k][2] < e)
  <2>1. ranges[k] \in (1..out) \X (1..out)
    BY ElementOfSeq DEF RangesInv, RangesInOrder
  <2>2. /\ ranges[k][1] < ranges[k][2] /\ ranges[k][2] < out
        /\ ranges[k][1] \div Modulus = ranges[k][2] \div Modulus
    BY DEF RangesInv, RangesInOrder
  <2>3. ranges[k][1] \in Nat /\ ranges[k][2] \in Nat
    BY <1>1, <2>1
  <2>4. k < m <=> ranges[k][2] < e
    BY <1>5
  <2> QED BY <2>2, <2>3, <2>4
<1>8. ASSUME NEW i \in 1..Len(left)
      PROVE  m + i - 1 \in 1..Len(ranges) /\ ~(m + i - 1 < m) /\ left[i] = ranges[m + i - 1]
  <2>1. m + i - 1 \in 1..Len(ranges) /\ ~(m + i - 1 < m)
    BY <1>5, <1>6
  <2> QED BY <1>5, <2>1
<1>9. NumbersInv'
  BY <1>1, <1>3, <1>4 DEF RangesInv, NumbersInv
<1>10. EventsInOrder'
  <2>1. Tail(events) \in Seq(e..done)
    <3>1. ASSUME NEW i \in 1..Len(Tail(events)) PROVE Tail(events)[i] \in e..done
      <4>1. i + 1 \in 1..Len(events) /\ 1 \in 1..Len(events) /\ 1 <= i + 1 /\ Tail(events)[i] = events[i + 1]
        BY <1>3
      <4>2. events[1] <= events[i + 1] /\ events[i + 1] \in seen..done
        BY <1>2, <4>1, ElementOfSeq DEF RangesInv, EventsInOrder
      <4> QED BY <1>1, <1>3, <4>1, <4>2
    <3> QED BY <1>3, <3>1, SequenceOver
  <2>2. ASSUME NEW i \in 1..Len(Tail(events)), NEW j \in 1..Len(Tail(events)), i <= j
        PROVE  Tail(events)[i] <= Tail(events)[j]
    <3>1. i + 1 \in 1..Len(events) /\ j + 1 \in 1..Len(events) /\ i + 1 <= j + 1
      BY <1>3, <2>2
    <3> QED BY <1>3, <3>1 DEF RangesInv, EventsInOrder
  <2> QED BY <1>4, <2>1, <2>2 DEF EventsInOrder
<1>11. brackets' = {left[i] : i \in 1..Len(left)}
  <2>1. brackets = {ranges[k] : k \in 1..Len(ranges)}
    BY DEF RangesInv, RangesInOrder
  <2>2. ASSUME NEW r \in brackets, r[2] >= e PROVE \E i \in 1..Len(left) : r = left[i]
    <3>1. PICK k \in 1..Len(ranges) : r = ranges[k]
      BY <2>1
    <3>2. k >= m /\ k - m + 1 \in 1..Len(left) /\ m + (k - m + 1) - 1 = k
      <4>1. ranges[k][2] \in Nat /\ ranges[k][2] >= e /\ e \in Nat /\ (k < m <=> ranges[k][2] < e)
        BY <1>1, <1>3, <1>7, <2>2, <3>1
      <4>2. k >= m
        BY <4>1
      <4>3. Len(left) = Len(ranges) + 1 - m
        BY <1>5
      <4> QED BY <1>6, <4>2, <4>3
    <3>3. left[k - m + 1] = ranges[k]
      BY <1>8, <3>2
    <3> QED BY <3>1, <3>2, <3>3
  <2>3. ASSUME NEW i \in 1..Len(left) PROVE left[i] \in brackets /\ left[i][2] >= e
    <3>1. m + i - 1 \in 1..Len(ranges) /\ ~(m + i - 1 < m) /\ left[i] = ranges[m + i - 1]
      BY <1>8
    <3>2. ~(ranges[m + i - 1][2] < e) /\ ranges[m + i - 1][2] \in Nat /\ e \in Nat
      BY <1>1, <1>3, <1>7, <3>1, SMTT(30)
    <3> QED BY <2>1, <3>1, <3>2
  <2> QED BY <1>4, <2>2, <2>3
<1>12. RangesInOrder'
  <2>1. ASSUME NEW i \in 1..Len(left)
        PROVE  /\ left[i][1] < left[i][2] /\ left[i][2] < out /\ e <= left[i][2]
               /\ left[i][1] \div Modulus = left[i][2] \div Modulus
    <3>1. m + i - 1 \in 1..Len(ranges) /\ ~(m + i - 1 < m) /\ left[i] = ranges[m + i - 1]
      BY <1>8
    <3>2. e \in Nat
      BY <1>1, <1>3
    <3> QED BY <1>7, <3>1, <3>2
  <2>2. ASSUME NEW i \in 1..Len(left), NEW j \in 1..Len(left), i < j
        PROVE  left[i][2] < left[j][1]
    <3>1. m + i - 1 \in 1..Len(ranges) /\ left[i] = ranges[m + i - 1]
      BY <1>8
    <3>2. m + j - 1 \in 1..Len(ranges) /\ left[j] = ranges[m + j - 1]
      BY <1>8
    <3>3. m + i - 1 < m + j - 1
      BY <1>6, <2>2
    <3> QED BY <3>1, <3>2, <3>3 DEF RangesInv, RangesInOrder
  <2> QED BY <1>4, <1>5, <1>11, <2>1, <2>2 DEF RangesInOrder
<1>13. ignored' <=> \E r \in brackets' : r[1] <= e /\ e <= r[2]
  <2>1. CASE Len(left) = 0
    <3>1. left = <<>> /\ 1..Len(left) = {}
      BY <1>5, <2>1, EmptySeq
    <3> QED BY <1>4, <1>11, <3>1
  <2>2. CASE Len(left) # 0
    <3>1. left # <<>> /\ 1 \in 1..Len(left)
      BY <1>6, <2>2
    <3>2. /\ m \in 1..Len(ranges) /\ left[1] = ranges[m] /\ ~(ranges[m][2] < e)
      <4>1. m + 1 - 1 = m /\ m \in 1..Len(ranges) /\ ~(m < m)
        BY <1>5, <1>6, <1>8, <3>1
      <4> QED BY <1>7, <1>8, <3>1, <4>1
    <3>3. /\ left[1][1] \in Nat /\ left[1][2] \in Nat /\ e \in Nat /\ left[1][1] < left[1][2]
          /\ e <= left[1][2] /\ left[1][2] - e < Modulus
          /\ left[1][1] \div Modulus = left[1][2] \div Modulus
      <4>1. /\ ranges[m][1] \in Nat /\ ranges[m][2] \in Nat /\ ranges[m][1] < ranges[m][2]
            /\ ranges[m][2] < out /\ ranges[m][1] \div Modulus = ranges[m][2] \div Modulus
        BY <1>7, <3>2
      <4> QED BY <1>1, <1>3, <3>2, <4>1, SMTT(30)
    <3>4. ignored' <=> left[1][1] <= e
      <4> DEFINE b == left[1][1]
                 t == left[1][2]
      <4>1. b \in Nat /\ t \in Nat /\ b <= t
        BY <3>3
      <4> HIDE DEF b, t
      <4>2. (Seq32(b) <= Seq32(e) /\ Seq32(e) <= Seq32(t)) <=> b <= e
        BY <3>3, <4>1, InsideByNumbers DEF b, t
      <4> QED BY <1>4, <3>1, <4>2 DEF b, t
    <3>5. ASSUME NEW r \in brackets', r[1] <= e PROVE left[1][1] <= e
      <4>1. PICK i \in 1..Len(left) : r = left[i]
        BY <1>11
      <4>2. CASE i = 1
        BY <3>5, <4>1, <4>2
      <4>3. CASE i # 1
        <5>1. left[1][2] < left[i][1]
          BY <1>4, <3>1, <4>3, <1>12, <1>6 DEF RangesInOrder
        <5>2. m + i - 1 \in 1..Len(ranges) /\ left[i] = ranges[m + i - 1]
          BY <1>8
        <5>3. left[i][1] \in Nat
          BY <1>7, <5>2
        <5> QED BY <3>3, <3>5, <4>1, <5>1, <5>3
      <4> QED BY <4>2, <4>3
    <3>6. left[1] \in brackets'
      BY <1>11, <3>1
    <3> QED BY <3>3, <3>4, <3>5, <3>6
  <2> QED BY <2>1, <2>2
<1>14. ignored' \in BOOLEAN
  BY <1>4
<1> QED BY <1>4, <1>9, <1>10, <1>12, <1>13, <1>14 DEF RangesInv, IgnoredIfInside

-----------------------------------------------------------------------------

LEMMA RangesNext == ASSUME NumbersAreAhead, RangesInv, [EnterLeaveNext]_enterLeaveVars PROVE RangesInv'
<1>1. CASE Request       BY <1>1, RequestKeeps
<1>2. CASE Ignore        BY <1>2, IgnoreKeeps
<1>3. CASE Restore       BY <1>3, RestoreKeeps
<1>4. CASE HandleEvent   BY <1>4, HandleEventKeeps
<1>5. CASE Execute       BY <1>5, ExecuteKeeps
<1>6. CASE UserCrosses   BY <1>6, UserCrossesKeeps
<1>7. CASE UNCHANGED enterLeaveVars
  BY <1>7 DEF enterLeaveVars, RangesInv, NumbersInv, RangesInOrder, EventsInOrder, IgnoredIfInside
<1> QED BY <1>1, <1>2, <1>3, <1>4, <1>5, <1>6, <1>7 DEF EnterLeaveNext

LEMMA RangesImply == RangesInv => EnterLeaveInv
<1> SUFFICES ASSUME RangesInv PROVE EnterLeaveInv
  OBVIOUS
<1>1. DOMAIN ranges = 1..Len(ranges) /\ out \in Nat
  BY LenProperties DEF RangesInv, NumbersInv, RangesInOrder
<1>2. ASSUME NEW r \in brackets PROVE r[1] < r[2] /\ r[2] <= out /\ (begin # 0 => r[2] < begin)
  <2>1. PICK k \in 1..Len(ranges) : r = ranges[k]
    BY DEF RangesInv, RangesInOrder
  <2>2. ranges[k] \in (1..out) \X (1..out)
    BY ElementOfSeq DEF RangesInv, RangesInOrder
  <2> QED BY <1>1, <2>1, <2>2 DEF RangesInv, RangesInOrder
<1>3. EnterLeaveTypeOK
  BY <1>2 DEF RangesInv, NumbersInv, RangesInOrder, EventsInOrder, EnterLeaveTypeOK
<1>4. RangesArePruned
  BY <1>1 DEF RangesInv, RangesInOrder, RangesArePruned
<1> QED BY <1>3, <1>4 DEF RangesInv, EnterLeaveInv

\* EnterLeaveInv: exactly the crossing events that are caused within a bracket are ignored, and the
\* ranges do not pile up, for any number of requests and brackets.
THEOREM CrossingsAreTold ==
    ASSUME NumbersAreAhead PROVE EnterLeaveSpec => []EnterLeaveInv
<1>1. EnterLeaveInit => RangesInv
  BY RangesInit
<1>2. RangesInv /\ [EnterLeaveNext]_enterLeaveVars => RangesInv'
  BY RangesNext
<1>3. RangesInv => EnterLeaveInv
  BY RangesImply
<1> QED BY <1>1, <1>2, <1>3, PTL DEF EnterLeaveSpec

-----------------------------------------------------------------------------
(* Keyboard.                                                               *)

XkbEvent == [kind : {"map", "new keyboard", "state"}, group : Group]

\* Events that are still to be handled.
MapComes == \E i \in 1..Len(keyEvents) : keyEvents[i].kind \in {"map", "new keyboard"}
StateComes == \E i \in 1..Len(keyEvents) : keyEvents[i].kind = "state"

\* A refresh is to come that does what flag says.
ToCome(flag) == depth = "loop" /\ updatePending /\ flag \in todo

KeyEventsInv ==
    /\ keyEvents \in Seq(XkbEvent)
    /\ "map" \in todo => "reload" \in todo
    /\ \A i \in 1..Len(keyEvents) :
          keyEvents[i].kind = "state" /\ (\A j \in 1..Len(keyEvents) : j > i => keyEvents[j].kind # "state")
          => keyEvents[i].group = group

\* The grabs are always those of the layout that awesome knows, except where a key object was
\* changed; who is not managed has none.
GrabsInv ==
    /\ \A l \in BindingLists : \A w \in WindowsOf(l, nofocus) \ unregrabbed :
          grabs[w] = Grabs(keys[l], keysyms)
    /\ \A c \in KeyClient \ managedClients : keys[<<"client", c>>] = {} /\ grabs[<<"window", c>>] = {}

\* What awesome and Lua code know is right, or will be after the events and the refresh
\* that are to come.
LayoutInv ==
    /\ keysyms = keymap \/ MapComes \/ ToCome("reload")
    /\ toldMap = keymap \/ MapComes \/ ToCome("map")
    /\ toldGroup = group \/ StateComes \/ ToCome("group")

GroupInv == xkbGroup = group \/ StateComes

KeyboardIInv == KeyboardTypeOK /\ KeyEventsInv /\ GrabsInv /\ GroupInv /\ (~nested => LayoutInv)
-----------------------------------------------------------------------------
(* The queue of events.                                                    *)

LEMMA AppendedEvent ==
    ASSUME KeyEventsInv, NEW e \in XkbEvent, keyEvents' = Append(keyEvents, e)
    PROVE  /\ keyEvents' \in Seq(XkbEvent)
           /\ MapComes' <=> MapComes \/ e.kind \in {"map", "new keyboard"}
           /\ StateComes' <=> StateComes \/ e.kind = "state"
           /\ (e.kind = "state" => e.group = group') /\ (e.kind # "state" => group' = group)
              => \A i \in 1..Len(keyEvents') :
                    keyEvents'[i].kind = "state"
                    /\ (\A j \in 1..Len(keyEvents') : j > i => keyEvents'[j].kind # "state")
                    => keyEvents'[i].group = group'
<1> PICK n : n = Len(keyEvents)
  OBVIOUS
<1>1. /\ n \in Nat /\ keyEvents' \in Seq(XkbEvent) /\ Len(keyEvents') = n + 1
      /\ keyEvents'[n + 1] = e /\ \A i \in 1..n : keyEvents'[i] = keyEvents[i]
  <2> HIDE DEF XkbEvent
  <2> QED BY LenProperties, AppendProperties DEF KeyEventsInv
<1>2. 1..n + 1 = 1..n \cup {n + 1}
  BY <1>1
<1>3. MapComes' <=> MapComes \/ e.kind \in {"map", "new keyboard"}
  BY <1>1, <1>2 DEF MapComes
<1>4. StateComes' <=> StateComes \/ e.kind = "state"
  BY <1>1, <1>2 DEF StateComes
<1>5. ASSUME e.kind = "state" => e.group = group', e.kind # "state" => group' = group,
             NEW i \in 1..n + 1, keyEvents'[i].kind = "state",
             \A j \in 1..n + 1 : j > i => keyEvents'[j].kind # "state"
      PROVE  keyEvents'[i].group = group'
  <2>1. CASE i = n + 1
    BY <1>1, <1>5, <2>1
  <2>2. CASE i \in 1..n
    <3>1. e.kind # "state"
      <4>1. n + 1 > i /\ n + 1 \in 1..n + 1
        BY <1>1, <2>2
      <4> QED BY <1>1, <1>5, <4>1
    <3>2. \A j \in 1..n : j > i => keyEvents[j].kind # "state"
      BY <1>1, <1>2, <1>5
    <3>3. keyEvents[i].kind = "state"
      BY <1>1, <1>5, <2>2
    <3>4. keyEvents[i].group = group
      BY <2>2, <3>2, <3>3 DEF KeyEventsInv
    <3> QED BY <1>1, <1>5, <2>2, <3>1, <3>4
  <2> QED BY <1>2, <2>1, <2>2
<1> QED BY <1>1, <1>3, <1>4, <1>5

LEMMA HandledEvent ==
    ASSUME KeyEventsInv, NEW e, keyEvents # <<>>, e = Head(keyEvents),
           keyEvents' = Tail(keyEvents), group' = group
    PROVE  /\ e \in XkbEvent /\ keyEvents' \in Seq(XkbEvent)
           /\ MapComes <=> MapComes' \/ e.kind \in {"map", "new keyboard"}
           /\ StateComes <=> StateComes' \/ e.kind = "state"
           /\ e.kind = "state" => StateComes' \/ e.group = group
           /\ \A i \in 1..Len(keyEvents') :
                 keyEvents'[i].kind = "state"
                 /\ (\A j \in 1..Len(keyEvents') : j > i => keyEvents'[j].kind # "state")
                 => keyEvents'[i].group = group'
<1> PICK n : n = Len(keyEvents)
  OBVIOUS
<1>1. n \in Nat /\ n >= 1
  BY LenProperties, EmptySeq DEF KeyEventsInv
<1>2. /\ keyEvents' \in Seq(XkbEvent) /\ Len(keyEvents') = n - 1 /\ e \in XkbEvent
      /\ \A i \in 1..n - 1 : keyEvents'[i] = keyEvents[i + 1]
  <2> HIDE DEF XkbEvent
  <2> QED BY <1>1, HeadTailProperties DEF KeyEventsInv
<1>3. e = keyEvents[1] /\ 1 \in 1..n
  BY <1>1
<1>4. /\ \A i \in 1..n : i = 1 \/ (i - 1 \in 1..n - 1 /\ keyEvents'[i - 1] = keyEvents[i])
      /\ \A i \in 1..n - 1 : i + 1 \in 1..n
  BY <1>1, <1>2
<1>5. MapComes <=> MapComes' \/ e.kind \in {"map", "new keyboard"}
  <2>1. ASSUME MapComes PROVE MapComes' \/ e.kind \in {"map", "new keyboard"}
    BY <1>2, <1>3, <1>4, <2>1 DEF MapComes
  <2>2. ASSUME MapComes' PROVE MapComes
    <3>1. PICK i \in 1..n - 1 : keyEvents'[i].kind \in {"map", "new keyboard"}
      BY <1>2, <2>2 DEF MapComes
    <3> QED BY <1>2, <1>4, <3>1 DEF MapComes
  <2>3. ASSUME e.kind \in {"map", "new keyboard"} PROVE MapComes
    BY <1>3, <2>3 DEF MapComes
  <2> QED BY <2>1, <2>2, <2>3
<1>6. StateComes <=> StateComes' \/ e.kind = "state"
  BY <1>2, <1>3, <1>4 DEF StateComes
<1>7. ASSUME e.kind = "state", ~StateComes' PROVE e.group = group
  <2>1. ASSUME NEW j \in 1..n, j > 1 PROVE keyEvents[j].kind # "state"
    <3>1. j - 1 \in 1..Len(keyEvents') /\ keyEvents'[j - 1] = keyEvents[j]
      BY <1>2, <1>4, <2>1
    <3> QED BY <1>7, <3>1 DEF StateComes
  <2> QED BY <1>3, <1>7, <2>1 DEF KeyEventsInv
<1>8. ASSUME NEW i \in 1..n - 1, keyEvents'[i].kind = "state",
             \A j \in 1..n - 1 : j > i => keyEvents'[j].kind # "state"
      PROVE  keyEvents'[i].group = group'
  <2>1. i + 1 \in 1..n /\ keyEvents[i + 1].kind = "state"
    BY <1>1, <1>2, <1>8
  <2>2. ASSUME NEW j \in 1..n, j > i + 1 PROVE keyEvents[j].kind # "state"
    <3>1. j - 1 \in 1..n - 1 /\ j - 1 > i /\ keyEvents'[j - 1] = keyEvents[j]
      BY <1>1, <1>4, <2>2
    <3> QED BY <1>8, <3>1
  <2> QED BY <1>2, <1>8, <2>1, <2>2 DEF KeyEventsInv
<1> QED BY <1>2, <1>5, <1>6, <1>7, <1>8

-----------------------------------------------------------------------------
(* The windows of a list of bindings.                                      *)

LEMMA OwnWindows ==
    ASSUME NEW l \in KeyList, NEW m \in KeyList, NEW nf, NEW w,
           w \in WindowsOf(l, nf), w \in WindowsOf(m, nf)
    PROVE  l = m
<1>1. CASE l = Root
  BY <1>1 DEF WindowsOf, KeyList, Root
<1>2. CASE l # Root
  BY <1>2 DEF WindowsOf, KeyList, Root
<1> QED BY <1>1, <1>2

LEMMA WindowsKnown ==
    ASSUME KeyboardTypeOK
    PROVE  /\ BindingLists \subseteq KeyList
           /\ \A l \in KeyList : WindowsOf(l, nofocus) \subseteq KeyWindow
  BY DEF BindingLists, KeyList, WindowsOf, KeyWindow, KeyboardTypeOK, Root

LEMMA GrabbedCodes ==
    ASSUME KeyboardTypeOK, NEW objects \in SUBSET KeyObject, NEW table
    PROVE  Grabs(objects, table) \subseteq KeyGrab
<1>1. ASSUME NEW key \in Key PROVE KeyCodes(key, table) \subseteq Code
  BY KeymapsAssumption DEF KeyCodes, Key
<1>2. ASSUME NEW o \in objects PROVE {keyb[o].mods} \X KeyCodes(keyb[o].key, table) \subseteq KeyGrab
  BY <1>1 DEF KeyboardTypeOK, Binding, KeyGrab
<1> QED BY <1>2 DEF Grabs
LEMMA GrabsStay == ASSUME GrabsInv, UNCHANGED <<grabs, keysyms, bindingVars>> PROVE GrabsInv'
<1>1. UNCHANGED <<grabs, keysyms, keyb, keys, managedClients, nofocus, unregrabbed>>
  BY DEF bindingVars, clientVars
<1>2. BindingLists' = BindingLists
  BY <1>1 DEF BindingLists
<1> QED BY <1>1, <1>2 DEF GrabsInv, Grabs, KeyCodes

-----------------------------------------------------------------------------
(* The server's changes.                                                   *)

LEMMA ChangeKeymapKeeps == ASSUME KeyboardIInv, ChangeKeymap PROVE KeyboardIInv'
<1>1. PICK kind \in {"map", "new keyboard"} : keyEvents' = Append(keyEvents, [kind |-> kind, group |-> group])
  BY DEF ChangeKeymap
<1> DEFINE e == [kind |-> kind, group |-> group]
<1>2. e \in XkbEvent /\ e.kind = kind /\ KeyEventsInv
  BY DEF XkbEvent, KeyboardIInv, KeyboardTypeOK
<1>3. /\ keyEvents' \in Seq(XkbEvent) /\ MapComes'
      /\ StateComes' <=> StateComes \/ e.kind = "state"
      /\ (e.kind = "state" => e.group = group') /\ (e.kind # "state" => group' = group)
         => \A i \in 1..Len(keyEvents') :
               keyEvents'[i].kind = "state"
               /\ (\A j \in 1..Len(keyEvents') : j > i => keyEvents'[j].kind # "state")
               => keyEvents'[i].group = group'
  <2> HIDE DEF e
  <2>1. keyEvents' = Append(keyEvents, e)
    BY <1>1 DEF e
  <2> QED BY <1>2, <2>1, AppendedEvent
<1>4. UNCHANGED <<group, grabs, layoutVars, bindingVars, depth, toldVars>> /\ keymap' \in Keymaps
  BY DEF ChangeKeymap
<1>5. KeyboardTypeOK'
  BY <1>4 DEF KeyboardIInv, KeyboardTypeOK, layoutVars, bindingVars, clientVars, toldVars
<1>6. KeyEventsInv'
  BY <1>2, <1>3, <1>4 DEF KeyEventsInv, layoutVars
<1>7. GrabsInv'
  BY <1>4, GrabsStay DEF KeyboardIInv, layoutVars, bindingVars
<1>8. GroupInv'
  BY <1>3, <1>4 DEF KeyboardIInv, GroupInv, layoutVars
<1>9. ~nested' => LayoutInv'
  BY <1>3, <1>4 DEF KeyboardIInv, LayoutInv, ToCome, layoutVars, toldVars
<1> QED BY <1>5, <1>6, <1>7, <1>8, <1>9 DEF KeyboardIInv

LEMMA ChangeGroupKeeps == ASSUME KeyboardIInv, ChangeGroup PROVE KeyboardIInv'
<1> PICK e : e = [kind |-> "state", group |-> group']
  OBVIOUS
<1>1. group' \in Group /\ e \in XkbEvent /\ e.kind = "state" /\ e.group = group' /\ KeyEventsInv
  BY DEF ChangeGroup, XkbEvent, KeyboardIInv
<1>2. /\ keyEvents' \in Seq(XkbEvent) /\ (MapComes' <=> MapComes) /\ StateComes'
      /\ \A i \in 1..Len(keyEvents') :
               keyEvents'[i].kind = "state"
               /\ (\A j \in 1..Len(keyEvents') : j > i => keyEvents'[j].kind # "state")
               => keyEvents'[i].group = group'
  <2>1. keyEvents' = Append(keyEvents, e)
    BY DEF ChangeGroup
  <2> QED BY <1>1, <2>1, AppendedEvent
<1>3. UNCHANGED <<keymap, grabs, layoutVars, bindingVars, depth, toldVars>>
  BY DEF ChangeGroup
<1>4. KeyboardTypeOK'
  BY <1>1, <1>3 DEF KeyboardIInv, KeyboardTypeOK, layoutVars, bindingVars, clientVars, toldVars
<1>5. KeyEventsInv'
  BY <1>1, <1>2, <1>3 DEF KeyEventsInv, layoutVars
<1>6. GrabsInv'
  BY <1>3, GrabsStay DEF KeyboardIInv, layoutVars, bindingVars
<1>7. GroupInv' /\ (~nested' => LayoutInv')
  BY <1>2, <1>3 DEF KeyboardIInv, GroupInv, LayoutInv, ToCome, layoutVars, toldVars
<1> QED BY <1>4, <1>5, <1>6, <1>7 DEF KeyboardIInv

-----------------------------------------------------------------------------
(* Bindings and clients: only grabs are at stake.                          *)

LEMMA OnlyGrabs ==
    ASSUME KeyboardIInv, KeyboardTypeOK', GrabsInv',
           UNCHANGED <<keymap, group, keyEvents, layoutVars, depth, toldVars>>
    PROVE  KeyboardIInv'
<1>1. KeyEventsInv'
  BY DEF KeyboardIInv, KeyEventsInv, layoutVars
<1>2. GroupInv' /\ (~nested' => LayoutInv')
  BY DEF KeyboardIInv, GroupInv, LayoutInv, ToCome, MapComes, StateComes, layoutVars, toldVars
<1> QED BY <1>1, <1>2 DEF KeyboardIInv

LEMMA SetKeysKeeps ==
    ASSUME KeyboardIInv, NEW l \in KeyList, SetKeys(l) PROVE KeyboardIInv'
<1>1. PICK objects \in SUBSET KeyObject : keys' = [keys EXCEPT ![l] = objects]
  BY DEF SetKeys
<1> PICK new : new = Grabs(objects, keysyms)
  OBVIOUS
<1>2. /\ KeyboardTypeOK /\ unregrabbed' = unregrabbed \ WindowsOf(l, nofocus)
      /\ UNCHANGED <<keymap, group, keyEvents, layoutVars, keyb, clientVars, depth, toldVars>>
  BY DEF KeyboardIInv, SetKeys
<1>3. keys'[l] = objects /\ \A m \in KeyList \ {l} : keys'[m] = keys[m]
  BY <1>1, <1>2 DEF KeyboardTypeOK
<1>4. grabs' = [w \in KeyWindow |-> IF w \in WindowsOf(l, nofocus) THEN new ELSE grabs[w]]
  BY <1>3 DEF SetKeys
<1>5. new \subseteq KeyGrab
  BY <1>2, GrabbedCodes
<1>6. KeyboardTypeOK'
  <2>1. grabs' \in [KeyWindow -> SUBSET KeyGrab]
    BY <1>2, <1>4, <1>5 DEF KeyboardTypeOK
  <2>2. keys' \in [KeyList -> SUBSET KeyObject]
    BY <1>1, <1>2 DEF KeyboardTypeOK
  <2> QED BY <1>2, <2>1, <2>2 DEF KeyboardTypeOK, layoutVars, clientVars, toldVars
<1>7. ASSUME NEW m \in BindingLists, NEW w \in WindowsOf(m, nofocus) \ unregrabbed'
      PROVE  grabs'[w] = Grabs(keys'[m], keysyms)
  <2>1. m \in KeyList /\ w \in KeyWindow
    BY <1>2, WindowsKnown
  <2>2. CASE m = l
    BY <1>3, <1>4, <2>1, <2>2
  <2>3. CASE m # l
    <3>1. w \notin WindowsOf(l, nofocus)
      BY <2>1, <2>3, OwnWindows
    <3>2. grabs[w] = Grabs(keys[m], keysyms)
      BY <1>2, <3>1 DEF KeyboardIInv, GrabsInv
    <3> QED BY <1>3, <1>4, <2>1, <2>3, <3>1, <3>2
  <2> QED BY <2>2, <2>3
<1>8. ASSUME NEW c \in KeyClient \ managedClients
      PROVE  keys'[<<"client", c>>] = {} /\ grabs'[<<"window", c>>] = {}
  <2>1. l # <<"client", c>> /\ <<"client", c>> \in KeyList /\ <<"window", c>> \in KeyWindow
    BY DEF SetKeys, KeyList, KeyWindow, Root
  <2>2. <<"window", c>> \notin WindowsOf(l, nofocus)
    <3>1. <<"window", c>> \in WindowsOf(<<"client", c>>, nofocus)
      BY DEF WindowsOf, Root
    <3> QED BY <2>1, <3>1, OwnWindows
  <2>3. keys[<<"client", c>>] = {} /\ grabs[<<"window", c>>] = {}
    BY DEF KeyboardIInv, GrabsInv
  <2> QED BY <1>3, <1>4, <2>1, <2>2, <2>3
<1>9. GrabsInv'
  <2>1. keysyms' = keysyms /\ nofocus' = nofocus /\ managedClients' = managedClients /\ BindingLists' = BindingLists
    BY <1>2 DEF layoutVars, clientVars, BindingLists
  <2>2. ASSUME NEW m \in BindingLists, NEW w \in WindowsOf(m, nofocus) \ unregrabbed'
        PROVE  grabs'[w] = Grabs(keys[m], keysyms)'
    BY <1>2, <1>7, <2>1 DEF Grabs, KeyCodes
  <2> QED BY <1>8, <2>1, <2>2 DEF GrabsInv
<1> QED BY <1>2, <1>6, <1>9, OnlyGrabs

\* A key object is changed: the windows it is bound on are noted.
LEMMA SetKeyObjectKeeps ==
    ASSUME KeyboardIInv, NEW o \in KeyObject, NEW b \in Binding, SetKeyObject(o, b) PROVE KeyboardIInv'
<1>1. /\ KeyboardTypeOK /\ keyb' = [keyb EXCEPT ![o] = b]
      /\ unregrabbed' = unregrabbed \cup AllWindowsOf({l \in BindingLists : o \in keys[l]})
      /\ UNCHANGED <<keymap, group, grabs, keyEvents, layoutVars, keys, clientVars, depth, toldVars>>
  BY DEF KeyboardIInv, SetKeyObject, keyServerVars
<1>2. KeyboardTypeOK'
  <2>1. unregrabbed' \subseteq KeyWindow
    BY <1>1, WindowsKnown DEF AllWindowsOf, KeyboardTypeOK
  <2>2. keyb' \in [KeyObject -> Binding]
    BY <1>1 DEF KeyboardTypeOK
  <2> QED BY <1>1, <2>1, <2>2 DEF KeyboardTypeOK, layoutVars, clientVars, toldVars
<1>3. ASSUME NEW m \in BindingLists, NEW w \in WindowsOf(m, nofocus) \ unregrabbed'
      PROVE  grabs[w] = Grabs(keys[m], keysyms)'
  <2>1. o \notin keys[m]
    BY <1>1 DEF AllWindowsOf
  <2>2. grabs[w] = Grabs(keys[m], keysyms)
    BY <1>1 DEF KeyboardIInv, GrabsInv
  <2>3. keys[m] \subseteq KeyObject
    BY <1>1, WindowsKnown DEF KeyboardTypeOK
  <2>4. \A p \in keys[m] : keyb'[p] = keyb[p]
    BY <1>1, <2>1, <2>3 DEF KeyboardTypeOK
  <2>5. keysyms' = keysyms /\ keys' = keys
    BY <1>1 DEF layoutVars
  <2> QED BY <2>2, <2>4, <2>5 DEF Grabs, KeyCodes
<1>4. GrabsInv'
  <2>1. grabs' = grabs /\ keys' = keys /\ nofocus' = nofocus /\ managedClients' = managedClients /\ BindingLists' = BindingLists
    BY <1>1 DEF clientVars, BindingLists
  <2>2. \A c \in KeyClient \ managedClients : keys[<<"client", c>>] = {} /\ grabs[<<"window", c>>] = {}
    BY DEF KeyboardIInv, GrabsInv
  <2> QED BY <1>3, <2>1, <2>2 DEF GrabsInv
<1> QED BY <1>1, <1>2, <1>4, OnlyGrabs

LEMMA SettersKeep == ASSUME KeyboardIInv, NEW o \in KeyObject, SetKey(o) \/ SetModifiers(o) PROVE KeyboardIInv'
<1>1. keyb[o] \in Binding
  BY DEF KeyboardIInv, KeyboardTypeOK
<1>2. CASE SetKey(o)
  <2>1. PICK key \in Key : SetKeyObject(o, [keyb[o] EXCEPT !.key = key])
    BY <1>2 DEF SetKey
  <2>2. [keyb[o] EXCEPT !.key = key] \in Binding
    BY <1>1 DEF Binding
  <2> QED BY <2>1, <2>2, SetKeyObjectKeeps
<1>3. CASE SetModifiers(o)
  <2>1. PICK mods \in Modifiers : SetKeyObject(o, [keyb[o] EXCEPT !.mods = mods])
    BY <1>3 DEF SetModifiers
  <2>2. [keyb[o] EXCEPT !.mods = mods] \in Binding
    BY <1>1 DEF Binding
  <2> QED BY <2>1, <2>2, SetKeyObjectKeeps
<1> QED BY <1>2, <1>3

LEMMA NoGrabs == \A table : Grabs({}, table) = {}
  BY DEF Grabs

LEMMA ManageClientKeeps == ASSUME KeyboardIInv, NEW c \in KeyClient, ManageClient(c) PROVE KeyboardIInv'
<1>1. /\ KeyboardTypeOK /\ c \notin managedClients /\ managedClients' = managedClients \cup {c}
      /\ UNCHANGED <<keymap, group, grabs, keyEvents, layoutVars, keyb, keys, nofocus, unregrabbed, depth, toldVars>>
  BY DEF KeyboardIInv, ManageClient, keyServerVars
<1>2. KeyboardTypeOK'
  BY <1>1 DEF KeyboardTypeOK, layoutVars, toldVars
<1>3. ASSUME NEW m \in BindingLists', NEW w \in WindowsOf(m, nofocus) \ unregrabbed
      PROVE  grabs[w] = Grabs(keys[m], keysyms)
  <2>1. CASE m \in BindingLists
    BY <2>1 DEF KeyboardIInv, GrabsInv
  <2>2. CASE m = <<"client", c>>
    <3>1. w = <<"window", c>>
      BY <1>1, <2>2 DEF WindowsOf, KeyboardTypeOK, Root
    <3>2. keys[m] = {} /\ grabs[w] = {}
      BY <1>1, <2>2, <3>1 DEF KeyboardIInv, GrabsInv
    <3> QED BY <3>2, NoGrabs
  <2> QED BY <1>1, <2>1, <2>2 DEF BindingLists
<1>4. GrabsInv'
  <2>1. UNCHANGED <<keysyms, keyb, nofocus, keys, grabs, unregrabbed>>
    BY <1>1 DEF layoutVars
  <2>2. \A d \in KeyClient \ managedClients' : keys[<<"client", d>>] = {} /\ grabs[<<"window", d>>] = {}
    BY <1>1 DEF KeyboardIInv, GrabsInv
  <2> QED BY <1>3, <2>1, <2>2 DEF GrabsInv, Grabs, KeyCodes
<1> QED BY <1>1, <1>2, <1>4, OnlyGrabs

LEMMA UnmanageClientKeeps == ASSUME KeyboardIInv, NEW c \in KeyClient, UnmanageClient(c) PROVE KeyboardIInv'
<1>1. /\ KeyboardTypeOK /\ managedClients' = managedClients \ {c} /\ nofocus' = nofocus \ {c}
      /\ keys' = [keys EXCEPT ![<<"client", c>>] = {}]
      /\ grabs' = [grabs EXCEPT ![<<"window", c>>] = {}, ![<<"nofocus", c>>] = {}]
      /\ unregrabbed' = unregrabbed \ WindowsOf(<<"client", c>>, {c})
      /\ UNCHANGED <<keymap, group, keyEvents, layoutVars, keyb, depth, toldVars>>
  BY DEF KeyboardIInv, UnmanageClient
<1>2. KeyboardTypeOK'
  BY <1>1 DEF KeyboardTypeOK, layoutVars, toldVars
<1>3. <<"client", c>> \in KeyList /\ <<"window", c>> \in KeyWindow /\ <<"nofocus", c>> \in KeyWindow
  BY DEF KeyList, KeyWindow
<1>4. ASSUME NEW m \in BindingLists', NEW w \in WindowsOf(m, nofocus') \ unregrabbed'
      PROVE  grabs'[w] = Grabs(keys'[m], keysyms)
  <2>1. m \in BindingLists /\ m # <<"client", c>> /\ w \in WindowsOf(m, nofocus)
    BY <1>1 DEF BindingLists, WindowsOf, Root
  <2>2. m \in KeyList /\ w \in KeyWindow
    BY <1>1, <2>1, WindowsKnown
  <2>3. w # <<"window", c>> /\ w # <<"nofocus", c>>
    BY <1>1, <2>1 DEF BindingLists, WindowsOf, Root
  <2>4. grabs[w] = Grabs(keys[m], keysyms)
    <3>1. w \notin unregrabbed
      BY <1>1, <2>3 DEF WindowsOf, Root
    <3> QED BY <2>1, <3>1 DEF KeyboardIInv, GrabsInv
  <2>5. keys'[m] = keys[m]
    BY <1>1, <2>1, <2>2 DEF KeyboardTypeOK, KeyList
  <2>6. grabs'[w] = grabs[w]
    BY <1>1, <2>2, <2>3 DEF KeyboardTypeOK
  <2> QED BY <2>4, <2>5, <2>6
<1>5. ASSUME NEW d \in KeyClient \ managedClients'
      PROVE  keys'[<<"client", d>>] = {} /\ grabs'[<<"window", d>>] = {}
  <2>1. CASE d = c
    BY <1>1, <1>3, <2>1 DEF KeyboardTypeOK, KeyList
  <2>2. CASE d # c
    <3>1. keys[<<"client", d>>] = {} /\ grabs[<<"window", d>>] = {}
      BY <1>1, <2>2 DEF KeyboardIInv, GrabsInv
    <3>2. <<"client", d>> \in KeyList /\ <<"window", d>> \in KeyWindow
      BY DEF KeyList, KeyWindow
    <3> QED BY <1>1, <2>2, <3>1, <3>2 DEF KeyboardTypeOK, KeyList
  <2> QED BY <2>1, <2>2
<1>6. GrabsInv'
  <2>1. keysyms' = keysyms /\ keyb' = keyb
    BY <1>1 DEF layoutVars
  <2> QED BY <1>4, <1>5, <2>1 DEF GrabsInv, Grabs, KeyCodes
<1> QED BY <1>1, <1>2, <1>6, OnlyGrabs

LEMMA MakeNofocusWindowKeeps ==
    ASSUME KeyboardIInv, NEW c \in KeyClient, MakeNofocusWindow(c) PROVE KeyboardIInv'
<1> PICK new : new = Grabs(keys[<<"client", c>>], keysyms)
  OBVIOUS
<1>1. /\ KeyboardTypeOK /\ c \in managedClients \ nofocus /\ nofocus' = nofocus \cup {c}
      /\ grabs' = [grabs EXCEPT ![<<"nofocus", c>>] = new]
      /\ UNCHANGED <<keymap, group, keyEvents, layoutVars, keyb, keys, managedClients, unregrabbed, depth, toldVars>>
  BY DEF KeyboardIInv, MakeNofocusWindow
<1>2. <<"nofocus", c>> \in KeyWindow /\ <<"client", c>> \in KeyList
  BY DEF KeyWindow, KeyList
<1>3. new \subseteq KeyGrab
  BY <1>1, <1>2, GrabbedCodes DEF KeyboardTypeOK, KeyList
<1>4. KeyboardTypeOK'
  BY <1>1, <1>3 DEF KeyboardTypeOK, layoutVars, toldVars
<1>5. ASSUME NEW m \in BindingLists, NEW w \in WindowsOf(m, nofocus') \ unregrabbed
      PROVE  grabs'[w] = Grabs(keys[m], keysyms)
  <2>1. CASE w = <<"nofocus", c>>
    <3>1. m = <<"client", c>>
      BY <2>1 DEF BindingLists, WindowsOf, Root
    <3> QED BY <1>1, <1>2, <2>1, <3>1 DEF KeyboardTypeOK
  <2>2. CASE w # <<"nofocus", c>>
    <3>1. w \in WindowsOf(m, nofocus)
      BY <1>1, <2>2 DEF BindingLists, WindowsOf, Root
    <3>2. w \in KeyWindow
      BY <1>1, <3>1, WindowsKnown
    <3>3. grabs[w] = Grabs(keys[m], keysyms)
      BY <3>1 DEF KeyboardIInv, GrabsInv
    <3> QED BY <1>1, <2>2, <3>2, <3>3 DEF KeyboardTypeOK
  <2> QED BY <2>1, <2>2
<1>6. ASSUME NEW d \in KeyClient \ managedClients
      PROVE  keys[<<"client", d>>] = {} /\ grabs'[<<"window", d>>] = {}
  <2>1. <<"window", d>> \in KeyWindow /\ keys[<<"client", d>>] = {} /\ grabs[<<"window", d>>] = {}
    BY DEF KeyboardIInv, GrabsInv, KeyWindow
  <2> QED BY <1>1, <2>1 DEF KeyboardTypeOK
<1>7. GrabsInv'
  <2>1. UNCHANGED <<keysyms, keyb, keys, managedClients, unregrabbed>> /\ BindingLists' = BindingLists
    BY <1>1 DEF layoutVars, BindingLists
  <2> QED BY <1>5, <1>6, <2>1 DEF GrabsInv, Grabs, KeyCodes
<1> QED BY <1>1, <1>4, <1>7, OnlyGrabs
-----------------------------------------------------------------------------
(* XKB events and the idle source.                                         *)

LEMMA HandleXkbEventKeeps == ASSUME KeyboardIInv, HandleXkbEvent PROVE KeyboardIInv'
<1> PICK e : e = Head(keyEvents)
  OBVIOUS
<1>1. /\ KeyEventsInv /\ keyEvents # <<>> /\ keyEvents' = Tail(keyEvents) /\ updatePending' = TRUE
      /\ todo' = todo \cup Noted(e) \cup NewKeycodes(e)
      /\ xkbGroup' = IF e.kind = "state" THEN e.group ELSE xkbGroup
      /\ nested' = (nested \/ depth = "signals")
      /\ UNCHANGED <<keyServerVars, keysyms, bindingVars, depth, toldMap, toldGroup, keyCalls>>
  BY DEF KeyboardIInv, HandleXkbEvent
<1>2. /\ e \in XkbEvent /\ keyEvents' \in Seq(XkbEvent)
      /\ MapComes <=> MapComes' \/ e.kind \in {"map", "new keyboard"}
      /\ StateComes <=> StateComes' \/ e.kind = "state"
      /\ e.kind = "state" => StateComes' \/ e.group = group
      /\ \A i \in 1..Len(keyEvents') :
            keyEvents'[i].kind = "state"
            /\ (\A j \in 1..Len(keyEvents') : j > i => keyEvents'[j].kind # "state")
            => keyEvents'[i].group = group'
  BY <1>1, HandledEvent DEF keyServerVars
<1>3. e.kind \in {"map", "new keyboard", "state"} /\ e.group \in Group
  BY <1>2 DEF XkbEvent
<1>4. /\ e.kind \in {"map", "new keyboard"} => Noted(e) \cup NewKeycodes(e) = {"reload", "map"}
      /\ e.kind = "state" => Noted(e) \cup NewKeycodes(e) = {"group"}
  BY <1>3 DEF Noted, NewKeycodes
<1>5. KeyboardTypeOK'
  <2>1. todo' \subseteq {"reload", "map", "group"} /\ xkbGroup' \in Group /\ nested' \in BOOLEAN
    BY <1>1, <1>3, <1>4 DEF KeyboardIInv, KeyboardTypeOK
  <2> QED BY <1>1, <2>1 DEF KeyboardIInv, KeyboardTypeOK, keyServerVars, bindingVars, clientVars
<1>6. KeyEventsInv'
  BY <1>1, <1>2, <1>3, <1>4 DEF KeyEventsInv
<1>7. GrabsInv'
  BY <1>1, GrabsStay DEF KeyboardIInv, keyServerVars, bindingVars
<1>8. GroupInv'
  BY <1>1, <1>2 DEF KeyboardIInv, GroupInv, keyServerVars
<1>9. ASSUME ~nested' PROVE LayoutInv'
  <2>1. ~nested /\ depth = "loop" /\ depth' = depth /\ LayoutInv
    BY <1>1, <1>9 DEF KeyboardIInv, KeyboardTypeOK
  <2>2. /\ MapComes => MapComes' \/ (ToCome("reload")' /\ ToCome("map")')
        /\ StateComes => StateComes' \/ ToCome("group")'
        /\ \A flag : ToCome(flag) => ToCome(flag)'
    BY <1>1, <1>2, <1>4, <2>1 DEF ToCome
  <2> QED BY <1>1, <2>1, <2>2 DEF LayoutInv, keyServerVars
<1> QED BY <1>5, <1>6, <1>7, <1>8, <1>9 DEF KeyboardIInv

\* All windows of the lists are grabbed again.
LEMMA RegrabFacts ==
    ASSUME KeyboardTypeOK, NEW table, NEW new, new = Regrab(Reloaded, table)
    PROVE  /\ new \in [KeyWindow -> SUBSET KeyGrab]
           /\ \A l \in BindingLists : \A w \in WindowsOf(l, nofocus) : new[w] = Grabs(keys[l], table)
           /\ \A c \in KeyClient \ managedClients : new[<<"window", c>>] = grabs[<<"window", c>>]
<1>1. /\ BindingLists \subseteq KeyList
      /\ \A l \in KeyList : WindowsOf(l, nofocus) \subseteq KeyWindow
  BY WindowsKnown
<1>2. ASSUME NEW l \in BindingLists, NEW w \in WindowsOf(l, nofocus)
      PROVE  (CHOOSE m \in BindingLists : w \in WindowsOf(m, nofocus)) = l
  <2>1. (CHOOSE m \in BindingLists : w \in WindowsOf(m, nofocus)) \in BindingLists
        /\ w \in WindowsOf(CHOOSE m \in BindingLists : w \in WindowsOf(m, nofocus), nofocus)
    BY <1>2
  <2> QED BY <1>1, <1>2, <2>1, OwnWindows
<1>3. new = [w \in KeyWindow |->
               IF w \in AllWindowsOf(BindingLists)
               THEN Grabs(keys[CHOOSE l \in BindingLists : w \in WindowsOf(l, nofocus)], table)
               ELSE grabs[w]]
  BY DEF Regrab, Reloaded
<1>4. \A w \in KeyWindow : w \in AllWindowsOf(BindingLists) <=> \E l \in BindingLists : w \in WindowsOf(l, nofocus)
  BY DEF AllWindowsOf
<1>5. ASSUME NEW l \in BindingLists, NEW w \in WindowsOf(l, nofocus) PROVE new[w] = Grabs(keys[l], table)
  <2>1. w \in KeyWindow /\ (CHOOSE m \in BindingLists : w \in WindowsOf(m, nofocus)) = l
    BY <1>1, <1>2
  <2>2. new[w] = Grabs(keys[CHOOSE m \in BindingLists : w \in WindowsOf(m, nofocus)], table)
    BY <1>3, <1>4, <2>1
  <2> QED BY <2>1, <2>2
<1>6. ASSUME NEW w \in KeyWindow, ~\E l \in BindingLists : w \in WindowsOf(l, nofocus)
      PROVE  new[w] = grabs[w]
  BY <1>3, <1>6, <1>4
<1>7. ASSUME NEW w \in KeyWindow PROVE new[w] \subseteq KeyGrab
  <2>1. CASE \E l \in BindingLists : w \in WindowsOf(l, nofocus)
    <3>1. PICK l \in BindingLists : w \in WindowsOf(l, nofocus)
      BY <2>1
    <3>2. keys[l] \in SUBSET KeyObject
      BY <1>1 DEF KeyboardTypeOK, KeyList
    <3> QED BY <1>5, <3>1, <3>2, GrabbedCodes
  <2>2. CASE ~\E l \in BindingLists : w \in WindowsOf(l, nofocus)
    BY <1>6, <2>2 DEF KeyboardTypeOK
  <2> QED BY <2>1, <2>2
<1>8. ASSUME NEW c \in KeyClient \ managedClients PROVE new[<<"window", c>>] = grabs[<<"window", c>>]
  <2>1. <<"window", c>> \in KeyWindow
    BY DEF KeyWindow
  <2>2. \A l \in BindingLists : <<"window", c>> \notin WindowsOf(l, nofocus)
    BY DEF BindingLists, WindowsOf, Root
  <2> QED BY <1>6, <2>1, <2>2
<1> QED BY <1>3, <1>5, <1>7, <1>8

LEMMA XkbRefreshBeginKeeps == ASSUME KeyboardIInv, XkbRefreshBegin PROVE KeyboardIInv'
<1>1. /\ KeyboardTypeOK /\ updatePending /\ depth = "loop" /\ updatePending' = FALSE /\ depth' = "signals"
      /\ UNCHANGED <<keymap, group, keyEvents, todo, keyb, keys, clientVars, nested, keyCalls>>
      /\ toldMap' = IF "map" \in todo THEN keysyms' ELSE toldMap
      /\ toldGroup' = IF "group" \in todo THEN group ELSE toldGroup
  BY DEF KeyboardIInv, XkbRefreshBegin
<1>2. CASE "reload" \in todo
  <2>1. /\ keysyms' = keymap /\ xkbGroup' = group /\ grabs' = Regrab(Reloaded, keymap)
        /\ unregrabbed' = unregrabbed \ AllWindowsOf(Reloaded)
    BY <1>2 DEF XkbRefreshBegin
  <2>2. /\ grabs' \in [KeyWindow -> SUBSET KeyGrab]
        /\ \A l \in BindingLists : \A w \in WindowsOf(l, nofocus) : grabs'[w] = Grabs(keys[l], keymap)
        /\ \A c \in KeyClient \ managedClients : grabs'[<<"window", c>>] = grabs[<<"window", c>>]
    <3> PICK table : table = keymap
      OBVIOUS
    <3> PICK new : new = grabs'
      OBVIOUS
    <3>1. /\ new \in [KeyWindow -> SUBSET KeyGrab]
          /\ \A l \in BindingLists : \A w \in WindowsOf(l, nofocus) : new[w] = Grabs(keys[l], table)
          /\ \A c \in KeyClient \ managedClients : new[<<"window", c>>] = grabs[<<"window", c>>]
      BY <1>1, <2>1, RegrabFacts
    <3> QED BY <3>1
  <2>3. KeyboardTypeOK'
    BY <1>1, <2>1, <2>2 DEF KeyboardTypeOK, clientVars
  <2>4. GrabsInv'
    BY <1>1, <2>1, <2>2 DEF KeyboardIInv, GrabsInv, Grabs, KeyCodes, BindingLists, clientVars
  <2>5. KeyEventsInv' /\ GroupInv'
    BY <1>1, <2>1 DEF KeyboardIInv, KeyEventsInv, GroupInv
  <2>6. ASSUME ~nested' PROVE LayoutInv'
    <3>1. LayoutInv /\ (MapComes' <=> MapComes) /\ (StateComes' <=> StateComes)
      BY <1>1, <2>6 DEF KeyboardIInv, MapComes, StateComes
    <3> QED BY <1>1, <2>1, <3>1 DEF LayoutInv, ToCome
  <2> QED BY <2>3, <2>4, <2>5, <2>6 DEF KeyboardIInv
<1>3. CASE "reload" \notin todo
  <2>1. UNCHANGED <<keysyms, xkbGroup, grabs, unregrabbed>>
    BY <1>3 DEF XkbRefreshBegin
  <2>2. KeyboardTypeOK'
    BY <1>1, <2>1 DEF KeyboardTypeOK, clientVars
  <2>3. GrabsInv'
    BY <1>1, <2>1 DEF KeyboardIInv, GrabsInv, Grabs, KeyCodes, BindingLists, clientVars
  <2>4. /\ KeyEventsInv' /\ "map" \notin todo
        /\ (MapComes' <=> MapComes) /\ (StateComes' <=> StateComes)
    BY <1>1, <1>3 DEF KeyboardIInv, KeyEventsInv, MapComes, StateComes
  <2>5. GroupInv'
    BY <1>1, <2>1, <2>4 DEF KeyboardIInv, GroupInv
  <2>6. ASSUME ~nested' PROVE LayoutInv'
    <3>1. LayoutInv
      BY <1>1, <2>6 DEF KeyboardIInv
    <3> QED BY <1>1, <1>3, <2>1, <2>4, <3>1 DEF LayoutInv, ToCome
  <2> QED BY <2>2, <2>3, <2>4, <2>5, <2>6 DEF KeyboardIInv
<1> QED BY <1>2, <1>3

LEMMA XkbRefreshEndKeeps == ASSUME KeyboardIInv, XkbRefreshEnd PROVE KeyboardIInv'
<1>1. /\ depth = "signals" /\ depth' = "loop" /\ todo' = {}
      /\ UNCHANGED <<keyServerVars, keyEvents, keysyms, xkbGroup, updatePending, bindingVars, toldVars, keyCalls>>
  BY DEF XkbRefreshEnd
<1>2. KeyboardTypeOK'
  BY <1>1 DEF KeyboardIInv, KeyboardTypeOK, keyServerVars, bindingVars, clientVars, toldVars
<1>3. KeyEventsInv' /\ GroupInv'
  BY <1>1 DEF KeyboardIInv, KeyEventsInv, GroupInv, StateComes, keyServerVars
<1>4. GrabsInv'
  BY <1>1, GrabsStay DEF KeyboardIInv, keyServerVars, bindingVars
<1>5. ~nested' => LayoutInv'
  BY <1>1 DEF KeyboardIInv, LayoutInv, ToCome, MapComes, StateComes, keyServerVars, toldVars
<1> QED BY <1>2, <1>3, <1>4, <1>5 DEF KeyboardIInv

-----------------------------------------------------------------------------
LEMMA KeyboardStart == ASSUME KeyboardInit PROVE KeyboardIInv
<1>1. KeyboardTypeOK
  BY DEF KeyboardInit, KeyboardTypeOK
<1>2. KeyEventsInv
  BY EmptySeq DEF KeyboardInit, KeyEventsInv
<1>3. GrabsInv
  <2>1. ASSUME NEW l \in BindingLists, NEW w \in WindowsOf(l, nofocus)
        PROVE  grabs[w] = {} /\ keys[l] = {}
    <3>1. l \in KeyList /\ w \in KeyWindow
      BY <1>1, WindowsKnown
    <3> QED BY <3>1 DEF KeyboardInit, KeyList
  <2>2. \A c \in KeyClient : keys[<<"client", c>>] = {} /\ grabs[<<"window", c>>] = {}
    BY DEF KeyboardInit, KeyWindow, KeyList
  <2> QED BY <2>1, <2>2, NoGrabs DEF GrabsInv
<1>4. GroupInv /\ LayoutInv
  BY DEF KeyboardInit, GroupInv, LayoutInv
<1> QED BY <1>1, <1>2, <1>3, <1>4 DEF KeyboardIInv

LEMMA KeyboardStep == ASSUME KeyboardIInv, [KeyboardNext]_keyboardVars PROVE KeyboardIInv'
<1>1. CASE ChangeKeymap \/ ChangeGroup
  BY <1>1, ChangeKeymapKeeps, ChangeGroupKeeps
<1>2. CASE \E l \in KeyList : SetKeys(l)
  BY <1>2, SetKeysKeeps
<1>3. CASE \E o \in KeyObject : SetKey(o) \/ SetModifiers(o)
  BY <1>3, SettersKeep
<1>4. CASE \E c \in KeyClient : ManageClient(c) \/ UnmanageClient(c) \/ MakeNofocusWindow(c)
  BY <1>4, ManageClientKeeps, UnmanageClientKeeps, MakeNofocusWindowKeeps
<1>5. CASE HandleXkbEvent \/ XkbRefreshBegin \/ XkbRefreshEnd
  BY <1>5, HandleXkbEventKeeps, XkbRefreshBeginKeeps, XkbRefreshEndKeeps
<1>6. CASE UNCHANGED keyboardVars
  <2>1. UNCHANGED <<keymap, group, grabs, keyEvents, layoutVars, bindingVars, depth, toldVars>>
    BY <1>6 DEF keyboardVars, keyServerVars
  <2>2. KeyboardTypeOK'
    BY <2>1 DEF KeyboardIInv, KeyboardTypeOK, layoutVars, bindingVars, clientVars, toldVars
  <2>3. GrabsInv'
    BY <2>1, GrabsStay DEF KeyboardIInv, layoutVars
  <2> QED BY <2>1, <2>2, <2>3, OnlyGrabs
<1> QED BY <1>1, <1>2, <1>3, <1>4, <1>5, <1>6 DEF KeyboardNext

LEMMA KeyboardQuiescence == ASSUME KeyboardIInv PROVE KeyboardInv
<1>1. ASSUME KeyboardQuiet PROVE ~MapComes /\ ~StateComes /\ \A flag : ~ToCome(flag)
  BY <1>1, EmptySeq DEF KeyboardQuiet, MapComes, StateComes, ToCome
<1>2. GrabsFollowKeymap
  BY <1>1 DEF KeyboardIInv, GrabsInv, LayoutInv, GrabsFollowKeymap
<1>3. LayoutIsKnown
  BY <1>1 DEF KeyboardIInv, GroupInv, LayoutInv, LayoutIsKnown
<1> QED BY <1>2, <1>3 DEF KeyboardIInv, KeyboardInv

\* xkb.c, xwindow_grabkeys, the lists of key bindings and the setters of key objects: for any
\* layouts, bindings and clients, when no change is pending the keycodes that are grabbed give
\* the bound keysyms in the server's layout, and Lua code was told of the layout and the group,
\* unless a nested event loop has heard of a change while signals of the refresh were handled.
\* The windows on which a key object was changed since their keys were grabbed are excepted.
THEOREM KeysFollowTheLayout == KeyboardSpec => []KeyboardInv
<1>1. KeyboardInit => KeyboardIInv
  BY KeyboardStart
<1>2. KeyboardIInv /\ [KeyboardNext]_keyboardVars => KeyboardIInv'
  BY KeyboardStep
<1>3. KeyboardIInv => KeyboardInv
  BY KeyboardQuiescence
<1> QED BY <1>1, <1>2, <1>3, PTL DEF KeyboardSpec

-----------------------------------------------------------------------------
(* Pointer.                                                                *)

\* What awesome takes to be under the mouse when it has handled an event, where m says whether the
\* client is managed.  A motion event may also go to the mousegrabber.
Under(e, u, m) ==
    CASE e.kind = "leave" -> {IF (e.win = "frame" /\ m) \/ ~e.inferior THEN "none" ELSE u}
      [] e.kind = "enter" -> {IF e.win = "drawin" /\ ~e.inferior THEN "drawin"
                              ELSE IF e.win = "frame" /\ m THEN ClientDrawable(e.spot) ELSE u}
      [] e.kind = "motion" ->
             {u, IF e.win = "drawin" THEN "drawin"
                 ELSE IF e.win = "frame" /\ m /\ ClientDrawable(e.spot) # "none" THEN ClientDrawable(e.spot)
                      ELSE u}
      [] e.kind = "destroyed" -> {IF u = "titlebar" THEN "none" ELSE u}
      [] OTHER -> {u}
Result(e, s) == {<<u, s[2] /\ e.kind # "destroyed">> : u \in Under(e, s[1], s[2])}

\* However the events q are handled, from s, what awesome knows in the end is in F.
Handled(q, s, g) == g[0] = s /\ \A i \in 1..Len(q) : g[i] \in Result(q[i], g[i - 1])
Ends(q, s, F) == \A g : Handled(q, s, g) => g[Len(q)] \in F

\* What awesome should know when the pointer is at a spot.  It may know nothing of where the
\* pointer has moved unheard.
OverAt(spot, exists) == IF spot \in {"drawin", "tray"} THEN "drawin"
                        ELSE IF spot = "titlebar" /\ exists THEN "titlebar" ELSE "none"
Known(spot, exists, lost) ==
    {<<u, exists>> : u \in IF lost THEN {"none", "drawin", "titlebar"} ELSE {OverAt(spot, exists)}}

\* The events that are waiting will tell what the pointer is over.
TellingInv == Ends(pointerEvents, <<underMouse, clientManaged>>, Known(at, clientExists, drifted))

\* A client that exists is managed until the event that tells of its end.
NoEnd(q) == \A i \in 1..Len(q) : q[i].kind # "destroyed"
EndIsTold == clientExists => clientManaged /\ NoEnd(pointerEvents)

\* The press that has frozen the pointer is still to be handled, by event_handle_button, which will
\* allow the pointer to go on.
Pressed(q, w) ==
    \E i \in 1..Len(q) : q[i].kind = "press" /\ q[i].win = w /\ (w = "drawin" => q[i].spot # "tray")
ThawInv ==
    /\ frozen = "client" => clientExists
    /\ frozen # "none" => pointerHolder = "none"
    /\ ~refused => (mousegrabber <=> pointerHolder = "awesome")
    /\ frozen # "none" /\ ~trayPressed /\ ~refused => Pressed(pointerEvents, frozen)

PointerIndInv == PointerTypeOK /\ TellingInv /\ EndIsTold /\ ThawInv

-----------------------------------------------------------------------------
(* Sequences of events.                                                    *)

LEMMA EndsNone == ASSUME NEW s, NEW F, Ends(<<>>, s, F) PROVE s \in F
<1>1. PICK g : g = [i \in 0..0 |-> s]
  OBVIOUS
<1>2. g[0] = s
  BY <1>1
<1>3. Handled(<<>>, s, g)
  BY <1>2 DEF Handled
<1> QED BY <1>2, <1>3 DEF Ends

LEMMA EndsAppend ==
    ASSUME NEW q \in Seq(PointerEvent), NEW e \in PointerEvent, NEW s, NEW F, NEW G, Ends(q, s, F),
           \A f \in F : Result(e, f) \subseteq G
    PROVE  Ends(Append(q, e), s, G)
<1>1. PICK p : p = Append(q, e)
  OBVIOUS
<1>2. Len(q) \in Nat /\ Len(p) = Len(q) + 1 /\ p[Len(q) + 1] = e /\ \A i \in 1..Len(q) : p[i] = q[i]
  BY <1>1, AppendProperties, LenProperties
<1>3. ASSUME NEW g, Handled(p, s, g) PROVE g[Len(p)] \in G
  <2>1. Handled(q, s, g)
    <3>1. ASSUME NEW i \in 1..Len(q) PROVE g[i] \in Result(q[i], g[i - 1])
      <4>1. i \in 1..Len(p)
        BY <1>2
      <4> QED BY <1>2, <1>3, <4>1 DEF Handled
    <3> QED BY <1>3, <3>1 DEF Handled
  <2>2. g[Len(q)] \in F
    BY <2>1 DEF Ends
  <2>3. Len(p) \in 1..Len(p) /\ Len(p) - 1 = Len(q)
    BY <1>2
  <2>4. g[Len(p)] \in Result(p[Len(p)], g[Len(p) - 1])
    BY <1>3, <2>3 DEF Handled
  <2>5. g[Len(p)] \in Result(e, g[Len(q)])
    BY <1>2, <2>3, <2>4
  <2> QED BY <2>2, <2>5
<1> QED BY <1>1, <1>3 DEF Ends

LEMMA EndsTail ==
    ASSUME NEW q \in Seq(PointerEvent), q # <<>>, NEW s, NEW t, NEW F, Ends(q, s, F),
           t \in Result(Head(q), s)
    PROVE  Ends(Tail(q), t, F)
<1>1. PICK p : p = Tail(q)
  OBVIOUS
<1>2. Len(q) \in Nat \ {0} /\ Len(p) = Len(q) - 1 /\ q[1] = Head(q) /\ \A i \in 1..Len(p) : p[i] = q[i + 1]
  BY <1>1, HeadTailProperties, LenProperties, EmptySeq
<1>3. ASSUME NEW g, Handled(p, t, g) PROVE g[Len(p)] \in F
  <2>1. PICK h : h = [i \in 0..Len(q) |-> IF i = 0 THEN s ELSE g[i - 1]]
    OBVIOUS
  <2>2. h[0] = s /\ \A i \in 1..Len(q) : h[i] = g[i - 1]
    BY <1>2, <2>1
  <2>3. ASSUME NEW i \in 1..Len(q) PROVE h[i] \in Result(q[i], h[i - 1])
    <3>1. CASE i = 1
      <4>1. h[1] = g[0] /\ h[0] = s /\ g[0] = t
        BY <1>2, <1>3, <2>2, <3>1 DEF Handled
      <4> QED BY <1>2, <3>1, <4>1
    <3>2. CASE i # 1
      <4>1. i - 1 \in 1..Len(p) /\ i - 1 \in 1..Len(q) /\ (i - 1) + 1 = i
        BY <1>2, <3>2
      <4>2. h[i] = g[i - 1] /\ h[i - 1] = g[(i - 1) - 1] /\ p[i - 1] = q[i]
        BY <1>2, <2>2, <4>1
      <4>3. g[i - 1] \in Result(p[i - 1], g[(i - 1) - 1])
        BY <1>3, <4>1 DEF Handled
      <4> QED BY <4>2, <4>3
    <3> QED BY <3>1, <3>2
  <2>4. h[Len(q)] \in F
    BY <2>2, <2>3 DEF Ends, Handled
  <2>5. h[Len(q)] = g[Len(p)]
    BY <1>2, <2>2
  <2> QED BY <2>4, <2>5
<1> QED BY <1>1, <1>3 DEF Ends

\* One event is told of, or none.
After(t, s) == IF t = <<>> THEN {s} ELSE Result(t[1], s)

LEMMA EndsAfter ==
    ASSUME NEW q \in Seq(PointerEvent), NEW e \in PointerEvent, NEW t, t = <<>> \/ t = <<e>>,
           NEW s, NEW F, NEW G, Ends(q, s, F), \A f \in F : After(t, f) \subseteq G
    PROVE  Ends(q \o t, s, G) /\ q \o t \in Seq(PointerEvent)
<1>1. CASE t = <<>>
  <2>1. q \o t = q
    BY <1>1
  <2>2. F \subseteq G
    BY <1>1 DEF After
  <2> QED BY <2>1, <2>2 DEF Ends
<1>2. CASE t = <<e>>
  <2>1. q \o t = Append(q, e)
    BY <1>2
  <2>2. t # <<>> /\ t[1] = e
    BY <1>2
  <2>3. \A f \in F : Result(e, f) \subseteq G
    BY <2>2 DEF After
  <2>4. Ends(Append(q, e), s, G)
    BY <2>3, EndsAppend
  <2> QED BY <2>1, <2>4
<1> QED BY <1>1, <1>2

-----------------------------------------------------------------------------
(* Moves of the pointer.                                                   *)

LEMMA LeaveResult ==
    ASSUME NEW w, NEW b \in BOOLEAN, NEW spot, NEW u, NEW m \in BOOLEAN,
           NEW x \in Result(Crossing("leave", w, b, spot), <<u, m>>)
    PROVE  x = <<IF (w = "frame" /\ m) \/ ~b THEN "none" ELSE u, m>>
<1>1. PICK e : e = Crossing("leave", w, b, spot)
  OBVIOUS
<1>2. e.kind = "leave" /\ e.win = w /\ e.inferior = b
  BY <1>1 DEF Crossing
<1>3. Under(e, u, m) = {IF (w = "frame" /\ m) \/ ~b THEN "none" ELSE u}
  BY <1>2 DEF Under
<1>4. PICK v \in Under(e, u, m) : x = <<v, m /\ e.kind # "destroyed">>
  BY <1>1 DEF Result
<1> QED BY <1>2, <1>3, <1>4

LEMMA EnterResult ==
    ASSUME NEW w, NEW b \in BOOLEAN, NEW spot, NEW u, NEW m \in BOOLEAN,
           NEW x \in Result(Crossing("enter", w, b, spot), <<u, m>>)
    PROVE  x = <<IF w = "drawin" /\ ~b THEN "drawin"
                 ELSE IF w = "frame" /\ m THEN ClientDrawable(spot) ELSE u, m>>
<1>1. PICK e : e = Crossing("enter", w, b, spot)
  OBVIOUS
<1>2. e.kind = "enter" /\ e.win = w /\ e.inferior = b /\ e.spot = spot
  BY <1>1 DEF Crossing
<1>3. Under(e, u, m) = {IF w = "drawin" /\ ~b THEN "drawin"
                        ELSE IF w = "frame" /\ m THEN ClientDrawable(spot) ELSE u}
  BY <1>2 DEF Under
<1>4. PICK v \in Under(e, u, m) : x = <<v, m /\ e.kind # "destroyed">>
  BY <1>1 DEF Result
<1> QED BY <1>2, <1>3, <1>4

LEMMA OuterOfSpots ==
    /\ Outer("root") = "root" /\ Outer("drawin") = "drawin" /\ Outer("tray") = "drawin"
    /\ Outer("titlebar") = "frame" /\ Outer("client") = "frame"
    /\ ~Inside("root") /\ ~Inside("drawin") /\ Inside("tray") /\ ~Inside("titlebar")
    /\ Inside("client") <=> clientExists
  BY DEF Outer, Inside

LEMMA ToldIsEvent ==
    ASSUME clientExists \in BOOLEAN, NEW kind \in {"leave", "enter"}, NEW here \in Spots, NEW there \in Spots,
           NEW spot \in Spots
    PROVE  \E e \in PointerEvent :
              /\ e = Crossing(kind, Outer(here), Outer(here) \in {"root", Outer(there)}, spot)
              /\ Told(kind, here, there, spot) = IF Outer(here) = Outer(there) /\ Inside(here) THEN <<>> ELSE <<e>>
<1>1. Outer(here) \in {"root", "drawin", "frame"}
  BY OuterOfSpots DEF Spots
<1>2. PICK b : b = (Outer(here) \in {"root", Outer(there)})
  OBVIOUS
<1>3. b \in BOOLEAN
  BY <1>2
<1>4. Crossing(kind, Outer(here), b, spot) \in PointerEvent
  BY <1>1, <1>3 DEF Crossing, PointerEvent
<1> QED BY <1>2, <1>4 DEF Told

\* A move of the pointer is told by events after which awesome knows where it is.
LEMMA MoveIsKnown ==
    ASSUME clientExists \in BOOLEAN, NEW here \in Spots, NEW to \in Spots, ~SamePlace(here, to),
           NEW lost \in BOOLEAN, NEW f \in Known(here, clientExists, lost),
           NEW x \in After(Told("leave", here, to, to), f), NEW y \in After(Told("enter", to, here, to), x)
    PROVE  y \in Known(to, clientExists, lost /\ (\/ {here, to} = {"drawin", "tray"}
                                                  \/ here = "root" /\ to \in {"titlebar", "client"} /\ ~clientExists))
<1>1. PICK u : f = <<u, clientExists>> /\ u \in {"none", "drawin", "titlebar"} /\ (~lost => u = OverAt(here, clientExists))
  BY DEF Known, OverAt
<1>2. PICK xu : /\ x = <<xu, clientExists>>
                /\ xu = IF Outer(here) = Outer(to) /\ Inside(here) THEN u
                        ELSE IF (Outer(here) = "frame" /\ clientExists) \/ ~(Outer(here) \in {"root", Outer(to)})
                             THEN "none" ELSE u
  <2>1. CASE Outer(here) = Outer(to) /\ Inside(here)
    <3>1. x = f
      BY <2>1 DEF After, Told
    <3> QED BY <1>1, <2>1, <3>1
  <2>2. CASE ~(Outer(here) = Outer(to) /\ Inside(here))
    <3>1. PICK b : b = (Outer(here) \in {"root", Outer(to)})
      OBVIOUS
    <3>2. x \in Result(Crossing("leave", Outer(here), b, to), <<u, clientExists>>) /\ b \in BOOLEAN
      BY <1>1, <2>2, <3>1 DEF After, Told
    <3>3. x = <<IF (Outer(here) = "frame" /\ clientExists) \/ ~b THEN "none" ELSE u, clientExists>>
      BY <3>2, LeaveResult
    <3> QED BY <2>2, <3>1, <3>3
  <2> QED BY <2>1, <2>2
<1>3. PICK yu : /\ y = <<yu, clientExists>>
                /\ yu = IF Outer(to) = Outer(here) /\ Inside(to) THEN xu
                        ELSE IF Outer(to) = "drawin" /\ ~(Outer(to) \in {"root", Outer(here)}) THEN "drawin"
                        ELSE IF Outer(to) = "frame" /\ clientExists THEN ClientDrawable(to) ELSE xu
  <2>1. CASE Outer(to) = Outer(here) /\ Inside(to)
    <3>1. y = x
      BY <2>1 DEF After, Told
    <3> QED BY <1>2, <2>1, <3>1
  <2>2. CASE ~(Outer(to) = Outer(here) /\ Inside(to))
    <3>1. PICK b : b = (Outer(to) \in {"root", Outer(here)})
      OBVIOUS
    <3>2. y \in Result(Crossing("enter", Outer(to), b, to), <<xu, clientExists>>) /\ b \in BOOLEAN
      BY <1>2, <2>2, <3>1 DEF After, Told
    <3>3. y = <<IF Outer(to) = "drawin" /\ ~b THEN "drawin"
                ELSE IF Outer(to) = "frame" /\ clientExists THEN ClientDrawable(to) ELSE xu, clientExists>>
      BY <3>2, EnterResult
    <3> QED BY <2>2, <3>1, <3>3
  <2> QED BY <2>1, <2>2
<1>4. ASSUME NEW l \in BOOLEAN,
             l = (lost /\ (\/ {here, to} = {"drawin", "tray"}
                           \/ here = "root" /\ to \in {"titlebar", "client"} /\ ~clientExists))
      PROVE  yu \in {"none", "drawin", "titlebar"} /\ (~l => yu = OverAt(to, clientExists))
  <2>1. CASE here = "root"
    BY <1>1, <1>2, <1>3, <1>4, <2>1, OuterOfSpots DEF Spots, SamePlace, OverAt, ClientDrawable
  <2>2. CASE here = "drawin"
    BY <1>1, <1>2, <1>3, <1>4, <2>2, OuterOfSpots DEF Spots, SamePlace, OverAt, ClientDrawable
  <2>3. CASE here = "tray"
    BY <1>1, <1>2, <1>3, <1>4, <2>3, OuterOfSpots DEF Spots, SamePlace, OverAt, ClientDrawable
  <2>4. CASE here = "titlebar"
    BY <1>1, <1>2, <1>3, <1>4, <2>4, OuterOfSpots DEF Spots, SamePlace, OverAt, ClientDrawable
  <2>5. CASE here = "client"
    BY <1>1, <1>2, <1>3, <1>4, <2>5, OuterOfSpots DEF Spots, SamePlace, OverAt, ClientDrawable
  <2> QED BY <2>1, <2>2, <2>3, <2>4, <2>5 DEF Spots
<1> QED BY <1>3, <1>4 DEF Known

LEMMA CrossingsTell ==
    ASSUME clientExists \in BOOLEAN, NEW here \in Spots, NEW to \in Spots, ~SamePlace(here, to),
           NEW lost \in BOOLEAN, NEW q \in Seq(PointerEvent), NEW s, Ends(q, s, Known(here, clientExists, lost))
    PROVE  /\ q \o Crossings(here, to) \in Seq(PointerEvent)
           /\ Ends(q \o Crossings(here, to), s,
                   Known(to, clientExists, lost /\ (\/ {here, to} = {"drawin", "tray"}
                                                    \/ here = "root" /\ to \in {"titlebar", "client"} /\ ~clientExists)))
           /\ Crossings(here, to) \in Seq(PointerEvent)
           /\ \A i \in 1..Len(Crossings(here, to)) : Crossings(here, to)[i].kind \in {"leave", "enter"}
<1> DEFINE F == Known(here, clientExists, lost)
           G == Known(to, clientExists, lost /\ (\/ {here, to} = {"drawin", "tray"}
                                                 \/ here = "root" /\ to \in {"titlebar", "client"} /\ ~clientExists))
<1>1. PICK t1 : t1 = Told("leave", here, to, to)
  OBVIOUS
<1>2. PICK t2 : t2 = Told("enter", to, here, to)
  OBVIOUS
<1>3. PICK e1 \in PointerEvent : e1.kind = "leave" /\ (t1 = <<>> \/ t1 = <<e1>>)
  BY <1>1, ToldIsEvent DEF Crossing
<1>4. PICK e2 \in PointerEvent : e2.kind = "enter" /\ (t2 = <<>> \/ t2 = <<e2>>)
  BY <1>2, ToldIsEvent DEF Crossing
<1> DEFINE M == UNION {After(t1, f) : f \in F}
<1>5. \A f \in F : After(t1, f) \subseteq M
  OBVIOUS
<1>6. \A x \in M : After(t2, x) \subseteq G
  <2>1. SUFFICES ASSUME NEW f \in F, NEW x \in After(t1, f), NEW y \in After(t2, x) PROVE y \in G
    OBVIOUS
  <2> QED BY <1>1, <1>2, <2>1, MoveIsKnown
<1>7. t1 \in Seq(PointerEvent) /\ t2 \in Seq(PointerEvent)
  <2>1. <<>> \in Seq(PointerEvent) /\ <<e1>> \in Seq(PointerEvent) /\ <<e2>> \in Seq(PointerEvent)
    OBVIOUS
  <2> QED BY <1>3, <1>4, <2>1
<1>8. (q \o t1) \o t2 = q \o (t1 \o t2)
  BY <1>7, ConcatAssociative
<1>9. Ends(q \o t1, s, M) /\ q \o t1 \in Seq(PointerEvent)
  <2> HIDE DEF M
  <2> QED BY <1>3, <1>5, EndsAfter
<1>10. Ends((q \o t1) \o t2, s, G) /\ (q \o t1) \o t2 \in Seq(PointerEvent)
  <2> HIDE DEF M, F, G
  <2> QED BY <1>4, <1>6, <1>9, EndsAfter
<1>11. Crossings(here, to) = t1 \o t2
  BY <1>1, <1>2 DEF Crossings
<1>12. t1 \o t2 \in Seq(PointerEvent)
  BY <1>7
<1>13. \A i \in 1..Len(t1 \o t2) : (t1 \o t2)[i].kind \in {"leave", "enter"}
  <2>1. CASE t1 = <<>>
    <3>1. t1 \o t2 = t2
      BY <1>7, <2>1
    <3> QED BY <1>4, <3>1
  <2>2. CASE t1 = <<e1>> /\ t2 = <<>>
    <3>1. t1 \o t2 = t1
      BY <1>7, <2>2
    <3> QED BY <1>3, <2>2, <3>1
  <2>3. CASE t1 = <<e1>> /\ t2 = <<e2>>
    <3>1. Len(t1 \o t2) = 2 /\ (t1 \o t2)[1] = t1[1] /\ (t1 \o t2)[2] = t2[1]
      BY <1>7, <2>3, ConcatProperties
    <3> QED BY <1>3, <1>4, <2>3, <3>1
  <2> QED BY <1>3, <1>4, <2>1, <2>2, <2>3
<1> QED BY <1>8, <1>10, <1>11, <1>12, <1>13

-----------------------------------------------------------------------------
(* What is in the queue.                                                   *)

LEMMA LongerQueue ==
    ASSUME NEW q \in Seq(PointerEvent), NEW r \in Seq(PointerEvent)
    PROVE  /\ \A w : Pressed(q, w) => Pressed(q \o r, w)
           /\ NoEnd(q) /\ NoEnd(r) => NoEnd(q \o r)
<1>1. /\ Len(q) \in Nat /\ Len(r) \in Nat /\ Len(q \o r) = Len(q) + Len(r)
      /\ \A i \in 1..Len(q \o r) : (q \o r)[i] = IF i <= Len(q) THEN q[i] ELSE r[i - Len(q)]
  BY ConcatProperties, LenProperties
<1>2. \A i \in 1..Len(q) : i \in 1..Len(q \o r) /\ (q \o r)[i] = q[i]
  BY <1>1
<1>3. \A w : Pressed(q, w) => Pressed(q \o r, w)
  BY <1>2 DEF Pressed
<1>4. ASSUME NoEnd(q), NoEnd(r), NEW i \in 1..Len(q \o r) PROVE (q \o r)[i].kind # "destroyed"
  <2>1. CASE i <= Len(q)
    <3>1. i \in 1..Len(q) /\ (q \o r)[i] = q[i]
      BY <1>1, <2>1
    <3> QED BY <1>4, <3>1 DEF NoEnd
  <2>2. CASE ~(i <= Len(q))
    <3>1. i - Len(q) \in 1..Len(r) /\ (q \o r)[i] = r[i - Len(q)]
      BY <1>1, <2>2
    <3> QED BY <1>4, <3>1 DEF NoEnd
  <2> QED BY <2>1, <2>2
<1> QED BY <1>3, <1>4 DEF NoEnd

LEMMA OneMoreEvent ==
    ASSUME NEW q \in Seq(PointerEvent), NEW e \in PointerEvent
    PROVE  /\ Append(q, e) \in Seq(PointerEvent)
           /\ \A w : Pressed(q, w) => Pressed(Append(q, e), w)
           /\ NoEnd(q) /\ e.kind # "destroyed" => NoEnd(Append(q, e))
           /\ \A w : e.kind = "press" /\ e.win = w /\ (w = "drawin" => e.spot # "tray")
                        => Pressed(Append(q, e), w)
<1>1. PICK p : p = Append(q, e)
  OBVIOUS
<1>2. Len(q) \in Nat /\ Len(p) = Len(q) + 1 /\ p[Len(q) + 1] = e /\ \A i \in 1..Len(q) : p[i] = q[i]
  BY <1>1, AppendProperties, LenProperties
<1>3. (\A i \in 1..Len(q) : i \in 1..Len(p)) /\ Len(q) + 1 \in 1..Len(p)
      /\ \A i \in 1..Len(p) : i \in 1..Len(q) \/ i = Len(q) + 1
  BY <1>2
<1>4. \A w : Pressed(q, w) => Pressed(p, w)
  BY <1>2, <1>3 DEF Pressed
<1>5. NoEnd(q) /\ e.kind # "destroyed" => NoEnd(p)
  BY <1>2, <1>3 DEF NoEnd
<1>6. \A w : e.kind = "press" /\ e.win = w /\ (w = "drawin" => e.spot # "tray") => Pressed(p, w)
  BY <1>2, <1>3 DEF Pressed
<1> QED BY <1>1, <1>4, <1>5, <1>6

LEMMA OneEventLess ==
    ASSUME NEW q \in Seq(PointerEvent), q # <<>>
    PROVE  /\ Tail(q) \in Seq(PointerEvent) /\ Head(q) \in PointerEvent
           /\ NoEnd(q) => NoEnd(Tail(q)) /\ Head(q).kind # "destroyed"
           /\ \A w : Pressed(q, w) =>
                 \/ Pressed(Tail(q), w)
                 \/ Head(q).kind = "press" /\ Head(q).win = w /\ (w = "drawin" => Head(q).spot # "tray")
<1>1. PICK p : p = Tail(q)
  OBVIOUS
<1>2. /\ Len(q) \in Nat \ {0} /\ Len(p) = Len(q) - 1 /\ q[1] = Head(q) /\ \A i \in 1..Len(p) : p[i] = q[i + 1]
      /\ p \in Seq(PointerEvent) /\ Head(q) \in PointerEvent
  BY <1>1, HeadTailProperties, LenProperties, EmptySeq
<1>3. NoEnd(q) => NoEnd(p) /\ Head(q).kind # "destroyed"
  <2>1. (\A i \in 1..Len(p) : i + 1 \in 1..Len(q)) /\ 1 \in 1..Len(q)
    BY <1>2
  <2> QED BY <1>2, <2>1 DEF NoEnd
<1>4. ASSUME NEW w, Pressed(q, w)
      PROVE  \/ Pressed(p, w)
             \/ Head(q).kind = "press" /\ Head(q).win = w /\ (w = "drawin" => Head(q).spot # "tray")
  <2>1. PICK i \in 1..Len(q) : q[i].kind = "press" /\ q[i].win = w /\ (w = "drawin" => q[i].spot # "tray")
    BY <1>4 DEF Pressed
  <2>2. CASE i = 1
    BY <1>2, <2>1, <2>2
  <2>3. CASE i # 1
    <3>1. i - 1 \in 1..Len(p) /\ (i - 1) + 1 = i
      BY <1>2, <2>3
    <3>2. p[i - 1] = q[i]
      BY <1>2, <3>1
    <3> QED BY <2>1, <3>1, <3>2 DEF Pressed
  <2> QED BY <2>2, <2>3
<1> QED BY <1>1, <1>2, <1>3, <1>4

LEMMA EndsMore == ASSUME NEW q, NEW s, NEW F, NEW G, Ends(q, s, F), F \subseteq G PROVE Ends(q, s, G)
  BY DEF Ends

-----------------------------------------------------------------------------
(* The server.                                                             *)

LEMMA MoveTold == ASSUME PointerIndInv, NEW spot \in Spots, MovePointer(spot) PROVE PointerIndInv'
<1>1. /\ at \in Spots /\ pointerEvents \in Seq(PointerEvent) /\ clientExists \in BOOLEAN /\ drifted \in BOOLEAN
      /\ at' = spot /\ UNCHANGED <<frozen, pointerHolder, bound, trayInside, frameExists, clientExists,
                                   clientManaged, underMouse, mousegrabber, trayPressed, refused>>
  BY DEF PointerIndInv, PointerTypeOK, MovePointer
<1> DEFINE told == {at, spot} = {"drawin", "tray"} \/ (at = "root" /\ spot \in {"titlebar", "client"} /\ ~clientExists)
<1>2. CASE pointerHolder # "none" \/ SamePlace(at, spot)
  <2>1. pointerEvents' = pointerEvents
    BY <1>2 DEF MovePointer
  <2>2. drifted' \in BOOLEAN
    BY <1>1 DEF MovePointer
  <2>3. Known(at, clientExists, drifted) \subseteq Known(spot, clientExists, drifted')
    <3>1. CASE drifted'
      BY <3>1 DEF Known, OverAt
    <3>2. CASE ~drifted'
      <4>1. SamePlace(at, spot) /\ ~drifted
        BY <1>2, <3>2 DEF MovePointer, TellsLittle
      <4>2. OverAt(at, clientExists) = OverAt(spot, clientExists)
        BY <1>1, <4>1, OuterOfSpots DEF SamePlace, OverAt, Spots
      <4> QED BY <3>2, <4>1, <4>2 DEF Known
    <3> QED BY <3>1, <3>2
  <2>4. TellingInv'
    BY <1>1, <2>1, <2>3, EndsMore DEF PointerIndInv, TellingInv
  <2> QED BY <1>1, <2>1, <2>2, <2>4 DEF PointerIndInv, PointerTypeOK, EndIsTold, ThawInv, Pressed, NoEnd
<1>3. CASE ~(pointerHolder # "none" \/ SamePlace(at, spot))
  <2>1. pointerEvents' = pointerEvents \o Crossings(at, spot) /\ ~SamePlace(at, spot)
    BY <1>3 DEF MovePointer
  <2>2. drifted' = (drifted /\ told)
    BY <1>1, <1>3 DEF MovePointer, TellsLittle
  <2>3. /\ pointerEvents \o Crossings(at, spot) \in Seq(PointerEvent)
        /\ Ends(pointerEvents \o Crossings(at, spot), <<underMouse, clientManaged>>,
                Known(spot, clientExists, drifted /\ told))
        /\ Crossings(at, spot) \in Seq(PointerEvent)
        /\ \A i \in 1..Len(Crossings(at, spot)) : Crossings(at, spot)[i].kind \in {"leave", "enter"}
    BY <1>1, <2>1, CrossingsTell DEF PointerIndInv, TellingInv
  <2>4. TellingInv'
    BY <1>1, <2>1, <2>2, <2>3 DEF TellingInv
  <2>5. NoEnd(Crossings(at, spot))
    BY <2>3 DEF NoEnd
  <2>6. EndIsTold' /\ ThawInv'
    BY <1>1, <2>1, <2>3, <2>5, LongerQueue DEF PointerIndInv, EndIsTold, ThawInv
  <2>7. PointerTypeOK'
    BY <1>1, <2>1, <2>2, <2>3 DEF PointerIndInv, PointerTypeOK
  <2> QED BY <2>4, <2>6, <2>7 DEF PointerIndInv
<1> QED BY <1>2, <1>3

LEMMA JiggleTold == ASSUME PointerIndInv, Jiggle PROVE PointerIndInv'
<1> DEFINE w == IF pointerHolder = "awesome" THEN "root" ELSE Outer(at)
<1>1. /\ pointerEvents' = Append(pointerEvents, Crossing("motion", w, FALSE, at))
      /\ UNCHANGED <<pointerServerVars, clientManaged, underMouse, mousegrabber, drifted, trayPressed, refused>>
      /\ at \in {"drawin", "titlebar"} /\ pointerEvents \in Seq(PointerEvent) /\ clientExists \in BOOLEAN
  BY DEF Jiggle, PointerIndInv, PointerTypeOK
<1>2. PICK e : e = Crossing("motion", w, FALSE, at)
  OBVIOUS
<1>3. w \in {"root", "drawin", "frame"} /\ (w = "drawin" => at = "drawin") /\ (w = "frame" => at = "titlebar")
  BY <1>1, OuterOfSpots
<1>4. e \in PointerEvent /\ e.kind = "motion" /\ e.win = w /\ e.spot = at
  <2> HIDE DEF w
  <2> QED BY <1>1, <1>2, <1>3 DEF Crossing, PointerEvent, Spots
<1>5. \A f \in Known(at, clientExists, drifted) : Result(e, f) \subseteq Known(at, clientExists, drifted)
  <2> HIDE DEF w
  <2>1. SUFFICES ASSUME NEW f \in Known(at, clientExists, drifted), NEW x \in Result(e, f)
                 PROVE  x \in Known(at, clientExists, drifted)
    OBVIOUS
  <2>2. PICK u : /\ f = <<u, clientExists>>
                 /\ u \in IF drifted THEN {"none", "drawin", "titlebar"} ELSE {OverAt(at, clientExists)}
    BY DEF Known
  <2>3. PICK v \in Under(e, u, clientExists) : x = <<v, clientExists>>
    BY <1>1, <1>4, <2>1, <2>2 DEF Result
  <2>4. v = u \/ (v = "drawin" /\ w = "drawin") \/ (v = "titlebar" /\ w = "frame" /\ clientExists)
    BY <1>1, <1>3, <1>4, <2>3 DEF Under, ClientDrawable
  <2>5. v \in IF drifted THEN {"none", "drawin", "titlebar"} ELSE {OverAt(at, clientExists)}
    BY <1>1, <1>3, <2>2, <2>4 DEF OverAt
  <2> QED BY <2>3, <2>5 DEF Known
<1>6. TellingInv'
  <2>1. Ends(Append(pointerEvents, e), <<underMouse, clientManaged>>, Known(at, clientExists, drifted))
    BY <1>1, <1>4, <1>5, EndsAppend DEF PointerIndInv, TellingInv
  <2> QED BY <1>1, <1>2, <2>1 DEF TellingInv, pointerServerVars
<1>7. EndIsTold' /\ ThawInv'
  BY <1>1, <1>2, <1>4, OneMoreEvent DEF PointerIndInv, EndIsTold, ThawInv, pointerServerVars
<1>8. PointerTypeOK'
  <2>1. pointerEvents' \in Seq(PointerEvent)
    BY <1>1, <1>2, <1>4, OneMoreEvent
  <2> QED BY <1>1, <2>1 DEF PointerIndInv, PointerTypeOK, pointerServerVars
<1> QED BY <1>6, <1>7, <1>8 DEF PointerIndInv

LEMMA PressTold == ASSUME PointerIndInv, Press PROVE PointerIndInv'
<1> DEFINE w == IF pointerHolder = "awesome" THEN "root"
                ELSE IF Grabbed # "none" THEN Grabbed ELSE IF Inside(at) THEN at ELSE Outer(at)
<1>1. /\ pointerEvents' = Append(pointerEvents, Crossing("press", w, FALSE, at))
      /\ UNCHANGED <<at, pointerHolder, bound, trayInside, frameExists, clientExists, clientManaged, underMouse,
                     mousegrabber, drifted, refused>>
      /\ frozen = "none" /\ frozen' = IF pointerHolder = "none" THEN Grabbed ELSE "none"
      /\ trayPressed' = (trayPressed \/ (frozen' = "drawin" /\ at = "tray"))
      /\ at \in Spots /\ pointerEvents \in Seq(PointerEvent) /\ clientExists \in BOOLEAN /\ trayPressed \in BOOLEAN
  BY DEF Press, PointerIndInv, PointerTypeOK
<1>2. PICK e : e = Crossing("press", w, FALSE, at)
  OBVIOUS
<1>3. Grabbed \in {"none", "drawin", "client"} /\ (Grabbed = "client" => clientExists)
  BY DEF Grabbed
<1>4. w \in {"root", "drawin", "tray", "frame", "client"} /\ (pointerHolder = "none" /\ Grabbed # "none" => w = Grabbed)
  <2>1. (Inside(at) => at \in {"tray", "client"}) /\ Outer(at) \in {"root", "drawin", "frame"}
    BY DEF Inside, Outer
  <2> QED BY <1>3, <2>1
<1> HIDE DEF w
<1>5. e \in PointerEvent /\ e.kind = "press" /\ e.win = w /\ e.spot = at
  BY <1>1, <1>2, <1>4 DEF Crossing, PointerEvent
<1>6. \A f \in Known(at, clientExists, drifted) : Result(e, f) \subseteq Known(at, clientExists, drifted)
  <2>1. SUFFICES ASSUME NEW f \in Known(at, clientExists, drifted), NEW x \in Result(e, f)
                 PROVE  x \in Known(at, clientExists, drifted)
    OBVIOUS
  <2>2. PICK u : f = <<u, clientExists>>
    BY DEF Known
  <2>3. PICK v \in Under(e, u, clientExists) : x = <<v, clientExists>>
    BY <1>1, <1>5, <2>1, <2>2 DEF Result
  <2>4. v = u
    BY <1>5, <2>3 DEF Under
  <2> QED BY <2>2, <2>3, <2>4
<1>7. TellingInv'
  <2>1. Ends(Append(pointerEvents, e), <<underMouse, clientManaged>>, Known(at, clientExists, drifted))
    BY <1>1, <1>5, <1>6, EndsAppend DEF PointerIndInv, TellingInv
  <2> QED BY <1>1, <1>2, <2>1 DEF TellingInv
<1>8. /\ pointerEvents' \in Seq(PointerEvent)
      /\ NoEnd(pointerEvents) => NoEnd(pointerEvents')
      /\ \A v : w = v /\ (v = "drawin" => at # "tray") => Pressed(pointerEvents', v)
  <2>1. e.kind # "destroyed"
    BY <1>5
  <2> QED BY <1>1, <1>2, <1>5, <2>1, OneMoreEvent
<1>9. EndIsTold'
  BY <1>1, <1>8 DEF PointerIndInv, EndIsTold
<1>10. ThawInv'
  <2>1. (frozen' = "client" => clientExists') /\ (frozen' # "none" => pointerHolder' = "none")
    BY <1>1, <1>3
  <2>2. ASSUME frozen' # "none", ~trayPressed' PROVE Pressed(pointerEvents', frozen')
    <3>1. frozen' = w /\ (frozen' = "drawin" => at # "tray")
      BY <1>1, <1>4, <2>2
    <3> QED BY <1>8, <3>1
  <2> QED BY <1>1, <2>1, <2>2 DEF PointerIndInv, ThawInv
<1>11. PointerTypeOK'
  <2>1. frozen' \in {"none", "drawin", "client"} /\ trayPressed' \in BOOLEAN
    BY <1>1, <1>3
  <2> QED BY <1>1, <1>8, <2>1 DEF PointerIndInv, PointerTypeOK
<1> QED BY <1>7, <1>9, <1>10, <1>11 DEF PointerIndInv

LEMMA ClientDiesTold == ASSUME PointerIndInv, ClientDies PROVE PointerIndInv'
<1> DEFINE t == IF at = "client" /\ pointerHolder = "none" THEN <<Crossing("enter", "frame", TRUE, "client")>> ELSE <<>>
<1>1. /\ pointerEvents' = (pointerEvents \o t) \o <<Crossing("destroyed", "client", FALSE, at)>>
      /\ UNCHANGED <<at, pointerHolder, bound, trayInside, frameExists, clientManaged, underMouse, mousegrabber,
                     drifted, trayPressed, refused>>
      /\ clientExists = TRUE /\ clientExists' = FALSE /\ frozen' = IF frozen = "client" THEN "none" ELSE frozen
      /\ at \in Spots /\ pointerEvents \in Seq(PointerEvent) /\ frozen \in {"none", "drawin", "client"}
  BY DEF ClientDies, PointerIndInv, PointerTypeOK
<1>2. PICK e : e = Crossing("enter", "frame", TRUE, "client")
  OBVIOUS
<1>3. e \in PointerEvent /\ (t = <<>> \/ t = <<e>>)
  BY <1>2 DEF Crossing, PointerEvent, Spots
<1>4. PICK d : d = Crossing("destroyed", "client", FALSE, at)
  OBVIOUS
<1>5. d \in PointerEvent /\ d.kind = "destroyed"
  BY <1>1, <1>4 DEF Crossing, PointerEvent
<1>6. \A f \in Known(at, TRUE, drifted) : After(t, f) \subseteq Known(at, TRUE, drifted)
  <2>1. SUFFICES ASSUME NEW f \in Known(at, TRUE, drifted), NEW x \in After(t, f)
                 PROVE  x \in Known(at, TRUE, drifted)
    OBVIOUS
  <2>2. CASE at = "client" /\ pointerHolder = "none"
    <3>1. PICK u : f = <<u, TRUE>>
      BY DEF Known
    <3>2. x \in Result(Crossing("enter", "frame", TRUE, "client"), <<u, TRUE>>)
      BY <2>1, <2>2, <3>1 DEF After
    <3>3. x = <<IF "frame" = "drawin" /\ ~TRUE THEN "drawin"
                ELSE IF "frame" = "frame" /\ TRUE THEN ClientDrawable("client") ELSE u, TRUE>>
      BY <3>2, EnterResult
    <3>4. x = <<"none", TRUE>>
      BY <3>3 DEF ClientDrawable
    <3> QED BY <2>2, <3>4 DEF Known, OverAt
  <2>3. CASE ~(at = "client" /\ pointerHolder = "none")
    BY <2>1, <2>3 DEF After
  <2> QED BY <2>2, <2>3
<1>7. \A f \in Known(at, TRUE, drifted) : Result(d, f) \subseteq Known(at, FALSE, drifted)
  <2>1. SUFFICES ASSUME NEW f \in Known(at, TRUE, drifted), NEW x \in Result(d, f)
                 PROVE  x \in Known(at, FALSE, drifted)
    OBVIOUS
  <2>2. PICK u : /\ f = <<u, TRUE>>
                 /\ u \in IF drifted THEN {"none", "drawin", "titlebar"} ELSE {OverAt(at, TRUE)}
    BY DEF Known
  <2>3. PICK v \in Under(d, u, TRUE) : x = <<v, FALSE>>
    BY <1>5, <2>1, <2>2 DEF Result
  <2>4. v = IF u = "titlebar" THEN "none" ELSE u
    BY <1>5, <2>3 DEF Under
  <2>5. v \in IF drifted THEN {"none", "drawin", "titlebar"} ELSE {OverAt(at, FALSE)}
    BY <2>2, <2>4 DEF OverAt
  <2> QED BY <2>3, <2>5 DEF Known
<1>8. PICK p : p = pointerEvents \o t
  OBVIOUS
<1>9. p \in Seq(PointerEvent) /\ Ends(p, <<underMouse, clientManaged>>, Known(at, TRUE, drifted))
  <2>1. Ends(pointerEvents, <<underMouse, clientManaged>>, Known(at, TRUE, drifted))
    BY <1>1 DEF PointerIndInv, TellingInv
  <2> HIDE DEF t
  <2> QED BY <1>1, <1>3, <1>6, <1>8, <2>1, EndsAfter
<1>10. \A v : Pressed(pointerEvents, v) => Pressed(p, v)
  <2>1. t \in Seq(PointerEvent)
    <3>1. <<>> \in Seq(PointerEvent) /\ <<e>> \in Seq(PointerEvent)
      BY <1>3
    <3> QED BY <1>3, <3>1
  <2> HIDE DEF t
  <2> QED BY <1>1, <1>8, <2>1, LongerQueue
<1> HIDE DEF t
<1>11. pointerEvents' = Append(p, d)
  <2>1. pointerEvents' = p \o <<d>>
    BY <1>1, <1>4, <1>8
  <2>2. p \o <<d>> = Append(p, d)
    BY <1>5, <1>9
  <2> QED BY <2>1, <2>2
<1>12. TellingInv'
  <2>1. Ends(Append(p, d), <<underMouse, clientManaged>>, Known(at, FALSE, drifted))
    BY <1>5, <1>7, <1>9, EndsAppend
  <2> QED BY <1>1, <1>11, <2>1 DEF TellingInv
<1>13. EndIsTold'
  BY <1>1 DEF EndIsTold
<1>14. ThawInv'
  <2>1. \A v : Pressed(pointerEvents, v) => Pressed(pointerEvents', v)
    BY <1>5, <1>9, <1>10, <1>11, OneMoreEvent
  <2> QED BY <1>1, <2>1 DEF PointerIndInv, ThawInv
<1>15. PointerTypeOK'
  <2>1. pointerEvents' \in Seq(PointerEvent)
    BY <1>5, <1>9, <1>11, OneMoreEvent
  <2> QED BY <1>1, <2>1 DEF PointerIndInv, PointerTypeOK
<1> QED BY <1>12, <1>13, <1>14, <1>15 DEF PointerIndInv

LEMMA OtherGrabsTold == ASSUME PointerIndInv, OtherGrabs PROVE PointerIndInv'
<1>1. /\ UNCHANGED <<at, frozen, bound, trayInside, frameExists, clientExists, pointerEvents, clientManaged,
                     underMouse, mousegrabber, drifted, trayPressed, refused>>
      /\ frozen = "none" /\ pointerHolder # "awesome" /\ pointerHolder' \in {"none", "other"}
  BY DEF OtherGrabs
<1>2. TellingInv' /\ EndIsTold'
  BY <1>1 DEF PointerIndInv, TellingInv, EndIsTold
<1>3. ThawInv'
  BY <1>1 DEF PointerIndInv, ThawInv
<1> QED BY <1>1, <1>2, <1>3 DEF PointerIndInv, PointerTypeOK

-----------------------------------------------------------------------------
(* Awesome.                                                                *)

LEMMA HandleCrossingTold == ASSUME PointerIndInv, HandleCrossing PROVE PointerIndInv'
<1>1. PICK e : e = Head(pointerEvents)
  OBVIOUS
<1>2. /\ pointerEvents \in Seq(PointerEvent) /\ pointerEvents # <<>> /\ pointerEvents' = Tail(pointerEvents)
      /\ e.kind \in {"leave", "enter", "motion", "destroyed"}
      /\ underMouse' = CASE e.kind = "leave" -> Leave(e) [] e.kind = "enter" -> Enter(e)
                         [] e.kind = "motion" -> Motion(e) [] OTHER -> UnmanagedUnderMouse
      /\ clientManaged' = (clientManaged /\ e.kind # "destroyed")
      /\ UNCHANGED <<at, frozen, pointerHolder, bound, trayInside, frameExists, clientExists, mousegrabber, drifted,
                     trayPressed, refused>>
      /\ underMouse \in {"none", "drawin", "titlebar"} /\ clientManaged \in BOOLEAN
  BY <1>1 DEF HandleCrossing, pointerServerVars, PointerIndInv, PointerTypeOK
<1>3. e \in PointerEvent
  BY <1>1, <1>2, OneEventLess
<1>4. underMouse' \in Under(e, underMouse, clientManaged)
  <2>1. CASE e.kind = "leave"
    BY <1>2, <2>1 DEF Under, Leave
  <2>2. CASE e.kind = "enter"
    <3>1. underMouse' = Enter(e)
      BY <1>2, <2>2
    <3>2. Enter(e) = IF e.win = "drawin" /\ ~e.inferior THEN "drawin"
                     ELSE IF e.win = "frame" /\ clientManaged THEN ClientDrawable(e.spot) ELSE underMouse
      BY DEF Enter
    <3> QED BY <2>2, <3>1, <3>2 DEF Under
  <2>3. CASE e.kind = "motion"
    <3>1. underMouse' = Motion(e)
      BY <1>2, <2>3
    <3>2. Motion(e) = IF e.win = "drawin" THEN "drawin"
                      ELSE IF e.win = "frame" /\ clientManaged /\ ClientDrawable(e.spot) # "none"
                           THEN ClientDrawable(e.spot) ELSE underMouse
      BY DEF Motion
    <3> QED BY <2>3, <3>1, <3>2 DEF Under
  <2>4. CASE e.kind = "destroyed"
    BY <1>2, <2>4 DEF Under, UnmanagedUnderMouse
  <2> QED BY <1>2, <2>1, <2>2, <2>3, <2>4
<1>5. <<underMouse', clientManaged'>> \in Result(e, <<underMouse, clientManaged>>)
  BY <1>2, <1>4 DEF Result
<1>6. TellingInv'
  <2>1. Ends(Tail(pointerEvents), <<underMouse', clientManaged'>>, Known(at, clientExists, drifted))
    <3>1. Ends(pointerEvents, <<underMouse, clientManaged>>, Known(at, clientExists, drifted))
      BY DEF PointerIndInv, TellingInv
    <3> QED BY <1>1, <1>2, <1>5, <3>1, EndsTail
  <2> QED BY <1>2, <2>1 DEF TellingInv
<1>7. EndIsTold'
  BY <1>1, <1>2, OneEventLess DEF PointerIndInv, EndIsTold
<1>8. ThawInv'
  <2>1. \A w : Pressed(pointerEvents, w) => Pressed(pointerEvents', w)
    BY <1>1, <1>2, OneEventLess
  <2> QED BY <1>2, <2>1 DEF PointerIndInv, ThawInv
<1>9. PointerTypeOK'
  <2>1. underMouse' \in {"none", "drawin", "titlebar"}
    BY <1>2 DEF Leave, Enter, Motion, UnmanagedUnderMouse, ClientDrawable
  <2>2. pointerEvents' \in Seq(PointerEvent) /\ clientManaged' \in BOOLEAN
    BY <1>2, OneEventLess
  <2> QED BY <1>2, <2>1, <2>2 DEF PointerIndInv, PointerTypeOK
<1> QED BY <1>6, <1>7, <1>8, <1>9 DEF PointerIndInv

LEMMA DestroyFrameTold == ASSUME PointerIndInv, DestroyFrame PROVE PointerIndInv'
<1>1. /\ at \in Spots /\ at' = IF at \in {"titlebar", "client"} THEN "root" ELSE at
      /\ pointerEvents \in Seq(PointerEvent)
      /\ frameExists' = FALSE /\ bound' = bound \ {"client"} /\ ~clientManaged
      /\ UNCHANGED <<frozen, pointerHolder, trayInside, clientExists, clientManaged, underMouse, mousegrabber,
                     drifted, trayPressed, refused>>
      /\ clientExists = FALSE /\ drifted \in BOOLEAN
      /\ Ends(pointerEvents, <<underMouse, clientManaged>>, Known(at, clientExists, drifted))
  BY DEF DestroyFrame, PointerIndInv, PointerTypeOK, EndIsTold, TellingInv
<1>2. CASE at' = at \/ pointerHolder # "none"
  <2>1. pointerEvents' = pointerEvents
    BY <1>2 DEF DestroyFrame
  <2>2. OverAt(at, FALSE) = OverAt(at', FALSE)
    BY <1>1 DEF OverAt
  <2>3. TellingInv'
    BY <1>1, <2>1, <2>2 DEF TellingInv, Known
  <2>4. EndIsTold' /\ ThawInv'
    BY <1>1, <2>1 DEF PointerIndInv, EndIsTold, ThawInv
  <2>5. PointerTypeOK'
    BY <1>1, <2>1 DEF PointerIndInv, PointerTypeOK, Spots
  <2> QED BY <2>3, <2>4, <2>5 DEF PointerIndInv
<1>3. CASE ~(at' = at \/ pointerHolder # "none")
  <2>1. at' = "root" /\ at \in {"titlebar", "client"} /\ "root" \in Spots
    BY <1>1, <1>3 DEF Spots
  <2>2. pointerEvents' = pointerEvents \o Crossings(at, "root")
    BY <1>3, <2>1 DEF DestroyFrame
  <2>3. ~SamePlace(at, "root")
    BY <2>1, OuterOfSpots DEF SamePlace
  <2>4. PICK lost : lost = (drifted /\ (\/ {at, "root"} = {"drawin", "tray"}
                                        \/ at = "root" /\ "root" \in {"titlebar", "client"} /\ ~clientExists))
    OBVIOUS
  <2>5. /\ pointerEvents \o Crossings(at, "root") \in Seq(PointerEvent)
        /\ Ends(pointerEvents \o Crossings(at, "root"), <<underMouse, clientManaged>>, Known("root", clientExists, lost))
        /\ Crossings(at, "root") \in Seq(PointerEvent)
        /\ \A i \in 1..Len(Crossings(at, "root")) : Crossings(at, "root")[i].kind \in {"leave", "enter"}
    BY <1>1, <2>1, <2>3, <2>4, CrossingsTell
  <2>6. lost = FALSE
    BY <2>1, <2>4
  <2>7. Known("root", clientExists, lost) \subseteq Known("root", clientExists, drifted)
    BY <2>6 DEF Known, OverAt
  <2>8. TellingInv'
    BY <1>1, <2>1, <2>2, <2>5, <2>7, EndsMore DEF TellingInv
  <2>9. EndIsTold' /\ ThawInv'
    BY <1>1, <2>2, <2>5, LongerQueue DEF PointerIndInv, EndIsTold, ThawInv
  <2>10. PointerTypeOK'
    BY <1>1, <2>1, <2>2, <2>5 DEF PointerIndInv, PointerTypeOK
  <2> QED BY <2>8, <2>9, <2>10 DEF PointerIndInv
<1> QED BY <1>2, <1>3

LEMMA LuaGrabsTold == ASSUME PointerIndInv, LuaGrabs PROVE PointerIndInv'
<1>1. /\ UNCHANGED <<at, bound, trayInside, frameExists, clientExists, pointerEvents, clientManaged, underMouse,
                     drifted, trayPressed>>
      /\ pointerHolder \in {"none", "awesome", "other"} /\ frozen \in {"none", "drawin", "client"}
      /\ refused \in BOOLEAN /\ mousegrabber \in BOOLEAN
  BY DEF LuaGrabs, PointerIndInv, PointerTypeOK
<1>2. TellingInv' /\ EndIsTold'
  BY <1>1 DEF PointerIndInv, TellingInv, EndIsTold
<1>3. CASE ~mousegrabber /\ RunGrabber /\ frozen' = IF pointerHolder' = "awesome" THEN "none" ELSE frozen
  <2>1. ThawInv'
    BY <1>1, <1>3 DEF PointerIndInv, ThawInv, RunGrabber
  <2>2. PointerTypeOK'
    BY <1>1, <1>3 DEF PointerIndInv, PointerTypeOK, RunGrabber
  <2> QED BY <1>2, <2>1, <2>2 DEF PointerIndInv
<1>4. CASE mousegrabber /\ StopGrabber /\ UNCHANGED <<frozen, refused>>
  <2>1. ThawInv'
    BY <1>1, <1>4 DEF PointerIndInv, ThawInv, StopGrabber
  <2>2. PointerTypeOK'
    BY <1>1, <1>4 DEF PointerIndInv, PointerTypeOK, StopGrabber
  <2> QED BY <1>2, <2>1, <2>2 DEF PointerIndInv
<1> QED BY <1>3, <1>4 DEF LuaGrabs

LEMMA SetButtonsTold == ASSUME PointerIndInv, NEW w \in {"drawin", "client"}, SetButtons(w) PROVE PointerIndInv'
<1>1. UNCHANGED <<at, frozen, pointerHolder, trayInside, frameExists, clientExists, pointerEvents, clientManaged,
                  underMouse, mousegrabber, drifted, trayPressed, refused>>
      /\ bound' \in {bound \cup {w}, bound \ {w}}
  BY DEF SetButtons
<1>2. TellingInv' /\ EndIsTold' /\ ThawInv'
  BY <1>1 DEF PointerIndInv, TellingInv, EndIsTold, ThawInv
<1> QED BY <1>1, <1>2 DEF PointerIndInv, PointerTypeOK

\* An event for the mousegrabber, or a press, leaves what is under the mouse as it is.
LEMMA HeardElsewhere ==
    ASSUME PointerIndInv, pointerEvents # <<>>, Head(pointerEvents).kind \in {"press", "motion"},
           pointerEvents' = Tail(pointerEvents),
           UNCHANGED <<at, clientExists, clientManaged, underMouse, drifted>>
    PROVE  TellingInv' /\ EndIsTold' /\ pointerEvents' \in Seq(PointerEvent)
<1>1. PICK e : e = Head(pointerEvents)
  OBVIOUS
<1>2. pointerEvents \in Seq(PointerEvent) /\ clientManaged \in BOOLEAN /\ e.kind \in {"press", "motion"}
  BY <1>1 DEF PointerIndInv, PointerTypeOK
<1>3. underMouse \in Under(e, underMouse, clientManaged)
  BY <1>2 DEF Under
<1>4. <<underMouse, clientManaged>> \in Result(e, <<underMouse, clientManaged>>)
  BY <1>2, <1>3 DEF Result
<1>5. Ends(Tail(pointerEvents), <<underMouse, clientManaged>>, Known(at, clientExists, drifted))
  <2>1. Ends(pointerEvents, <<underMouse, clientManaged>>, Known(at, clientExists, drifted))
    BY DEF PointerIndInv, TellingInv
  <2> QED BY <1>1, <1>2, <1>4, <2>1, EndsTail
<1>6. TellingInv'
  BY <1>5 DEF TellingInv
<1>7. EndIsTold'
  BY <1>2, OneEventLess DEF PointerIndInv, EndIsTold
<1> QED BY <1>2, <1>6, <1>7, OneEventLess

LEMMA GrabberHearsTold == ASSUME PointerIndInv, GrabberHears PROVE PointerIndInv'
<1>1. /\ UNCHANGED <<at, frozen, bound, trayInside, frameExists, clientExists, clientManaged, underMouse, drifted,
                     trayPressed, refused>>
      /\ mousegrabber /\ (UNCHANGED <<mousegrabber, pointerHolder>> \/ StopGrabber)
  BY DEF GrabberHears
<1>2. TellingInv' /\ EndIsTold' /\ pointerEvents' \in Seq(PointerEvent)
  BY <1>1, HeardElsewhere DEF GrabberHears
<1>3. mousegrabber' \in BOOLEAN /\ pointerHolder' \in {"none", "awesome", "other"}
  BY <1>1 DEF StopGrabber, PointerIndInv, PointerTypeOK
<1>4. PointerTypeOK'
  BY <1>1, <1>2, <1>3 DEF PointerIndInv, PointerTypeOK
<1>5. ThawInv'
  <2>1. ~refused => (mousegrabber' <=> pointerHolder' = "awesome")
    BY <1>1 DEF StopGrabber, PointerIndInv, ThawInv
  <2>2. frozen # "none" => pointerHolder' = "none" /\ refused
    BY <1>1 DEF StopGrabber, PointerIndInv, ThawInv
  <2> QED BY <1>1, <2>1, <2>2 DEF PointerIndInv, ThawInv
<1> QED BY <1>2, <1>4, <1>5 DEF PointerIndInv

LEMMA HandleButtonTold == ASSUME PointerIndInv, HandleButton PROVE PointerIndInv'
<1>1. PICK e : e = Head(pointerEvents)
  OBVIOUS
<1>2. /\ UNCHANGED <<at, bound, trayInside, frameExists, clientExists, clientManaged, underMouse, drifted, trayPressed>>
      /\ ~mousegrabber /\ (RunGrabber \/ UNCHANGED <<mousegrabber, pointerHolder, refused>>)
      /\ frozen' = IF Allowed(e) \/ pointerHolder' = "awesome" THEN "none" ELSE frozen
      /\ pointerEvents # <<>> /\ pointerEvents' = Tail(pointerEvents) /\ e.kind = "press"
      /\ pointerEvents \in Seq(PointerEvent) /\ frozen \in {"none", "drawin", "client"}
      /\ pointerHolder \in {"none", "awesome", "other"} /\ refused \in BOOLEAN
  BY <1>1 DEF HandleButton, PointerIndInv, PointerTypeOK
<1>3. TellingInv' /\ EndIsTold' /\ pointerEvents' \in Seq(PointerEvent)
  BY <1>1, <1>2, HeardElsewhere
<1>4. /\ mousegrabber' \in BOOLEAN /\ pointerHolder' \in {"none", "awesome", "other"} /\ refused' \in BOOLEAN
      /\ frozen' \in {"none", "drawin", "client"}
  BY <1>2 DEF RunGrabber, PointerIndInv, PointerTypeOK
<1>5. PointerTypeOK'
  BY <1>2, <1>3, <1>4 DEF PointerIndInv, PointerTypeOK
<1>6. frozen' # "none" =>
         frozen' = frozen /\ ~Allowed(e) /\ pointerHolder' # "awesome" /\ pointerHolder = "none"
  BY <1>2 DEF PointerIndInv, ThawInv
<1>7. frozen' # "none" => UNCHANGED <<mousegrabber, pointerHolder, refused>>
  BY <1>2, <1>6 DEF RunGrabber
<1>8. ~refused' => (mousegrabber' <=> pointerHolder' = "awesome")
  <2>1. CASE RunGrabber
    BY <1>2, <2>1 DEF RunGrabber
  <2>2. CASE UNCHANGED <<mousegrabber, pointerHolder, refused>>
    BY <2>2 DEF PointerIndInv, ThawInv
  <2> QED BY <1>2, <2>1, <2>2
<1>9. ASSUME frozen' # "none", ~trayPressed', ~refused' PROVE Pressed(pointerEvents', frozen')
  <2>1. Pressed(pointerEvents, frozen) /\ (frozen = "client" => clientManaged)
    BY <1>2, <1>6, <1>7, <1>9 DEF PointerIndInv, ThawInv, EndIsTold
  <2>2. ~(e.win = frozen /\ (frozen = "drawin" => e.spot # "tray"))
    BY <1>2, <1>6, <1>9, <2>1 DEF Allowed
  <2>3. Pressed(Tail(pointerEvents), frozen)
    BY <1>1, <1>2, <2>1, <2>2, OneEventLess
  <2> QED BY <1>2, <1>6, <1>9, <2>3
<1>10. ThawInv'
  BY <1>2, <1>6, <1>7, <1>8, <1>9 DEF PointerIndInv, ThawInv
<1> QED BY <1>3, <1>5, <1>10 DEF PointerIndInv

\* A press is answered, and awesome knows where the pointer is: when every event is handled, the
\* pointer is frozen in two cases only, and drawable_under_mouse is what the pointer is over.
THEOREM PressesAreAnswered == PointerSpec => []PointerInv
<1>1. PointerInit => PointerIndInv
  <2> SUFFICES ASSUME PointerInit PROVE PointerIndInv
    OBVIOUS
  <2>1. TellingInv
    <3>1. ASSUME NEW g, Handled(<<>>, <<"none", TRUE>>, g) PROVE g[Len(<<>>)] \in Known("root", TRUE, FALSE)
      <4>1. Len(<<>>) = 0 /\ g[0] = <<"none", TRUE>>
        BY <3>1 DEF Handled
      <4> QED BY <4>1 DEF Known, OverAt
    <3>2. Ends(<<>>, <<"none", TRUE>>, Known("root", TRUE, FALSE))
      BY <3>1 DEF Ends
    <3> QED BY <3>2 DEF PointerInit, TellingInv
  <2>2. EndIsTold /\ ThawInv
    BY DEF PointerInit, EndIsTold, NoEnd, ThawInv
  <2>3. <<>> \in Seq(PointerEvent)
    OBVIOUS
  <2>4. PointerTypeOK
    BY <2>3 DEF PointerInit, PointerTypeOK, Spots
  <2> QED BY <2>1, <2>2, <2>4 DEF PointerIndInv
<1>2. PointerIndInv /\ [PointerNext]_pointerVars => PointerIndInv'
  <2> SUFFICES ASSUME PointerIndInv, [PointerNext]_pointerVars PROVE PointerIndInv'
    OBVIOUS
  <2>1. ASSUME NEW spot \in Spots, MovePointer(spot) PROVE PointerIndInv'
    BY <2>1, MoveTold
  <2>2. ASSUME NEW w \in {"drawin", "client"}, SetButtons(w) PROVE PointerIndInv'
    BY <2>2, SetButtonsTold
  <2>3. CASE UNCHANGED pointerVars
    BY <2>3 DEF pointerVars, pointerServerVars, PointerIndInv, PointerTypeOK, TellingInv, EndIsTold, ThawInv
  <2> QED BY <2>1, <2>2, <2>3, JiggleTold, PressTold, OtherGrabsTold, ClientDiesTold, HandleCrossingTold,
             DestroyFrameTold, LuaGrabsTold, GrabberHearsTold, HandleButtonTold DEF PointerNext
<1>3. PointerIndInv => PointerInv
  <2> SUFFICES ASSUME PointerIndInv PROVE PointerInv
    OBVIOUS
  <2>1. PointerThaws
    <3>1. ~Pressed(<<>>, frozen)
      BY DEF Pressed
    <3> QED BY <3>1 DEF PointerThaws, PointerIndInv, ThawInv
  <2>2. ASSUME pointerEvents = <<>>, ~drifted PROVE underMouse = Over
    <3>1. <<underMouse, clientManaged>> \in Known(at, clientExists, drifted)
      BY <2>2, EndsNone DEF PointerIndInv, TellingInv
    <3>2. underMouse = OverAt(at, clientExists) /\ clientManaged = clientExists
      BY <2>2, <3>1 DEF Known
    <3>3. OverAt(at, clientExists) = Over
      BY <3>2 DEF OverAt, Over
    <3> QED BY <3>2, <3>3
  <2> QED BY <2>1, <2>2 DEF PointerInv, PointerIndInv, UnderMouseIsRight
<1> QED BY <1>1, <1>2, <1>3, PTL DEF PointerSpec

-----------------------------------------------------------------------------
(* Tray.                                                                    *)

\* What a queue has, once, last of some, or in some order.
Has(q, e) == \E i \in 1..Len(q) : q[i] = e
HasAny(q, S) == \E i \in 1..Len(q) : q[i] \in S
Once(q, e) == \A i, j \in 1..Len(q) : q[i] = e /\ q[j] = e => i = j
LastIs(q, e, S) == \E i \in 1..Len(q) : q[i] = e /\ \A j \in i + 1..Len(q) : q[j] \notin S
Follows(q, e, f) == \A i \in 1..Len(q) : q[i] = e => \E j \in i + 1..Len(q) : q[j] = f
Precedes(q, e, f) == \A i \in 1..Len(q) : q[i] = e => \E j \in 1..i - 1 : q[j] = f
AllBefore(q, e, f) == \A i, j \in 1..Len(q) : q[i] = e /\ q[j] = f => i < j

\* awesome's requests that are not executed, and the news of applications.
Cell == [win : Icon, mapped : BOOLEAN]
Puts == {"put"} \X (TrayDrawin \cup {"root"})
Layouts == {"layout"} \X {LayOut(l, rows) : l \in Seq(Cell), rows \in TrayRows}
TrayMaps == Layouts \cup {"unmapTray"} \X {NoDrawin}
Shows == TrayMaps \cup {"map", "unmap"} \X Icon
TrayRequest == {"read", "select", "embed"} \X Icon \cup {"destroy"} \X TrayDrawin \cup Puts \cup Shows
TrayEvent == {"dock", "info", "map", "moved", "destroyed"} \X Icon
News(w) == {<<"info", w>>, <<"map", w>>}

\* An icon in the list is inside of the tray, or is about to be, or has left it, which awesome
\* is about to hear; another icon is none of these.  Who destroys its window is heard last.
Taken(w) == w \in Embedded \/ handling = <<"dock", w>>
Listed ==
    /\ \A i, j \in 1..Len(embedded) : embedded[i].win = embedded[j].win => i = j
    /\ \A w \in Icon : handling = <<"dock", w>> => w \notin Embedded
PlaceOf(w) ==
    Exists(w) =>
        /\ Has(trayRequests, <<"embed", w>>) => Taken(w) /\ trayPlace[w] # "tray" /\ ~Has(trayEvents, <<"moved", w>>)
        /\ trayPlace[w] = "tray" => Taken(w) /\ ~Has(trayEvents, <<"moved", w>>)
        /\ Has(trayEvents, <<"moved", w>>) => Taken(w)
        /\ Taken(w) => \/ Has(trayRequests, <<"embed", w>>) \/ trayPlace[w] = "tray"
                       \/ Has(trayEvents, <<"moved", w>>)
        /\ Once(trayRequests, <<"embed", w>>) /\ Once(trayEvents, <<"moved", w>>)
GoneOf(w) ==
    /\ Has(trayEvents, <<"destroyed", w>>) => ~Exists(w)
    /\ Once(trayEvents, <<"destroyed", w>>)
    /\ ~Exists(w) => /\ Taken(w) => Has(trayEvents, <<"destroyed", w>>)
                     /\ Follows(trayEvents, <<"dock", w>>, <<"destroyed", w>>)

\* The property is read once, for the handler that waits for it; and before its changes are told.
ReadOf(w) ==
    /\ Has(trayRequests, <<"read", w>>) => handling \in {<<"dock", w>>, <<"info", w>>} /\ trayReply = "waiting"
    /\ Once(trayRequests, <<"read", w>>)
    /\ handling = <<"info", w>> => w \in Embedded
    /\ handling = <<"info", w>> \/ Has(trayEvents, <<"info", w>>) => xembedInfo[w] # "none"
SelectedOf(w) ==
    w \notin iconSelected =>
        /\ Exists(w) /\ Taken(w) => Has(trayRequests, <<"select", w>>)
        /\ Precedes(trayRequests, <<"embed", w>>, <<"select", w>>)
        /\ trayPlace[w] # "tray" /\ ~Has(trayEvents, <<"info", w>>) /\ handling # <<"info", w>>

\* The last news of an icon that stays in the tray, a property or a MapRequest, decides whether it is
\* to be shown; without news, what was read does.
AsksOf(w) ==
    Exists(w) /\ trayPlace[w] # "tray" =>
        w \notin asksMap /\ Follows(trayEvents, <<"map", w>>, <<"moved", w>>)
WantedOf(w) ==
    Exists(w) /\ Taken(w) /\ ~Has(trayEvents, <<"moved", w>>) /\ w \notin missed =>
        /\ LastIs(trayEvents, <<"map", w>>, News(w)) => w \in asksMap
        /\ LastIs(trayEvents, <<"info", w>>, News(w)) => w \notin asksMap
        /\ ~HasAny(trayEvents, News(w)) =>
              IF handling \in {<<"dock", w>>, <<"info", w>>}
              THEN w \notin asksMap /\ trayReply \in {"waiting", xembedInfo[w]}
              ELSE IsFlagged(w) = Wanted(w)
IconInv(w) == PlaceOf(w) /\ GoneOf(w) /\ ReadOf(w) /\ SelectedOf(w) /\ AsksOf(w) /\ WantedOf(w)

\* The last layout is that of the list, unless awesome has told Lua code to make another; without
\* icons to show the tray is unmapped.
LaidOut(layout) ==
    \/ LastIs(trayRequests, <<"layout", layout>>, Shows)
    \/ /\ ~HasAny(trayRequests, Shows)
       /\ trayMapped /\ cells = layout.cells /\ traySize = layout.size
       /\ \A w \in Embedded : w \in iconMapped <=> IsFlagged(w)
TrayLayoutInv ==
    /\ Visible(embedded) = {} =>
          \/ LastIs(trayRequests, <<"unmapTray", NoDrawin>>, TrayMaps)
          \/ ~trayMapped /\ ~HasAny(trayRequests, TrayMaps)
    /\ ~trayStale /\ Visible(embedded) # {} =>
          \E rows \in TrayRows, l \in {embedded, Reverse(embedded)} : LaidOut(LayOut(l, rows))

\* The tray goes to where awesome has put it last, and is elsewhere when a drawin is destroyed.
Where(d) == IF d = NoDrawin THEN "root" ELSE d
IsAway(q, in, d) ==
    \A i \in 1..Len(q) : q[i] = <<"destroy", d>> =>
        \A k \in 0..i - 1 : (IF k = 0 THEN in = d ELSE q[k] = <<"put", d>>) => \E m \in k + 1..i - 1 : q[m] \in Puts
DrawinOf(q, parent, gone) ==
    /\ parent \notin gone
    /\ \/ LastIs(q, <<"put", Where(parent)>>, Puts)
       \/ trayIn = Where(parent) /\ ~HasAny(q, Puts)
    /\ \A d \in TrayDrawin :
          /\ d \notin gone => d \in trayDrawins /\ ~Has(q, <<"destroy", d>>)
          /\ Has(q, <<"put", d>>) => d \in trayDrawins
          /\ AllBefore(q, <<"put", d>>, <<"destroy", d>>)
          /\ IsAway(q, trayIn, d)
DrawinInv == trayIn # "gone" /\ DrawinOf(trayRequests, trayParent, collected)

TypesInv ==
    /\ TrayTypeOK /\ asksMap \subseteq Icon /\ missed \subseteq Icon
    /\ trayRequests \in Seq(TrayRequest)

TrayIndInv == TypesInv /\ Listed /\ (\A w \in Icon : IconInv(w)) /\ TrayLayoutInv /\ DrawinInv
-----------------------------------------------------------------------------
(* Queues with one more or one less.                                       *)

LEMMA OneMore ==
    ASSUME NEW T, NEW s \in Seq(T), NEW r \in T, NEW t, t = Append(s, r)
    PROVE  /\ t \in Seq(T) /\ Len(s) \in Nat /\ Len(t) = Len(s) + 1 /\ t[Len(s) + 1] = r
           /\ \A i \in 1..Len(s) : t[i] = s[i]
           /\ \A i \in 1..Len(t) : i \in 1..Len(s) \/ i = Len(s) + 1
           /\ 1..Len(s) \subseteq 1..Len(t) /\ Len(s) + 1 \in 1..Len(t)
  BY AppendProperties, LenProperties

LEMMA OneLess ==
    ASSUME NEW T, NEW s \in Seq(T), s # <<>>, NEW t, t = Tail(s)
    PROVE  /\ t \in Seq(T) /\ Len(s) \in Nat \ {0} /\ Len(t) = Len(s) - 1 /\ Head(s) = s[1] /\ Head(s) \in T
           /\ 1 \in 1..Len(s)
           /\ \A i \in 1..Len(t) : i + 1 \in 1..Len(s) /\ t[i] = s[i + 1]
           /\ \A i \in 1..Len(s) : i = 1 \/ (i - 1 \in 1..Len(t) /\ t[i - 1] = s[i])
<1>1. Len(s) \in Nat \ {0} /\ Len(t) = Len(s) - 1 /\ t \in Seq(T) /\ Head(s) = s[1]
  BY HeadTailProperties, EmptySeq, LenProperties
<1>2. \A i \in 1..Len(t) : t[i] = s[i + 1]
  BY HeadTailProperties, EmptySeq
<1>3. Head(s) \in T
  BY HeadTailProperties, EmptySeq
<1>4. \A i \in 1..Len(t) : i + 1 \in 1..Len(s)
  BY <1>1
<1>5. ASSUME NEW i \in 1..Len(s), i # 1 PROVE i - 1 \in 1..Len(t) /\ t[i - 1] = s[i]
  <2>1. i - 1 \in 1..Len(t) /\ (i - 1) + 1 = i
    BY <1>1, <1>5
  <2> QED BY <1>2, <2>1
<1> QED BY <1>1, <1>2, <1>3, <1>4, <1>5

LEMMA HasMore ==
    ASSUME NEW T, NEW s \in Seq(T), NEW r \in T
    PROVE  /\ \A e : Has(Append(s, r), e) <=> Has(s, e) \/ r = e
           /\ \A S : HasAny(Append(s, r), S) <=> HasAny(s, S) \/ r \in S
<1>1. PICK t : t = Append(s, r)
  OBVIOUS
<1>2. \A e : Has(t, e) <=> Has(s, e) \/ r = e
  BY <1>1, OneMore DEF Has
<1>3. \A S : HasAny(t, S) <=> HasAny(s, S) \/ r \in S
  BY <1>1, OneMore DEF HasAny
<1> QED BY <1>1, <1>2, <1>3

LEMMA HasLess ==
    ASSUME NEW T, NEW s \in Seq(T), s # <<>>
    PROVE  /\ \A e : Has(s, e) <=> Has(Tail(s), e) \/ Head(s) = e
           /\ \A S : HasAny(s, S) <=> HasAny(Tail(s), S) \/ Head(s) \in S
<1>1. PICK t : t = Tail(s)
  OBVIOUS
<1>2. ASSUME NEW e PROVE Has(s, e) <=> Has(t, e) \/ Head(s) = e
  <2>1. Has(s, e) => Has(t, e) \/ Head(s) = e
    BY <1>1, OneLess DEF Has
  <2>2. Has(t, e) => Has(s, e)
    BY <1>1, OneLess DEF Has
  <2>3. Head(s) = e => Has(s, e)
    BY <1>1, OneLess DEF Has
  <2> QED BY <2>1, <2>2, <2>3
<1>3. \A S : HasAny(s, S) <=> HasAny(t, S) \/ Head(s) \in S
  BY <1>1, OneLess DEF HasAny
<1> QED BY <1>1, <1>2, <1>3

LEMMA OnceMore ==
    ASSUME NEW T, NEW s \in Seq(T), NEW r \in T, NEW e, Once(s, e), r = e => ~Has(s, e)
    PROVE  Once(Append(s, r), e)
<1>1. PICK t : t = Append(s, r)
  OBVIOUS
<1>2. ASSUME NEW i \in 1..Len(t), NEW j \in 1..Len(t), t[i] = e, t[j] = e PROVE i = j
  BY <1>1, <1>2, OneMore DEF Once, Has
<1>3. Once(t, e)
  BY <1>2 DEF Once
<1> QED BY <1>1, <1>3

LEMMA OnceLess ==
    ASSUME NEW T, NEW s \in Seq(T), s # <<>>, NEW e, Once(s, e)
    PROVE  Once(Tail(s), e) /\ (Head(s) = e => ~Has(Tail(s), e))
<1>1. PICK t : t = Tail(s)
  OBVIOUS
<1>2. ASSUME NEW i \in 1..Len(t), NEW j \in 1..Len(t), t[i] = e, t[j] = e PROVE i = j
  <2>1. i + 1 = j + 1
    BY <1>1, <1>2, OneLess DEF Once
  <2> QED BY <2>1
<1>3. ASSUME NEW i \in 1..Len(t), t[i] = e, Head(s) = e PROVE FALSE
  <2>1. i + 1 = 1
    BY <1>1, <1>3, OneLess DEF Once
  <2> QED BY <2>1
<1>4. Once(t, e) /\ (Head(s) = e => ~Has(t, e))
  BY <1>2, <1>3 DEF Once, Has
<1> QED BY <1>1, <1>4

LEMMA LastMore ==
    ASSUME NEW T, NEW s \in Seq(T), NEW r \in T, NEW S
    PROVE  \A e \in S : LastIs(Append(s, r), e, S) <=> (r = e \/ (r \notin S /\ LastIs(s, e, S)))
<1> TAKE e \in S
<1>1. PICK t : t = Append(s, r)
  OBVIOUS
<1>2. /\ Len(s) \in Nat /\ Len(t) = Len(s) + 1 /\ t[Len(s) + 1] = r /\ \A i \in 1..Len(s) : t[i] = s[i]
      /\ \A i \in 1..Len(t) : i \in 1..Len(s) \/ i = Len(s) + 1
      /\ 1..Len(s) \subseteq 1..Len(t) /\ Len(s) + 1 \in 1..Len(t)
  BY <1>1, OneMore
<1>3. ASSUME r = e PROVE LastIs(t, e, S)
  <2>1. \A j \in (Len(s) + 1) + 1..Len(t) : FALSE
    BY <1>2
  <2> QED BY <1>2, <1>3, <2>1 DEF LastIs
<1>4. ASSUME r \notin S, LastIs(s, e, S) PROVE LastIs(t, e, S)
  <2>1. PICK i \in 1..Len(s) : s[i] = e /\ \A j \in i + 1..Len(s) : s[j] \notin S
    BY <1>4 DEF LastIs
  <2>2. ASSUME NEW j \in i + 1..Len(t) PROVE t[j] \notin S
    <3>1. (j \in i + 1..Len(s) /\ j \in 1..Len(s)) \/ j = Len(s) + 1
      BY <1>2
    <3> QED BY <1>2, <1>4, <2>1, <3>1
  <2>3. i \in 1..Len(t) /\ t[i] = e
    BY <1>2, <2>1
  <2> QED BY <2>2, <2>3 DEF LastIs
<1>5. ASSUME LastIs(t, e, S), r # e PROVE r \notin S /\ LastIs(s, e, S)
  <2>1. PICK i \in 1..Len(t) : t[i] = e /\ \A j \in i + 1..Len(t) : t[j] \notin S
    BY <1>5 DEF LastIs
  <2>2. i \in 1..Len(s)
    BY <1>2, <1>5, <2>1
  <2>3. Len(s) + 1 \in i + 1..Len(t)
    BY <1>2, <2>2
  <2>4. r \notin S
    BY <1>2, <2>1, <2>3
  <2>5. ASSUME NEW j \in i + 1..Len(s) PROVE s[j] \notin S
    <3>1. j \in i + 1..Len(t) /\ j \in 1..Len(s)
      BY <1>2
    <3> QED BY <1>2, <2>1, <3>1
  <2>6. s[i] = e
    BY <1>2, <2>1, <2>2
  <2> QED BY <2>2, <2>4, <2>5, <2>6 DEF LastIs
<1>6. LastIs(t, e, S) <=> (r = e \/ (r \notin S /\ LastIs(s, e, S)))
  BY <1>3, <1>4, <1>5
<1> QED BY <1>1, <1>6

LEMMA LastLess ==
    ASSUME NEW T, NEW s \in Seq(T), s # <<>>, NEW S
    PROVE  \A e \in S : LastIs(s, e, S) <=> (LastIs(Tail(s), e, S) \/ (Head(s) = e /\ ~HasAny(Tail(s), S)))
<1> TAKE e \in S
<1>1. PICK t : t = Tail(s)
  OBVIOUS
<1>2. /\ Len(s) \in Nat \ {0} /\ Len(t) = Len(s) - 1 /\ Head(s) = s[1] /\ 1 \in 1..Len(s)
      /\ \A i \in 1..Len(t) : i + 1 \in 1..Len(s) /\ t[i] = s[i + 1]
      /\ \A i \in 1..Len(s) : i = 1 \/ (i - 1 \in 1..Len(t) /\ t[i - 1] = s[i])
  BY <1>1, OneLess
<1>3. ASSUME LastIs(t, e, S) PROVE LastIs(s, e, S)
  <2>1. PICK i \in 1..Len(t) : t[i] = e /\ \A j \in i + 1..Len(t) : t[j] \notin S
    BY <1>3 DEF LastIs
  <2>2. i + 1 \in 1..Len(s) /\ s[i + 1] = e
    BY <1>2, <2>1
  <2>3. ASSUME NEW j \in (i + 1) + 1..Len(s) PROVE s[j] \notin S
    <3>1. j - 1 \in i + 1..Len(t) /\ j \in 1..Len(s) /\ j # 1
      BY <1>2
    <3> QED BY <1>2, <2>1, <3>1
  <2> QED BY <2>2, <2>3 DEF LastIs
<1>4. ASSUME Head(s) = e, ~HasAny(t, S) PROVE LastIs(s, e, S)
  <2>1. ASSUME NEW j \in 1 + 1..Len(s) PROVE s[j] \notin S
    <3>1. j \in 1..Len(s) /\ j # 1
      BY <1>2
    <3> QED BY <1>2, <1>4, <3>1 DEF HasAny
  <2> QED BY <1>2, <1>4, <2>1 DEF LastIs
<1>5. ASSUME LastIs(s, e, S) PROVE LastIs(t, e, S) \/ (Head(s) = e /\ ~HasAny(t, S))
  <2>1. PICK i \in 1..Len(s) : s[i] = e /\ \A j \in i + 1..Len(s) : s[j] \notin S
    BY <1>5 DEF LastIs
  <2>2. CASE i = 1
    <3>1. ASSUME NEW j \in 1..Len(t) PROVE t[j] \notin S
      <4>1. j + 1 \in i + 1..Len(s)
        BY <1>2, <2>2
      <4> QED BY <1>2, <2>1, <4>1
    <3> QED BY <1>2, <2>1, <2>2, <3>1 DEF HasAny
  <2>3. CASE i # 1
    <3>1. i - 1 \in 1..Len(t) /\ t[i - 1] = e
      BY <1>2, <2>1, <2>3
    <3>2. ASSUME NEW j \in (i - 1) + 1..Len(t) PROVE t[j] \notin S
      <4>1. j + 1 \in i + 1..Len(s) /\ j \in 1..Len(t)
        BY <1>2, <2>3
      <4> QED BY <1>2, <2>1, <4>1
    <3> QED BY <3>1, <3>2 DEF LastIs
  <2> QED BY <2>2, <2>3
<1>6. LastIs(s, e, S) <=> (LastIs(t, e, S) \/ (Head(s) = e /\ ~HasAny(t, S)))
  BY <1>3, <1>4, <1>5
<1> QED BY <1>1, <1>6

LEMMA FollowsMore ==
    ASSUME NEW T, NEW s \in Seq(T), NEW r \in T, NEW e, NEW f, e # f, r = f \/ (r # e /\ Follows(s, e, f))
    PROVE  Follows(Append(s, r), e, f)
<1>1. PICK t : t = Append(s, r)
  OBVIOUS
<1>2. /\ Len(s) \in Nat /\ Len(t) = Len(s) + 1 /\ t[Len(s) + 1] = r /\ \A i \in 1..Len(s) : t[i] = s[i]
      /\ \A i \in 1..Len(t) : i \in 1..Len(s) \/ i = Len(s) + 1
  BY <1>1, OneMore
<1>3. ASSUME NEW i \in 1..Len(t), t[i] = e PROVE \E j \in i + 1..Len(t) : t[j] = f
  <2>1. CASE r = f
    <3>1. Len(s) + 1 \in i + 1..Len(t)
      BY <1>2, <1>3, <2>1
    <3> QED BY <1>2, <2>1, <3>1
  <2>2. CASE r # e /\ Follows(s, e, f)
    <3>1. i \in 1..Len(s) /\ s[i] = e
      BY <1>2, <1>3, <2>2
    <3>2. PICK j \in i + 1..Len(s) : s[j] = f
      BY <2>2, <3>1 DEF Follows
    <3>3. j \in i + 1..Len(t) /\ j \in 1..Len(s)
      BY <1>2, <3>1
    <3> QED BY <1>2, <3>2, <3>3
  <2> QED BY <2>1, <2>2
<1>4. Follows(t, e, f)
  BY <1>3 DEF Follows
<1> QED BY <1>1, <1>4

LEMMA FollowsLess ==
    ASSUME NEW T, NEW s \in Seq(T), s # <<>>, NEW e, NEW f, Follows(s, e, f)
    PROVE  Follows(Tail(s), e, f) /\ (Head(s) = e => Has(Tail(s), f))
<1>1. PICK t : t = Tail(s)
  OBVIOUS
<1>2. /\ Len(s) \in Nat \ {0} /\ Len(t) = Len(s) - 1 /\ Head(s) = s[1] /\ 1 \in 1..Len(s)
      /\ \A i \in 1..Len(t) : i + 1 \in 1..Len(s) /\ t[i] = s[i + 1]
      /\ \A i \in 1..Len(s) : i = 1 \/ (i - 1 \in 1..Len(t) /\ t[i - 1] = s[i])
  BY <1>1, OneLess
<1>3. ASSUME NEW i \in 1..Len(t), t[i] = e PROVE \E j \in i + 1..Len(t) : t[j] = f
  <2>1. PICK j \in (i + 1) + 1..Len(s) : s[j] = f
    BY <1>2, <1>3 DEF Follows
  <2>2. j - 1 \in i + 1..Len(t) /\ j \in 1..Len(s) /\ j # 1
    BY <1>2
  <2> QED BY <1>2, <2>1, <2>2
<1>4. ASSUME Head(s) = e PROVE Has(t, f)
  <2>1. PICK j \in 1 + 1..Len(s) : s[j] = f
    BY <1>2, <1>4 DEF Follows
  <2>2. j \in 1..Len(s) /\ j # 1
    BY <1>2
  <2> QED BY <1>2, <2>1, <2>2 DEF Has
<1>5. Follows(t, e, f)
  BY <1>3 DEF Follows
<1> QED BY <1>1, <1>4, <1>5

LEMMA PrecedesMore ==
    ASSUME NEW T, NEW s \in Seq(T), NEW r \in T, NEW e, NEW f, Precedes(s, e, f), r = e => Has(s, f)
    PROVE  Precedes(Append(s, r), e, f)
<1>1. PICK t : t = Append(s, r)
  OBVIOUS
<1>2. /\ Len(s) \in Nat /\ Len(t) = Len(s) + 1 /\ t[Len(s) + 1] = r /\ \A i \in 1..Len(s) : t[i] = s[i]
      /\ \A i \in 1..Len(t) : i \in 1..Len(s) \/ i = Len(s) + 1
  BY <1>1, OneMore
<1>3. ASSUME NEW i \in 1..Len(t), t[i] = e PROVE \E j \in 1..i - 1 : t[j] = f
  <2>1. CASE i \in 1..Len(s)
    <3>1. PICK j \in 1..i - 1 : s[j] = f
      BY <1>2, <1>3, <2>1 DEF Precedes
    <3>2. j \in 1..Len(s)
      BY <1>2, <2>1
    <3> QED BY <1>2, <3>1, <3>2
  <2>2. CASE i = Len(s) + 1
    <3>1. PICK j \in 1..Len(s) : s[j] = f
      BY <1>2, <1>3, <2>2 DEF Has
    <3>2. j \in 1..i - 1
      BY <1>2, <2>2
    <3> QED BY <1>2, <3>1, <3>2
  <2> QED BY <1>2, <2>1, <2>2
<1>4. Precedes(t, e, f)
  BY <1>3 DEF Precedes
<1> QED BY <1>1, <1>4

LEMMA PrecedesLess ==
    ASSUME NEW T, NEW s \in Seq(T), s # <<>>, NEW e, NEW f, Precedes(s, e, f)
    PROVE  Head(s) # e /\ (Head(s) # f => Precedes(Tail(s), e, f))
<1>1. PICK t : t = Tail(s)
  OBVIOUS
<1>2. /\ Len(s) \in Nat \ {0} /\ Len(t) = Len(s) - 1 /\ Head(s) = s[1] /\ 1 \in 1..Len(s)
      /\ \A i \in 1..Len(t) : i + 1 \in 1..Len(s) /\ t[i] = s[i + 1]
      /\ \A i \in 1..Len(s) : i = 1 \/ (i - 1 \in 1..Len(t) /\ t[i - 1] = s[i])
  BY <1>1, OneLess
<1>3. Head(s) # e
  <2>1. \A j \in 1..1 - 1 : FALSE
    OBVIOUS
  <2> QED BY <1>2, <2>1 DEF Precedes
<1>4. ASSUME Head(s) # f, NEW i \in 1..Len(t), t[i] = e PROVE \E j \in 1..i - 1 : t[j] = f
  <2>1. PICK j \in 1..(i + 1) - 1 : s[j] = f
    BY <1>2, <1>4 DEF Precedes
  <2>2. j # 1 /\ j \in 1..Len(s)
    BY <1>2, <1>4, <2>1
  <2>3. j - 1 \in 1..i - 1
    BY <2>1, <2>2, <1>2
  <2> QED BY <1>2, <2>1, <2>2, <2>3
<1>5. Head(s) # f => Precedes(t, e, f)
  BY <1>4 DEF Precedes
<1> QED BY <1>1, <1>3, <1>5

LEMMA AllBeforeMore ==
    ASSUME NEW T, NEW s \in Seq(T), NEW r \in T, NEW e, NEW f, AllBefore(s, e, f), e # f, r = e => ~Has(s, f)
    PROVE  AllBefore(Append(s, r), e, f)
<1>1. PICK t : t = Append(s, r)
  OBVIOUS
<1>2. /\ Len(s) \in Nat /\ Len(t) = Len(s) + 1 /\ t[Len(s) + 1] = r /\ \A i \in 1..Len(s) : t[i] = s[i]
      /\ \A i \in 1..Len(t) : i \in 1..Len(s) \/ i = Len(s) + 1
  BY <1>1, OneMore
<1>3. ASSUME NEW i \in 1..Len(t), NEW j \in 1..Len(t), t[i] = e, t[j] = f PROVE i < j
  <2>1. CASE i \in 1..Len(s) /\ j \in 1..Len(s)
    BY <1>2, <1>3, <2>1 DEF AllBefore
  <2>2. CASE i \in 1..Len(s) /\ j = Len(s) + 1
    BY <1>2, <2>2
  <2>3. CASE i = Len(s) + 1
    <3>1. r = e /\ j \in 1..Len(s)
      BY <1>2, <1>3, <2>3
    <3> QED BY <1>2, <1>3, <3>1 DEF Has
  <2> QED BY <1>2, <2>1, <2>2, <2>3
<1>4. AllBefore(t, e, f)
  BY <1>3 DEF AllBefore
<1> QED BY <1>1, <1>4

LEMMA AllBeforeLess ==
    ASSUME NEW T, NEW s \in Seq(T), s # <<>>, NEW e, NEW f, AllBefore(s, e, f)
    PROVE  AllBefore(Tail(s), e, f) /\ (Head(s) = f => ~Has(Tail(s), e))
<1>1. PICK t : t = Tail(s)
  OBVIOUS
<1>2. /\ Len(s) \in Nat \ {0} /\ Len(t) = Len(s) - 1 /\ Head(s) = s[1] /\ 1 \in 1..Len(s)
      /\ \A i \in 1..Len(t) : i + 1 \in 1..Len(s) /\ t[i] = s[i + 1]
  BY <1>1, OneLess
<1>3. ASSUME NEW i \in 1..Len(t), NEW j \in 1..Len(t), t[i] = e, t[j] = f PROVE i < j
  <2>1. i + 1 < j + 1
    BY <1>2, <1>3 DEF AllBefore
  <2> QED BY <2>1
<1>4. ASSUME Head(s) = f, NEW i \in 1..Len(t), t[i] = e PROVE FALSE
  <2>1. i + 1 < 1
    BY <1>2, <1>4 DEF AllBefore
  <2> QED BY <2>1
<1>5. AllBefore(t, e, f) /\ (Head(s) = f => ~Has(t, e))
  BY <1>3, <1>4 DEF AllBefore, Has
<1> QED BY <1>1, <1>5
-----------------------------------------------------------------------------
(* The tray window and the drawins.                                        *)

LEMMA PairIs == ASSUME NEW A, NEW B, NEW r \in A \X B PROVE r = <<r[1], r[2]>> /\ r[1] \in A /\ r[2] \in B
  OBVIOUS

LEMMA TrayKinds ==
    ASSUME NEW r \in TrayRequest
    PROVE  /\ r = <<r[1], r[2]>>
           /\ r \in Puts <=> r[1] = "put"
           /\ r \in TrayMaps <=> r[1] \in {"layout", "unmapTray"}
           /\ r \in Shows <=> r[1] \in {"layout", "unmapTray", "map", "unmap"}
           /\ r[1] \in {"read", "select", "embed", "map", "unmap"} => r[2] \in Icon
           /\ r[1] \in {"put", "destroy", "unmapTray", "layout"} \/ r[1] \in {"read", "select", "embed", "map", "unmap"}
           /\ r[1] = "put" => r[2] \in TrayDrawin \cup {"root"}
           /\ r[1] = "destroy" => r[2] \in TrayDrawin
           /\ r[1] = "unmapTray" => r[2] = NoDrawin
<1> DEFINE L == {LayOut(l, rows) : l \in Seq(Cell), rows \in TrayRows}
<1> HIDE DEF L
<1>1. Layouts = {"layout"} \X L
  BY DEF Layouts, L
<1>2. /\ r = <<r[1], r[2]>>
      /\ \/ r[1] \in {"read", "select", "embed", "map", "unmap"} /\ r[2] \in Icon
         \/ r[1] = "destroy" /\ r[2] \in TrayDrawin
         \/ r[1] = "put" /\ r[2] \in TrayDrawin \cup {"root"}
         \/ r[1] = "unmapTray" /\ r[2] = NoDrawin
         \/ r[1] = "layout" /\ r[2] \in L
  <2>1. CASE r \in {"read", "select", "embed"} \X Icon
    BY <2>1, PairIs
  <2>2. CASE r \in {"destroy"} \X TrayDrawin
    BY <2>2, PairIs
  <2>3. CASE r \in {"put"} \X (TrayDrawin \cup {"root"})
    <3>1. r = <<r[1], r[2]>> /\ r[1] \in {"put"} /\ r[2] \in TrayDrawin \cup {"root"}
      BY <2>3, PairIs
    <3> QED BY <3>1
  <2>4. CASE r \in {"map", "unmap"} \X Icon
    BY <2>4, PairIs
  <2>5. CASE r \in {"layout"} \X L
    BY <2>5, PairIs
  <2>6. CASE r \in {"unmapTray"} \X {NoDrawin}
    BY <2>6
  <2> QED BY <1>1, <2>1, <2>2, <2>3, <2>4, <2>5, <2>6 DEF TrayRequest, TrayMaps, Shows, Puts
<1>3. PICK op, x : op = r[1] /\ x = r[2]
  OBVIOUS
<1>4. /\ r = <<op, x>>
      /\ \/ op \in {"read", "select", "embed", "map", "unmap"} /\ x \in Icon
         \/ op = "destroy" /\ x \in TrayDrawin
         \/ op = "put" /\ x \in TrayDrawin \cup {"root"}
         \/ op = "unmapTray" /\ x = NoDrawin
         \/ op = "layout" /\ x \in L
  BY <1>2, <1>3
<1>5. <<op, x>> \in Puts <=> op = "put"
  BY <1>4 DEF Puts
<1>6. <<op, x>> \in TrayMaps <=> op \in {"layout", "unmapTray"}
  BY <1>1, <1>4 DEF TrayMaps
<1>7. <<op, x>> \in Shows <=> op \in {"layout", "unmapTray", "map", "unmap"}
  BY <1>4, <1>6 DEF Shows
<1> QED BY <1>3, <1>4, <1>5, <1>6, <1>7

LEMMA RequestsAre ==
    /\ \A w \in Icon : \A op \in {"read", "select", "embed", "map", "unmap"} : <<op, w>> \in TrayRequest
    /\ \A d \in TrayDrawin \cup {"root"} : <<"put", d>> \in TrayRequest
    /\ \A d \in TrayDrawin : <<"destroy", d>> \in TrayRequest
    /\ <<"unmapTray", NoDrawin>> \in TrayRequest
<1> DEFINE L == {LayOut(l, rows) : l \in Seq(Cell), rows \in TrayRows}
<1> HIDE DEF L
<1>1. Layouts = {"layout"} \X L
  BY DEF Layouts, L
<1> QED BY <1>1 DEF TrayRequest, Puts, TrayMaps, Shows

LEMMA IsAwayMore ==
    ASSUME NEW q \in Seq(TrayRequest), NEW r \in TrayRequest, NEW in, NEW d, IsAway(q, in, d),
           r = <<"destroy", d>> =>
               \/ in # d /\ ~HasAny(q, Puts)
               \/ \E e : <<"put", e>> \in Puts /\ e # d /\ LastIs(q, <<"put", e>>, Puts)
    PROVE  IsAway(Append(q, r), in, d)
<1>1. PICK t : t = Append(q, r)
  OBVIOUS
<1>2. /\ Len(q) \in Nat /\ Len(t) = Len(q) + 1 /\ t[Len(q) + 1] = r /\ \A i \in 1..Len(q) : t[i] = q[i]
      /\ \A i \in 1..Len(t) : i \in 1..Len(q) \/ i = Len(q) + 1
  BY <1>1, OneMore
<1>3. ASSUME NEW i \in 1..Len(t), t[i] = <<"destroy", d>>,
             NEW k \in 0..i - 1, IF k = 0 THEN in = d ELSE t[k] = <<"put", d>>
      PROVE  \E m \in k + 1..i - 1 : t[m] \in Puts
  <2>1. k = 0 \/ (k # 0 /\ k \in 1..Len(q))
    BY <1>2
  <2>2. IF k = 0 THEN in = d ELSE q[k] = <<"put", d>>
    BY <1>2, <1>3, <2>1
  <2>3. CASE i \in 1..Len(q)
    <3>1. q[i] = <<"destroy", d>>
      BY <1>2, <1>3, <2>3
    <3>2. PICK m \in k + 1..i - 1 : q[m] \in Puts
      BY <2>2, <2>3, <3>1 DEF IsAway
    <3>3. m \in 1..Len(q)
      BY <1>2, <2>3
    <3> QED BY <1>2, <3>2, <3>3
  <2>4. CASE i = Len(q) + 1
    <3>1. r = <<"destroy", d>>
      BY <1>2, <1>3, <2>4
    <3>2. CASE in # d /\ ~HasAny(q, Puts)
      <4>1. k \in 1..Len(q) /\ q[k] = <<"put", d>>
        BY <2>1, <2>2, <3>2
      <4>2. <<"put", d>> \notin Puts
        BY <3>2, <4>1 DEF HasAny
      <4>3. q[k] \in TrayRequest
        BY <4>1, ElementOfSeq
      <4>4. q[k] \in Puts
        BY <4>1, <4>3, TrayKinds
      <4> QED BY <4>1, <4>2, <4>4
    <3>3. CASE \E e : <<"put", e>> \in Puts /\ e # d /\ LastIs(q, <<"put", e>>, Puts)
      <4>1. PICK e : <<"put", e>> \in Puts /\ e # d /\ LastIs(q, <<"put", e>>, Puts)
        BY <3>3
      <4>2. PICK m \in 1..Len(q) : q[m] = <<"put", e>> /\ \A j \in m + 1..Len(q) : q[j] \notin Puts
        BY <4>1 DEF LastIs
      <4>3. k < m
        <5>1. CASE k = 0
          BY <5>1, <4>2
        <5>2. CASE k # 0
          <6>1. k \in 1..Len(q) /\ q[k] = <<"put", d>> /\ k # m
            BY <2>1, <2>2, <4>1, <4>2, <5>2
          <6>2. q[k] \in TrayRequest
            BY <6>1, ElementOfSeq
          <6>3. q[k] \in Puts
            BY <6>1, <6>2, TrayKinds
          <6>4. k \notin m + 1..Len(q)
            BY <4>2, <6>3
          <6> QED BY <1>2, <6>1, <6>4
        <5> QED BY <5>1, <5>2
      <4>4. m \in k + 1..i - 1 /\ t[m] \in Puts
        BY <1>2, <2>4, <4>1, <4>2, <4>3
      <4> QED BY <4>4
    <3> QED BY <3>1, <3>2, <3>3
  <2> QED BY <1>2, <2>3, <2>4
<1>4. IsAway(t, in, d)
  BY <1>3 DEF IsAway
<1> QED BY <1>1, <1>4

LEMMA IsAwayLess ==
    ASSUME NEW q \in Seq(TrayRequest), q # <<>>, NEW in, NEW d, IsAway(q, in, d)
    PROVE  /\ Head(q) = <<"destroy", d>> => in # d
           /\ Head(q) \notin Puts => IsAway(Tail(q), in, d)
           /\ \A e : Head(q) = <<"put", e>> => IsAway(Tail(q), e, d)
<1>1. PICK t : t = Tail(q)
  OBVIOUS
<1>2. /\ Len(q) \in Nat \ {0} /\ Len(t) = Len(q) - 1 /\ Head(q) = q[1] /\ 1 \in 1..Len(q)
      /\ \A i \in 1..Len(t) : i + 1 \in 1..Len(q) /\ t[i] = q[i + 1]
      /\ \A i \in 1..Len(q) : i = 1 \/ (i - 1 \in 1..Len(t) /\ t[i - 1] = q[i])
  BY <1>1, OneLess
<1>3. ASSUME Head(q) = <<"destroy", d>>, in = d PROVE FALSE
  <2>1. 0 \in 0..1 - 1 /\ \A m \in 0 + 1..1 - 1 : FALSE
    OBVIOUS
  <2>2. \E m \in 0 + 1..1 - 1 : q[m] \in Puts
    BY <1>2, <1>3, <2>1 DEF IsAway
  <2> QED BY <2>1, <2>2
<1>4. ASSUME Head(q) \notin Puts, NEW i \in 1..Len(t), t[i] = <<"destroy", d>>,
             NEW k \in 0..i - 1, IF k = 0 THEN in = d ELSE t[k] = <<"put", d>>
      PROVE  \E m \in k + 1..i - 1 : t[m] \in Puts
  <2>1. PICK h \in 0..(i + 1) - 1 : h = IF k = 0 THEN 0 ELSE k + 1
    OBVIOUS
  <2>2. IF h = 0 THEN in = d ELSE q[h] = <<"put", d>>
    BY <1>2, <1>4, <2>1
  <2>3. PICK m \in h + 1..(i + 1) - 1 : q[m] \in Puts
    BY <1>2, <1>4, <2>2 DEF IsAway
  <2>4. m # 1 /\ m \in 1..Len(q)
    BY <1>2, <1>4, <2>3
  <2>5. m - 1 \in k + 1..i - 1
    BY <2>1, <2>4, <1>2
  <2> QED BY <1>2, <2>3, <2>4, <2>5
<1>5. ASSUME NEW e, Head(q) = <<"put", e>>, NEW i \in 1..Len(t), t[i] = <<"destroy", d>>,
             NEW k \in 0..i - 1, IF k = 0 THEN e = d ELSE t[k] = <<"put", d>>
      PROVE  \E m \in k + 1..i - 1 : t[m] \in Puts
  <2>1. k + 1 \in 0..(i + 1) - 1 /\ k + 1 # 0
    OBVIOUS
  <2>2. q[k + 1] = <<"put", d>>
    BY <1>2, <1>5
  <2>3. PICK m \in (k + 1) + 1..(i + 1) - 1 : q[m] \in Puts
    BY <1>2, <1>5, <2>1, <2>2 DEF IsAway
  <2>4. m # 1 /\ m \in 1..Len(q) /\ m - 1 \in k + 1..i - 1
    BY <1>2
  <2> QED BY <1>2, <2>3, <2>4
<1>6. Head(q) \notin Puts => IsAway(t, in, d)
  BY <1>4 DEF IsAway
<1>7. \A e : Head(q) = <<"put", e>> => IsAway(t, e, d)
  BY <1>5 DEF IsAway
<1> QED BY <1>1, <1>3, <1>6, <1>7

LEMMA DrawinOther ==
    ASSUME NEW q \in Seq(TrayRequest), NEW p, NEW g, DrawinOf(q, p, g),
           NEW r \in TrayRequest, r[1] \notin {"put", "destroy"}
    PROVE  DrawinOf(Append(q, r), p, g)
<1>1. r \notin Puts
  BY TrayKinds
<1>2. \A d : r # <<"put", d>> /\ r # <<"destroy", d>>
  OBVIOUS
<1>3. LastIs(q, <<"put", Where(p)>>, Puts) => LastIs(Append(q, r), <<"put", Where(p)>>, Puts)
  <2>1. ASSUME LastIs(q, <<"put", Where(p)>>, Puts) PROVE <<"put", Where(p)>> \in Puts
    <3>1. PICK i \in 1..Len(q) : q[i] = <<"put", Where(p)>>
      BY <2>1 DEF LastIs
    <3>2. q[i] \in TrayRequest
      BY ElementOfSeq
    <3>3. q[i] \in Puts
      BY <3>1, <3>2, TrayKinds
    <3> QED BY <3>1, <3>3
  <2> QED BY <1>1, <2>1, LastMore
<1>4. \A S : HasAny(Append(q, r), S) <=> HasAny(q, S) \/ r \in S
  BY HasMore
<1>5. \A d : /\ Has(Append(q, r), <<"destroy", d>>) <=> Has(q, <<"destroy", d>>)
             /\ Has(Append(q, r), <<"put", d>>) <=> Has(q, <<"put", d>>)
  BY <1>2, HasMore
<1>6. ASSUME NEW d \in TrayDrawin PROVE AllBefore(Append(q, r), <<"put", d>>, <<"destroy", d>>)
  <2>1. AllBefore(q, <<"put", d>>, <<"destroy", d>>) /\ <<"put", d>> # <<"destroy", d>>
    BY DEF DrawinOf
  <2> QED BY <1>2, <2>1, AllBeforeMore
<1>7. ASSUME NEW d \in TrayDrawin PROVE IsAway(Append(q, r), trayIn, d)
  <2>1. IsAway(q, trayIn, d)
    BY DEF DrawinOf
  <2> QED BY <1>2, <2>1, IsAwayMore
<1> QED BY <1>1, <1>3, <1>4, <1>5, <1>6, <1>7 DEF DrawinOf

LEMMA DrawinPut ==
    ASSUME NEW q \in Seq(TrayRequest), NEW p, NEW g, DrawinOf(q, p, g),
           NEW d \in TrayDrawin \cup {NoDrawin}, d \notin g
    PROVE  <<"put", Where(d)>> \in Puts /\ DrawinOf(Append(q, <<"put", Where(d)>>), d, g)
<1>1. PICK r : r = <<"put", Where(d)>>
  OBVIOUS
<1>2. r \in TrayRequest /\ r \in Puts /\ \A e : r # <<"destroy", e>>
  BY <1>1 DEF TrayRequest, Puts, Where
<1>3. LastIs(Append(q, r), r, Puts)
  BY <1>2, LastMore
<1>4. \A e : Has(Append(q, r), <<"destroy", e>>) <=> Has(q, <<"destroy", e>>)
  BY <1>2, HasMore
<1>5. ASSUME NEW e \in TrayDrawin, r = <<"put", e>> PROVE e \in trayDrawins /\ ~Has(q, <<"destroy", e>>)
  <2>1. Where(d) = e
    BY <1>1, <1>5
  <2>2. e = d
    BY <2>1, TrayAssumption DEF Where
  <2> QED BY <2>2 DEF DrawinOf
<1>6. ASSUME NEW e \in TrayDrawin, Has(Append(q, r), <<"put", e>>) PROVE e \in trayDrawins
  <2>1. Has(q, <<"put", e>>) \/ r = <<"put", e>>
    BY <1>2, <1>6, HasMore
  <2> QED BY <1>5, <2>1 DEF DrawinOf
<1>7. ASSUME NEW e \in TrayDrawin PROVE AllBefore(Append(q, r), <<"put", e>>, <<"destroy", e>>)
  <2>1. AllBefore(q, <<"put", e>>, <<"destroy", e>>) /\ <<"put", e>> # <<"destroy", e>>
    BY DEF DrawinOf
  <2> QED BY <1>2, <1>5, <2>1, AllBeforeMore
<1>8. ASSUME NEW e \in TrayDrawin PROVE IsAway(Append(q, r), trayIn, e)
  <2>1. IsAway(q, trayIn, e)
    BY DEF DrawinOf
  <2> QED BY <1>2, <2>1, IsAwayMore
<1>9. DrawinOf(Append(q, r), d, g)
  BY <1>1, <1>3, <1>4, <1>6, <1>7, <1>8 DEF DrawinOf
<1> QED BY <1>1, <1>2, <1>9

LEMMA DrawinDestroy ==
    ASSUME NEW q \in Seq(TrayRequest), NEW p \in TrayDrawin \cup {NoDrawin}, NEW g, DrawinOf(q, p, g),
           NEW d \in TrayDrawin, d # p
    PROVE  DrawinOf(Append(q, <<"destroy", d>>), p, g \cup {d})
<1>1. PICK r : r = <<"destroy", d>>
  OBVIOUS
<1>2. r \in TrayRequest /\ r \notin Puts /\ (\A e : r # <<"put", e>>) /\ \A e : r = <<"destroy", e>> => e = d
  BY <1>1 DEF TrayRequest, Puts
<1>3. <<"put", Where(p)>> \in Puts /\ Where(p) # d
  BY TrayAssumption DEF Puts, Where
<1>4. LastIs(q, <<"put", Where(p)>>, Puts) => LastIs(Append(q, r), <<"put", Where(p)>>, Puts)
  BY <1>2, <1>3, LastMore
<1>5. HasAny(Append(q, r), Puts) <=> HasAny(q, Puts)
  BY <1>2, HasMore
<1>6. \A e : /\ Has(Append(q, r), <<"destroy", e>>) => Has(q, <<"destroy", e>>) \/ e = d
             /\ Has(Append(q, r), <<"put", e>>) <=> Has(q, <<"put", e>>)
  BY <1>2, HasMore
<1>7. ASSUME NEW e \in TrayDrawin PROVE AllBefore(Append(q, r), <<"put", e>>, <<"destroy", e>>)
  <2>1. AllBefore(q, <<"put", e>>, <<"destroy", e>>) /\ <<"put", e>> # <<"destroy", e>>
    BY DEF DrawinOf
  <2> QED BY <1>2, <2>1, AllBeforeMore
<1>8. ASSUME NEW e \in TrayDrawin PROVE IsAway(Append(q, r), trayIn, e)
  <2>1. IsAway(q, trayIn, e)
    BY DEF DrawinOf
  <2>2. ASSUME r = <<"destroy", e>>
        PROVE  \/ trayIn # e /\ ~HasAny(q, Puts)
               \/ \E f : <<"put", f>> \in Puts /\ f # e /\ LastIs(q, <<"put", f>>, Puts)
    <3>1. e = d
      BY <1>2, <2>2
    <3> QED BY <1>3, <3>1 DEF DrawinOf
  <2> QED BY <1>2, <2>1, <2>2, IsAwayMore
<1>9. DrawinOf(Append(q, r), p, g \cup {d})
  BY <1>4, <1>5, <1>6, <1>7, <1>8 DEF DrawinOf
<1> QED BY <1>1, <1>9
-----------------------------------------------------------------------------
(* Types, and what is added to the queues.                                 *)

LEMMA Joined ==
    ASSUME NEW T, NEW s \in Seq(T)
    PROVE  /\ s \o <<>> = s
           /\ \A a \in T : s \o <<a>> = Append(s, a) /\ Append(s, a) \in Seq(T)
           /\ \A a, b \in T : s \o <<a, b>> = Append(Append(s, a), b)
           /\ \A a, b, c \in T : s \o <<a, b, c>> = Append(Append(Append(s, a), b), c)
<1>1. s \o <<>> = s
  OBVIOUS
<1>2. \A a \in T : s \o <<a>> = Append(s, a) /\ Append(s, a) \in Seq(T)
  OBVIOUS
<1>3. \A a, b \in T : s \o <<a, b>> = Append(Append(s, a), b)
  OBVIOUS
<1>4. \A a, b, c \in T : s \o <<a, b, c>> = Append(Append(Append(s, a), b), c)
  OBVIOUS
<1> QED BY <1>1, <1>2, <1>3, <1>4

LEMMA VisibleIs ==
    ASSUME NEW l \in Seq(Cell)
    PROVE  /\ Len(l) \in Nat /\ DOMAIN l = 1..Len(l)
           /\ \A i \in 1..Len(l) : l[i] \in Cell /\ l[i].win \in Icon /\ l[i].mapped \in BOOLEAN
           /\ Visible(l) = {i \in 1..Len(l) : l[i].mapped}
<1>1. Len(l) \in Nat /\ DOMAIN l = 1..Len(l) /\ \A i \in 1..Len(l) : l[i] \in Cell
  BY LenProperties, ElementOfSeq
<1>2. \A e \in Cell : e.win \in Icon /\ e.mapped \in BOOLEAN
  BY DEF Cell
<1> QED BY <1>1, <1>2 DEF Visible

LEMMA LayOutIs ==
    ASSUME NEW l \in Seq(Cell), NEW rows
    PROVE  /\ DOMAIN LayOut(l, rows).cells = {l[i].win : i \in Visible(l)}
           /\ LayOut(l, rows).hidden = {l[i].win : i \in (1..Len(l)) \ Visible(l)}
           /\ LayOut(l, rows).cells = Cells(l, rows)
           /\ LayOut(l, rows).size = <<Columns(Cardinality(Visible(l)), rows), rows>>
           /\ DOMAIN LayOut(l, rows).cells \subseteq Icon /\ LayOut(l, rows).hidden \subseteq Icon
<1>1. /\ LayOut(l, rows).cells = Cells(l, rows)
      /\ LayOut(l, rows).size = <<Columns(Cardinality(Visible(l)), rows), rows>>
      /\ LayOut(l, rows).hidden = {l[i].win : i \in DOMAIN l \ Visible(l)}
  BY DEF LayOut
<1>2. DOMAIN Cells(l, rows) = {l[i].win : i \in Visible(l)}
  BY DEF Cells
<1> QED BY <1>1, <1>2, VisibleIs

LEMMA ReverseIs ==
    ASSUME NEW l \in Seq(Cell)
    PROVE  /\ Reverse(l) \in Seq(Cell) /\ Len(Reverse(l)) = Len(l)
           /\ \A i \in 1..Len(l) : Reverse(l)[i] = l[Len(l) - i + 1] /\ Len(l) - i + 1 \in 1..Len(l)
                                   /\ l[i] = Reverse(l)[Len(l) - i + 1]
<1>1. Len(l) \in Nat /\ \A i \in 1..Len(l) : l[i] \in Cell
  BY VisibleIs
<1>2. \A i \in 1..Len(l) : (Len(l) - i) + 1 \in 1..Len(l) /\ Len(l) - ((Len(l) - i) + 1) + 1 = i
  BY <1>1
<1>3. Reverse(l) = [i \in 1..Len(l) |-> l[(Len(l) - i) + 1]]
  BY DEF Reverse
<1>4. Reverse(l) \in Seq(Cell) /\ Len(Reverse(l)) = Len(l)
  BY <1>1, <1>2, <1>3
<1> QED BY <1>1, <1>2, <1>3, <1>4

LEMMA InvalidateShape ==
    ASSUME TypesInv, NEW list \in Seq(Cell), NEW reqs, InvalidateWith(list, reqs),
           reqs = <<>> \/ \E r \in TrayRequest : reqs = <<r>>
    PROVE  /\ embedded' = list /\ trayStale' = TRUE /\ trayRequests' \in Seq(TrayRequest)
           /\ \E q \in Seq(TrayRequest) :
                 /\ IF reqs = <<>> THEN q = trayRequests ELSE q = Append(trayRequests, reqs[1])
                 /\ trayRequests' = IF Visible(list) = {} THEN Append(q, <<"unmapTray", NoDrawin>>) ELSE q
<1>1. PICK q : q = trayRequests \o reqs
  OBVIOUS
<1>2. trayRequests \in Seq(TrayRequest)
  BY DEF TypesInv
<1>3. q \in Seq(TrayRequest) /\ IF reqs = <<>> THEN q = trayRequests ELSE q = Append(trayRequests, reqs[1])
  <2>1. CASE reqs = <<>>
    BY <1>1, <1>2, <2>1, Joined
  <2>2. CASE reqs # <<>>
    <3>1. PICK r \in TrayRequest : reqs = <<r>>
      BY <2>2
    <3>2. reqs[1] = r
      BY <3>1
    <3>3. q = Append(trayRequests, r) /\ Append(trayRequests, r) \in Seq(TrayRequest)
      BY <1>1, <1>2, <3>1, Joined
    <3> QED BY <2>2, <3>2, <3>3
  <2> QED BY <2>1, <2>2
<1>4. embedded' = list /\ trayStale' = TRUE
  BY DEF InvalidateWith
<1>5. trayRequests' = (q \o IF Visible(list) = {} THEN <<<<"unmapTray", NoDrawin>>>> ELSE <<>>)
  BY <1>1 DEF InvalidateWith
<1>6. trayRequests' = IF Visible(list) = {} THEN Append(q, <<"unmapTray", NoDrawin>>) ELSE q
  <2>1. q \o <<<<"unmapTray", NoDrawin>>>> = Append(q, <<"unmapTray", NoDrawin>>) /\ q \o <<>> = q
    BY <1>3, Joined, RequestsAre
  <2> QED BY <1>5, <2>1
<1>7. trayRequests' \in Seq(TrayRequest)
  BY <1>3, <1>6, RequestsAre, Joined
<1> QED BY <1>3, <1>4, <1>6, <1>7

LEMMA RemovedIs ==
    ASSUME NEW T, NEW s \in Seq(T), NEW i \in 1..Len(s)
    PROVE  /\ RemoveAt(s, i) \in Seq(T) /\ Len(RemoveAt(s, i)) = Len(s) - 1
           /\ \A j \in 1..Len(s) - 1 : RemoveAt(s, i)[j] = IF j < i THEN s[j] ELSE s[j + 1]
<1>1. Len(s) \in Nat /\ i \in Nat /\ i >= 1 /\ i <= Len(s)
  BY LenProperties
<1>2. PICK a : a = SubSeq(s, 1, i - 1)
  OBVIOUS
<1>3. PICK b : b = SubSeq(s, i + 1, Len(s))
  OBVIOUS
<1>4. a \in Seq(T) /\ Len(a) = i - 1 /\ \A j \in 1..i - 1 : a[j] = s[j]
  BY <1>1, <1>2
<1>5. b \in Seq(T) /\ Len(b) = Len(s) - i /\ \A j \in 1..Len(s) - i : b[j] = s[i + j]
  BY <1>1, <1>3
<1>6. RemoveAt(s, i) = a \o b
  BY <1>2, <1>3 DEF RemoveAt
<1>7. a \o b \in Seq(T) /\ Len(a \o b) = Len(s) - 1
  <2>1. Len(a \o b) = Len(a) + Len(b)
    BY <1>4, <1>5, ConcatProperties
  <2>2. a \o b \in Seq(T)
    BY <1>4, <1>5, ConcatProperties
  <2>3. (i - 1) + (Len(s) - i) = Len(s) - 1
    BY <1>1
  <2> QED BY <1>4, <1>5, <2>1, <2>2, <2>3
<1>8. ASSUME NEW j \in 1..Len(s) - 1 PROVE (a \o b)[j] = IF j < i THEN s[j] ELSE s[j + 1]
  <2>1. CASE j < i
    BY <1>1, <1>4, <1>5, <2>1
  <2>2. CASE ~(j < i)
    <3>1. j - (i - 1) \in 1..Len(s) - i /\ i + (j - (i - 1)) = j + 1
      BY <1>1, <2>2
    <3>2. (a \o b)[j] = b[j - Len(a)]
      BY <1>1, <1>4, <1>5, <2>2
    <3> QED BY <1>4, <1>5, <2>2, <3>1, <3>2
  <2> QED BY <2>1, <2>2
<1> QED BY <1>6, <1>7, <1>8

\* What each action does to the list and to the requests.
LEMMA FlaggedIs ==
    ASSUME TypesInv, NEW w \in Icon, NEW shown \in BOOLEAN
    PROVE  /\ Flagged(w, shown) \in Seq(Cell) /\ Len(Flagged(w, shown)) = Len(embedded)
           /\ \A i \in 1..Len(embedded) :
                 Flagged(w, shown)[i] = IF embedded[i].win = w THEN [win |-> w, mapped |-> shown] ELSE embedded[i]
<1>1. embedded \in Seq(Cell)
  BY DEF TypesInv, TrayTypeOK, Cell
<1>2. Len(embedded) \in Nat /\ DOMAIN embedded = 1..Len(embedded) /\ \A i \in 1..Len(embedded) : embedded[i] \in Cell
  BY <1>1, VisibleIs
<1>3. [win |-> w, mapped |-> shown] \in Cell
  BY DEF Cell
<1>4. Flagged(w, shown) = [i \in 1..Len(embedded) |-> IF embedded[i].win = w THEN [win |-> w, mapped |-> shown]
                                                    ELSE embedded[i]]
  BY <1>2 DEF Flagged
<1>5. Flagged(w, shown) \in Seq(Cell) /\ Len(Flagged(w, shown)) = Len(embedded)
  BY <1>2, <1>3, <1>4
<1> QED BY <1>4, <1>5

\* The place of an icon in the list, which Take takes out.
At(w) == CHOOSE i \in DOMAIN embedded : embedded[i].win = w

LEMMA AtIs ==
    ASSUME TypesInv, NEW w, w \in Embedded
    PROVE  At(w) \in 1..Len(embedded) /\ embedded[At(w)].win = w
<1>1. DOMAIN embedded = 1..Len(embedded)
  BY LenProperties DEF TypesInv, TrayTypeOK
<1>2. \E i \in DOMAIN embedded : embedded[i].win = w
  BY DEF Embedded
<1> QED BY <1>1, <1>2 DEF At

LEMMA TakenOut ==
    ASSUME TypesInv, NEW w, w \in Embedded
    PROVE  /\ RemoveAt(embedded, At(w)) \in Seq(Cell) /\ Len(RemoveAt(embedded, At(w))) = Len(embedded) - 1
           /\ \A j \in 1..Len(embedded) - 1 :
                 RemoveAt(embedded, At(w))[j] = IF j < At(w) THEN embedded[j] ELSE embedded[j + 1]
<1>1. embedded \in Seq(Cell)
  BY DEF TypesInv, TrayTypeOK, Cell
<1> QED BY <1>1, AtIs, RemovedIs

\* The list and the requests only change by an invalidation, by the requests of a handler that
\* waits, or by those of Lua code.
Invalidated(list, q) ==
    /\ embedded' = list /\ list \in Seq(Cell) /\ trayStale' = TRUE
    /\ trayRequests' = IF Visible(list) = {} THEN Append(q, <<"unmapTray", NoDrawin>>) ELSE q
Waits(kind, w, q) ==
    /\ handling' = <<kind, w>> /\ trayReply' = "waiting" /\ trayRequests' = q
    /\ UNCHANGED <<embedded, trayStale>>

LEMMA DockEndIs ==
    ASSUME TypesInv, DockEnd
    PROVE  /\ Invalidated(Append(embedded, [win |-> handling[2], mapped |-> trayReply # "hidden"]), trayRequests)
           /\ [win |-> handling[2], mapped |-> trayReply # "hidden"] \in Cell
           /\ handling \in {"dock"} \X Icon /\ embedded \in Seq(Cell)
<1>1. handling \in {"dock"} \X Icon /\ handling[2] \in Icon
  <2>1. handling = Idle \/ handling \in {"dock", "info"} \X Icon
    BY DEF TypesInv, TrayTypeOK, Idle
  <2>2. Idle[1] # "dock"
    BY DEF Idle
  <2> QED BY <2>1, <2>2 DEF DockEnd
<1>2. embedded \in Seq(Cell)
  BY DEF TypesInv, TrayTypeOK, Cell
<1>3. PICK e \in Cell : e = [win |-> handling[2], mapped |-> trayReply # "hidden"]
  <2>1. PICK shown \in BOOLEAN : shown = (trayReply # "hidden")
    OBVIOUS
  <2>2. [win |-> handling[2], mapped |-> shown] \in Cell
    BY <1>1 DEF Cell
  <2> QED BY <2>1, <2>2
<1>4. Append(embedded, e) \in Seq(Cell)
  BY <1>2, <1>3
<1>5. InvalidateWith(Append(embedded, e), <<>>)
  BY <1>3 DEF DockEnd
<1>6. Invalidated(Append(embedded, e), trayRequests)
  BY <1>4, <1>5, InvalidateShape DEF Invalidated
<1> QED BY <1>1, <1>2, <1>3, <1>6

LEMMA InfoReadIs ==
    ASSUME TypesInv, NEW w \in Icon, InfoRead(w)
    PROVE  \/ (trayReply = "shown") = IsFlagged(w) /\ UNCHANGED <<embedded, trayStale, trayRequests>>
           \/ \E op \in {"map", "unmap"} :
                 Invalidated(Flagged(w, trayReply = "shown"), Append(trayRequests, <<op, w>>))
<1>1. CASE (trayReply = "shown") = IsFlagged(w)
  BY <1>1 DEF InfoRead
<1>2. CASE (trayReply = "shown") # IsFlagged(w)
  <2>1. PICK op \in {"map", "unmap"} : op = IF trayReply = "shown" THEN "map" ELSE "unmap"
    OBVIOUS
  <2>2. PICK shown \in BOOLEAN : shown = (trayReply = "shown")
    OBVIOUS
  <2>3. InvalidateWith(Flagged(w, shown), <<<<op, w>>>>)
    BY <1>2, <2>1, <2>2 DEF InfoRead
  <2>4. Flagged(w, shown) \in Seq(Cell) /\ <<op, w>> \in TrayRequest /\ <<<<op, w>>>> # <<>> /\ <<<<op, w>>>>[1] = <<op, w>>
    BY FlaggedIs, RequestsAre
  <2>5. Invalidated(Flagged(w, shown), Append(trayRequests, <<op, w>>))
    BY <2>3, <2>4, InvalidateShape DEF Invalidated
  <2> QED BY <2>2, <2>5
<1> QED BY <1>1, <1>2

LEMMA MapRequestedIs ==
    ASSUME TypesInv, NEW w \in Icon, MapRequested(w)
    PROVE  /\ UNCHANGED <<trayReply, handling>>
           /\ IF w \in Embedded /\ Exists(w) THEN Invalidated(Flagged(w, TRUE), Append(trayRequests, <<"map", w>>))
              ELSE UNCHANGED <<embedded, trayStale, trayRequests>>
<1>1. CASE w \in Embedded /\ Exists(w)
  <2>1. InvalidateWith(Flagged(w, TRUE), <<<<"map", w>>>>)
    BY <1>1 DEF MapRequested
  <2>2. Flagged(w, TRUE) \in Seq(Cell) /\ <<"map", w>> \in TrayRequest /\ <<<<"map", w>>>> # <<>>
        /\ <<<<"map", w>>>>[1] = <<"map", w>>
    BY FlaggedIs, RequestsAre
  <2>3. Invalidated(Flagged(w, TRUE), Append(trayRequests, <<"map", w>>))
    BY <2>1, <2>2, InvalidateShape DEF Invalidated
  <2> QED BY <1>1, <2>3 DEF MapRequested
<1>2. CASE ~(w \in Embedded /\ Exists(w))
  BY <1>2 DEF MapRequested
<1> QED BY <1>1, <1>2

LEMMA TakeIs ==
    ASSUME TypesInv, NEW w \in Icon, Take(w)
    PROVE  /\ UNCHANGED <<trayReply, handling>>
           /\ IF w \in Embedded THEN Invalidated(RemoveAt(embedded, At(w)), trayRequests)
              ELSE UNCHANGED <<embedded, trayStale, trayRequests>>
<1>1. CASE w \in Embedded
  <2>1. InvalidateWith(RemoveAt(embedded, At(w)), <<>>)
    BY <1>1 DEF Take, At
  <2>2. RemoveAt(embedded, At(w)) \in Seq(Cell)
    BY <1>1, TakenOut
  <2>3. Invalidated(RemoveAt(embedded, At(w)), trayRequests)
    BY <2>1, <2>2, InvalidateShape DEF Invalidated
  <2> QED BY <1>1, <2>3 DEF Take
<1>2. CASE w \notin Embedded
  BY <1>2 DEF Take
<1> QED BY <1>1, <1>2

LEMMA WaitIs ==
    ASSUME TypesInv, NEW w \in Icon
    PROVE  /\ Wait("info", w, <<<<"read", w>>>>) => Waits("info", w, Append(trayRequests, <<"read", w>>))
           /\ Wait("dock", w, <<<<"read", w>>, <<"select", w>>, <<"embed", w>>>>) =>
                 Waits("dock", w, Append(Append(Append(trayRequests, <<"read", w>>), <<"select", w>>), <<"embed", w>>))
<1>1. trayRequests \in Seq(TrayRequest)
  BY DEF TypesInv
<1>2. \A a \in TrayRequest : trayRequests \o <<a>> = Append(trayRequests, a)
  BY <1>1, Joined
<1>3. \A a, b, c \in TrayRequest : trayRequests \o <<a, b, c>> = Append(Append(Append(trayRequests, a), b), c)
  BY <1>1, Joined
<1>4. <<"read", w>> \in TrayRequest /\ <<"select", w>> \in TrayRequest /\ <<"embed", w>> \in TrayRequest
  BY RequestsAre
<1> QED BY <1>2, <1>3, <1>4 DEF Wait, Waits

LEMMA HandledNews ==
    ASSUME TypesInv, HandleTrayEvent
    PROVE  \E w \in Icon :
              /\ Head(trayEvents) \in {<<"dock", w>>, <<"info", w>>, <<"map", w>>, <<"moved", w>>, <<"destroyed", w>>}
              /\ trayEvents # <<>> /\ trayEvents' = Tail(trayEvents) /\ trayEvents \in Seq(TrayEvent)
              /\ handling = Idle
              /\ UNCHANGED <<iconVars, trayWindowVars, trayParent, trayRegistered, collected, iconCalls>>
              /\ \/ /\ Head(trayEvents) = <<"dock", w>> /\ w \notin Embedded
                    /\ Waits("dock", w, Append(Append(Append(trayRequests, <<"read", w>>), <<"select", w>>),
                                               <<"embed", w>>))
                 \/ /\ Head(trayEvents) = <<"info", w>> /\ w \in Embedded
                    /\ Waits("info", w, Append(trayRequests, <<"read", w>>))
                 \/ /\ Head(trayEvents) = <<"map", w>> /\ w \in Embedded /\ Exists(w)
                    /\ Invalidated(Flagged(w, TRUE), Append(trayRequests, <<"map", w>>))
                    /\ UNCHANGED <<trayReply, handling>>
                 \/ /\ Head(trayEvents) \in {<<"moved", w>>, <<"destroyed", w>>} /\ w \in Embedded
                    /\ Invalidated(RemoveAt(embedded, At(w)), trayRequests)
                    /\ UNCHANGED <<trayReply, handling>>
                 \/ /\ \/ Head(trayEvents) = <<"dock", w>> /\ w \in Embedded
                       \/ Head(trayEvents) = <<"map", w>> /\ ~(w \in Embedded /\ Exists(w))
                       \/ Head(trayEvents) \in {<<"info", w>>, <<"moved", w>>, <<"destroyed", w>>} /\ w \notin Embedded
                    /\ UNCHANGED <<embedded, trayStale, trayRequests, trayReply, handling>>
<1>1. trayEvents # <<>> /\ trayEvents \in Seq(TrayEvent)
  BY DEF HandleTrayEvent, TypesInv, TrayTypeOK, TrayEvent
<1>2. Head(trayEvents) \in TrayEvent
  BY <1>1, OneLess
<1>3. PICK kind, w : kind = Head(trayEvents)[1] /\ w = Head(trayEvents)[2]
  OBVIOUS
<1>4. Head(trayEvents) = <<kind, w>> /\ w \in Icon /\ kind \in {"dock", "info", "map", "moved", "destroyed"}
  BY <1>2, <1>3, PairIs DEF TrayEvent
<1>5. /\ trayEvents' = Tail(trayEvents) /\ handling = Idle
      /\ UNCHANGED <<iconVars, trayWindowVars, trayParent, trayRegistered, collected, iconCalls>>
      /\ \/ kind = "dock" /\ Dock(w)
         \/ kind = "info" /\ InfoChanged(w)
         \/ kind = "map" /\ MapRequested(w)
         \/ kind \in {"moved", "destroyed"} /\ Take(w)
  BY <1>3 DEF HandleTrayEvent
<1>6. CASE kind = "dock" /\ Dock(w)
  BY <1>1, <1>4, <1>5, <1>6, WaitIs DEF Dock
<1>7. CASE kind = "info" /\ InfoChanged(w)
  BY <1>1, <1>4, <1>5, <1>7, WaitIs DEF InfoChanged
<1>8. CASE kind = "map" /\ MapRequested(w)
  BY <1>1, <1>4, <1>5, <1>8, MapRequestedIs
<1>9. CASE kind \in {"moved", "destroyed"} /\ Take(w)
  BY <1>1, <1>4, <1>5, <1>9, TakeIs
<1> QED BY <1>5, <1>6, <1>7, <1>8, <1>9

\* What the server does to the windows.
LEMMA ExecutedIs ==
    ASSUME TypesInv, ExecuteTrayRequest
    PROVE  /\ trayRequests # <<>> /\ trayRequests' = Tail(trayRequests) /\ trayRequests \in Seq(TrayRequest)
           /\ Head(trayRequests) \in TrayRequest
           /\ UNCHANGED <<trayLuaVars, trayEvents, iconCalls, xembedInfo, asksMap, missed>>
           /\ \E op, x :
                 /\ Head(trayRequests) = <<op, x>>
                 /\ \/ ServeIcon(op, x) /\ x \in Icon
                    \/ ServeTray(op, x)
                    \/ op = "layout" /\ ServeLayout(op, x)
                       /\ \E l \in Seq(Cell), rows \in TrayRows : x = LayOut(l, rows)
<1>1. trayRequests # <<>> /\ trayRequests \in Seq(TrayRequest)
  BY DEF TypesInv, ExecuteTrayRequest
<1>2. Head(trayRequests) \in TrayRequest
  BY <1>1, OneLess
<1>3. PICK op, x : op = Head(trayRequests)[1] /\ x = Head(trayRequests)[2]
  OBVIOUS
<1>4. Head(trayRequests) = <<op, x>>
  BY <1>2, <1>3, TrayKinds
<1>5. /\ trayRequests' = Tail(trayRequests)
      /\ UNCHANGED <<trayLuaVars, trayEvents, iconCalls>>
      /\ ServeIcon(op, x) \/ ServeTray(op, x) \/ ServeLayout(op, x)
  BY <1>3 DEF ExecuteTrayRequest
<1>6. ServeIcon(op, x) => x \in Icon
  BY <1>2, <1>3, TrayKinds DEF ServeIcon
<1>7. ASSUME ServeLayout(op, x) PROVE op = "layout" /\ \E l \in Seq(Cell), rows \in TrayRows : x = LayOut(l, rows)
  <2>1. op = "layout"
    BY <1>7 DEF ServeLayout
  <2> DEFINE L == {LayOut(l, rows) : l \in Seq(Cell), rows \in TrayRows}
  <2> HIDE DEF L
  <2>2. Layouts = {"layout"} \X L
    BY DEF Layouts, L
  <2>3. <<op, x>> \in TrayMaps
    BY <1>2, <1>4, <2>1, TrayKinds
  <2>4. x \in L
    BY <2>1, <2>2, <2>3 DEF TrayMaps
  <2> QED BY <2>1, <2>4 DEF L
<1>8. UNCHANGED <<xembedInfo, asksMap, missed>>
  BY <1>5 DEF ServeIcon, ServeTray, ServeLayout, iconVars
<1> QED BY <1>1, <1>2, <1>4, <1>5, <1>6, <1>7, <1>8

\* What Lua code asks for.
LEMMA RedrawIs ==
    ASSUME TypesInv, NEW d \in TrayDrawin, NEW rows \in TrayRows, NEW isReversed \in BOOLEAN,
           RedrawTray(d, rows, isReversed)
    PROVE  \E q \in Seq(TrayRequest), l \in {embedded, Reverse(embedded)}, r \in TrayRequest :
              /\ q = IF trayParent # d THEN Append(trayRequests, <<"put", d>>) ELSE trayRequests
              /\ r = <<"layout", LayOut(l, rows)>> /\ l \in Seq(Cell)
              /\ trayRequests' = IF Visible(embedded) = {} THEN q ELSE Append(q, r)
<1> DEFINE list == IF isReversed THEN Reverse(embedded) ELSE embedded
           r == <<"layout", LayOut(list, rows)>>
<1>1. trayRequests \in Seq(TrayRequest) /\ embedded \in Seq(Cell)
  BY DEF TypesInv, TrayTypeOK, Cell
<1>2. list \in Seq(Cell)
  BY <1>1, ReverseIs
<1>3. r \in TrayRequest
  <2> DEFINE L == {LayOut(l, n) : l \in Seq(Cell), n \in TrayRows}
  <2>1. LayOut(list, rows) \in L
    BY <1>2
  <2> HIDE DEF L
  <2>2. Layouts = {"layout"} \X L
    BY DEF Layouts, L
  <2> QED BY <2>1, <2>2 DEF TrayRequest, Shows, TrayMaps
<1> HIDE DEF r
<1>4. PICK q : q = IF trayParent # d THEN Append(trayRequests, <<"put", d>>) ELSE trayRequests
  OBVIOUS
<1>5. q \in Seq(TrayRequest) /\ q = trayRequests \o (IF trayParent # d THEN <<<<"put", d>>>> ELSE <<>>)
  <2>1. <<"put", d>> \in TrayRequest
    BY RequestsAre
  <2>2. trayRequests \o <<<<"put", d>>>> = Append(trayRequests, <<"put", d>>)
        /\ Append(trayRequests, <<"put", d>>) \in Seq(TrayRequest) /\ trayRequests \o <<>> = trayRequests
    BY <1>1, <2>1, Joined
  <2> QED BY <1>1, <1>4, <2>2
<1>6. trayRequests' = trayRequests \o (IF trayParent # d THEN <<<<"put", d>>>> ELSE <<>>)
                          \o (IF Visible(embedded) = {} THEN <<>> ELSE <<r>>)
  BY DEF RedrawTray, r
<1>7. trayRequests' = IF Visible(embedded) = {} THEN q ELSE Append(q, r)
  <2>1. trayRequests' = q \o (IF Visible(embedded) = {} THEN <<>> ELSE <<r>>)
    BY <1>5, <1>6
  <2>2. q \o <<>> = q /\ q \o <<r>> = Append(q, r)
    BY <1>3, <1>5, Joined
  <2> QED BY <2>1, <2>2
<1>8. list \in {embedded, Reverse(embedded)} /\ r = <<"layout", LayOut(list, rows)>>
  BY DEF r
<1> HIDE DEF list
<1> QED BY <1>2, <1>3, <1>4, <1>5, <1>7, <1>8

LEMMA KickoutIs ==
    ASSUME TypesInv, NEW d \in TrayDrawin
    PROVE  LET q == IF trayParent = d THEN Append(trayRequests, <<"put", "root">>) ELSE trayRequests
           IN  /\ q \in Seq(TrayRequest)
               /\ Kickout(d) => trayRequests' = q
               /\ Wipe(d) => trayRequests' = Append(q, <<"destroy", d>>)
<1>1. trayRequests \in Seq(TrayRequest)
  BY DEF TypesInv
<1>2. PICK q : q = IF trayParent = d THEN Append(trayRequests, <<"put", "root">>) ELSE trayRequests
  OBVIOUS
<1>3. q \in Seq(TrayRequest) /\ q = trayRequests \o KickedOut(d)
  BY <1>1, <1>2, Joined, RequestsAre DEF KickedOut
<1>4. q \o <<<<"destroy", d>>>> = Append(q, <<"destroy", d>>)
  BY <1>3, Joined, RequestsAre
<1> QED BY <1>2, <1>3, <1>4 DEF Kickout, Wipe

LEMMA TrayTypesStep == ASSUME TypesInv, [TrayNext]_trayVars PROVE TypesInv'
<1>1. trayRequests \in Seq(TrayRequest) /\ trayEvents \in Seq(TrayEvent) /\ embedded \in Seq(Cell)
  BY DEF TypesInv, TrayTypeOK, TrayEvent, Cell
<1>2. ASSUME NEW e \in TrayEvent PROVE Append(trayEvents, e) \in Seq(TrayEvent)
  BY <1>1
<1>3. TrayTypeOK' /\ asksMap' \subseteq Icon /\ missed' \subseteq Icon /\ trayRequests' \in Seq(TrayRequest) => TypesInv'
  BY DEF TypesInv
<1>4. \A q \in Seq(TrayRequest), r \in TrayRequest : Append(q, r) \in Seq(TrayRequest)
  BY Joined
<1>5. CASE UNCHANGED trayVars
  BY <1>5 DEF TypesInv, TrayTypeOK, trayVars, iconVars, trayWindowVars, trayLuaVars
<1>6. ASSUME NEW w \in Icon, AppDocks(w) \/ AppSetsInfo(w) \/ AppMaps(w) \/ AppMovesAway(w) \/ AppDestroys(w)
      PROVE  TypesInv'
  <2>1. trayEvents' \in Seq(TrayEvent)
    <3>1. \A kind \in {"dock", "info", "map", "moved", "destroyed"} : <<kind, w>> \in TrayEvent
      BY DEF TrayEvent
    <3> QED BY <1>1, <1>2, <1>6, <3>1 DEF AppDocks, AppSetsInfo, AppMaps, AppMovesAway, AppDestroys, Tell
  <2>2. /\ UNCHANGED <<trayWindowVars, trayLuaVars, trayRequests, trayReply, iconMapped, iconSelected>>
        /\ trayPlace' \in [Icon -> {"root", "tray", "elsewhere", "gone"}]
        /\ xembedInfo' \in [Icon -> {"none", "hidden", "shown"}]
        /\ asksMap' \subseteq Icon /\ missed' \subseteq Icon
    BY <1>6 DEF TypesInv, TrayTypeOK, AppDocks, AppSetsInfo, AppMaps, AppMovesAway, AppDestroys, iconVars
  <2> QED BY <2>1, <2>2 DEF TypesInv, TrayTypeOK, trayWindowVars, trayLuaVars, TrayEvent
<1>7. CASE ExecuteTrayRequest
  <2>1. trayRequests' \in Seq(TrayRequest)
    BY <1>7, ExecutedIs, OneLess
  <2>2. UNCHANGED <<embedded, trayParent, trayRegistered, collected, handling, trayStale, trayEvents, xembedInfo,
                    asksMap, missed>>
    BY <1>7, ExecutedIs DEF trayLuaVars
  <2>3. PICK op, x : /\ Head(trayRequests) = <<op, x>> /\ Head(trayRequests) \in TrayRequest
                     /\ \/ ServeIcon(op, x) /\ x \in Icon
                        \/ ServeTray(op, x)
                        \/ op = "layout" /\ ServeLayout(op, x)
                           /\ \E l \in Seq(Cell), rows \in TrayRows : x = LayOut(l, rows)
    BY <1>7, ExecutedIs
  <2>4. /\ trayPlace' \in [Icon -> {"root", "tray", "elsewhere", "gone"}]
        /\ iconMapped' \subseteq Icon /\ iconSelected' \subseteq Icon
        /\ trayIn' \in TrayDrawin \cup {"root", "gone"} /\ trayMapped' \in BOOLEAN
        /\ trayReply' \in {"waiting", "none", "hidden", "shown"}
    <3>1. CASE ServeIcon(op, x) /\ x \in Icon
      BY <3>1 DEF ServeIcon, TypesInv, TrayTypeOK, trayWindowVars
    <3>2. CASE ServeTray(op, x)
      <4>1. op = "put" => x \in TrayDrawin \cup {"root"}
        BY <2>3, TrayKinds
      <4> QED BY <3>2, <4>1 DEF ServeTray, TypesInv, TrayTypeOK, iconVars
    <3>3. CASE op = "layout" /\ ServeLayout(op, x) /\ \E l \in Seq(Cell), rows \in TrayRows : x = LayOut(l, rows)
      <4>1. DOMAIN x.cells \subseteq Icon
        BY <3>3, LayOutIs
      <4> QED BY <3>3, <4>1 DEF ServeLayout, TypesInv, TrayTypeOK
    <3> QED BY <2>3, <3>1, <3>2, <3>3
  <2> QED BY <2>1, <2>2, <2>4 DEF TypesInv, TrayTypeOK
<1>8. CASE HandleTrayEvent
  <2>1. PICK w \in Icon :
              /\ trayEvents # <<>> /\ trayEvents' = Tail(trayEvents)
              /\ UNCHANGED <<iconVars, trayWindowVars, trayParent, trayRegistered, collected, iconCalls>>
              /\ \/ Waits("dock", w, Append(Append(Append(trayRequests, <<"read", w>>), <<"select", w>>),
                                            <<"embed", w>>))
                 \/ Waits("info", w, Append(trayRequests, <<"read", w>>))
                 \/ /\ Invalidated(Flagged(w, TRUE), Append(trayRequests, <<"map", w>>))
                    /\ UNCHANGED <<trayReply, handling>>
                 \/ /\ Invalidated(RemoveAt(embedded, At(w)), trayRequests)
                    /\ UNCHANGED <<trayReply, handling>>
                 \/ UNCHANGED <<embedded, trayStale, trayRequests, trayReply, handling>>
    BY <1>8, HandledNews
  <2>2. trayEvents' \in Seq(TrayEvent)
    BY <1>1, <2>1, OneLess
  <2>3. trayRequests' \in Seq(TrayRequest) /\ embedded' \in Seq(Cell)
        /\ handling' \in {Idle} \cup {"dock", "info"} \X Icon /\ trayStale' \in BOOLEAN
        /\ trayReply' \in {"waiting", "none", "hidden", "shown"}
    <3>1. \A op \in {"read", "select", "embed", "map"} : <<op, w>> \in TrayRequest
      BY RequestsAre
    <3>2. CASE Waits("dock", w, Append(Append(Append(trayRequests, <<"read", w>>), <<"select", w>>), <<"embed", w>>))
      BY <1>1, <1>4, <3>1, <3>2 DEF Waits, TypesInv, TrayTypeOK
    <3>3. CASE Waits("info", w, Append(trayRequests, <<"read", w>>))
      BY <1>1, <1>4, <3>1, <3>3 DEF Waits, TypesInv, TrayTypeOK
    <3>4. CASE /\ Invalidated(Flagged(w, TRUE), Append(trayRequests, <<"map", w>>))
               /\ UNCHANGED <<trayReply, handling>>
      BY <1>1, <1>4, <3>1, <3>4, RequestsAre DEF Invalidated, TypesInv, TrayTypeOK, Idle
    <3>5. CASE /\ Invalidated(RemoveAt(embedded, At(w)), trayRequests)
               /\ UNCHANGED <<trayReply, handling>>
      BY <1>1, <1>4, <3>5, RequestsAre DEF Invalidated, TypesInv, TrayTypeOK, Idle
    <3>6. CASE UNCHANGED <<embedded, trayStale, trayRequests, trayReply, handling>>
      BY <1>1, <3>6 DEF TypesInv, TrayTypeOK, Idle
    <3> QED BY <2>1, <3>2, <3>3, <3>4, <3>5, <3>6
  <2> QED BY <2>1, <2>2, <2>3 DEF TypesInv, TrayTypeOK, iconVars, trayWindowVars, TrayEvent, Cell, Idle
<1>9. CASE DockEnd
  <2>1. trayRequests' \in Seq(TrayRequest) /\ embedded' \in Seq(Cell) /\ trayStale' = TRUE
    BY <1>1, <1>4, <1>9, DockEndIs, RequestsAre DEF Invalidated
  <2> QED BY <1>9, <2>1 DEF DockEnd, TypesInv, TrayTypeOK, iconVars, trayWindowVars, Cell, Idle
<1>10. CASE InfoEnd
  <2>1. handling \in {"dock", "info"} \X Icon /\ handling[2] \in Icon
    <3>1. handling = Idle \/ handling \in {"dock", "info"} \X Icon
      BY DEF TypesInv, TrayTypeOK, Idle
    <3>2. Idle[1] # "info"
      BY DEF Idle
    <3> QED BY <1>10, <3>1, <3>2 DEF InfoEnd
  <2>2. InfoRead(handling[2])
    BY <1>10 DEF InfoEnd
  <2>3. trayRequests' \in Seq(TrayRequest) /\ embedded' \in Seq(Cell) /\ trayStale' \in BOOLEAN
    <3>1. CASE UNCHANGED <<embedded, trayStale, trayRequests>>
      BY <1>1, <3>1 DEF TypesInv, TrayTypeOK
    <3>2. CASE \E op \in {"map", "unmap"} :
                  Invalidated(Flagged(handling[2], trayReply = "shown"), Append(trayRequests, <<op, handling[2]>>))
      BY <1>1, <1>4, <2>1, <3>2, RequestsAre DEF Invalidated
    <3> QED BY <2>1, <2>2, <3>1, <3>2, InfoReadIs
  <2> QED BY <1>10, <2>3 DEF InfoEnd, TypesInv, TrayTypeOK, iconVars, trayWindowVars, Cell, Idle
<1>11. ASSUME NEW d \in TrayDrawin, NEW rows \in TrayRows, NEW isReversed \in BOOLEAN, RedrawTray(d, rows, isReversed)
       PROVE  TypesInv'
  <2>1. trayRequests' \in Seq(TrayRequest)
    BY <1>4, <1>11, RedrawIs
  <2> QED BY <1>11, <2>1 DEF RedrawTray, TypesInv, TrayTypeOK, iconVars, trayWindowVars
<1>12. ASSUME NEW d \in TrayDrawin, Kickout(d) \/ Wipe(d) PROVE TypesInv'
  <2>1. trayRequests' \in Seq(TrayRequest)
    BY <1>4, <1>12, KickoutIs, RequestsAre
  <2> QED BY <1>12, <2>1 DEF Kickout, Wipe, NewParent, TypesInv, TrayTypeOK, iconVars, trayWindowVars
<1> QED BY <1>5, <1>6, <1>7, <1>8, <1>9, <1>10, <1>11, <1>12 DEF TrayNext

-----------------------------------------------------------------------------
(* The tray outlives its drawins.                                          *)

LEMMA DrawinExecuted == ASSUME TypesInv, DrawinInv, ExecuteTrayRequest PROVE DrawinInv'
<1>1. PICK q : q = trayRequests
  OBVIOUS
<1>2. /\ q # <<>> /\ trayRequests' = Tail(q) /\ q \in Seq(TrayRequest) /\ Head(q) \in TrayRequest
      /\ UNCHANGED <<trayParent, collected>>
  BY <1>1, ExecutedIs DEF trayLuaVars
<1>3. PICK op, x : /\ Head(q) = <<op, x>>
                   /\ ServeIcon(op, x) \/ ServeTray(op, x) \/ (op = "layout" /\ ServeLayout(op, x))
  BY <1>1, ExecutedIs
<1>4. trayIn # "gone" /\ DrawinOf(q, trayParent, collected) /\ trayIn \in TrayDrawin \cup {"root"}
  BY <1>1 DEF DrawinInv, TypesInv, TrayTypeOK
<1>5. /\ \A d : Has(q, <<"destroy", d>>) <=> Has(Tail(q), <<"destroy", d>>) \/ Head(q) = <<"destroy", d>>
      /\ \A d : Has(q, <<"put", d>>) <=> Has(Tail(q), <<"put", d>>) \/ Head(q) = <<"put", d>>
      /\ HasAny(q, Puts) <=> HasAny(Tail(q), Puts) \/ Head(q) \in Puts
  BY <1>2, HasLess
<1>6. \A d \in TrayDrawin : /\ AllBefore(Tail(q), <<"put", d>>, <<"destroy", d>>)
                            /\ Head(q) = <<"destroy", d>> => ~Has(Tail(q), <<"put", d>>)
  BY <1>2, <1>4, AllBeforeLess DEF DrawinOf
<1>7. \A d \in TrayDrawin : /\ Head(q) = <<"destroy", d>> => trayIn # d
                            /\ Head(q) \notin Puts => IsAway(Tail(q), trayIn, d)
                            /\ \A e : Head(q) = <<"put", e>> => IsAway(Tail(q), e, d)
  BY <1>2, <1>4, IsAwayLess DEF DrawinOf
<1>8. trayParent \in TrayDrawin \cup {NoDrawin} /\ <<"put", Where(trayParent)>> \in Puts
  BY DEF TypesInv, TrayTypeOK, Where, Puts
<1>9. LastIs(q, <<"put", Where(trayParent)>>, Puts)
         <=> \/ LastIs(Tail(q), <<"put", Where(trayParent)>>, Puts)
             \/ Head(q) = <<"put", Where(trayParent)>> /\ ~HasAny(Tail(q), Puts)
  BY <1>2, <1>8, LastLess
<1>10. CASE op = "put"
  <2>1. x \in TrayDrawin \cup {"root"} /\ Head(q) \in Puts
    BY <1>2, <1>3, <1>10, TrayKinds
  <2>2. x \in TrayDrawin => x \in trayDrawins
    BY <1>3, <1>4, <1>5, <1>10 DEF DrawinOf
  <2>3. trayIn' = x /\ trayDrawins' = trayDrawins
    BY <1>3, <1>4, <1>10, <2>1, <2>2 DEF ServeTray, ServeIcon
  <2>4. x # "gone"
    BY <2>1, TrayAssumption
  <2>5. LastIs(Tail(q), <<"put", Where(trayParent)>>, Puts) \/ (x = Where(trayParent) /\ ~HasAny(Tail(q), Puts))
    BY <1>3, <1>4, <1>5, <1>9, <1>10, <2>1 DEF DrawinOf
  <2>6. \A d \in TrayDrawin : IsAway(Tail(q), x, d)
    BY <1>3, <1>7, <1>10
  <2> QED BY <1>2, <1>4, <1>5, <1>6, <2>3, <2>4, <2>5, <2>6 DEF DrawinInv, DrawinOf
<1>11. CASE op = "destroy"
  <2>1. x \in TrayDrawin /\ Head(q) \notin Puts
    BY <1>2, <1>3, <1>11, TrayKinds
  <2>2. trayIn' = trayIn /\ trayDrawins' = trayDrawins \ {x}
    BY <1>3, <1>7, <1>11, <2>1 DEF ServeTray, ServeIcon
  <2>3. LastIs(Tail(q), <<"put", Where(trayParent)>>, Puts) \/ (trayIn = Where(trayParent) /\ ~HasAny(Tail(q), Puts))
    BY <1>3, <1>4, <1>5, <1>9, <1>11, <2>1 DEF DrawinOf
  <2>4. ~Has(Tail(q), <<"put", x>>)
    BY <1>3, <1>6, <1>11, <2>1
  <2>5. \A d \in TrayDrawin : d \notin collected => d # x
    BY <1>3, <1>4, <1>5, <1>11 DEF DrawinOf
  <2>6. \A d \in TrayDrawin : IsAway(Tail(q), trayIn, d)
    BY <1>7, <2>1
  <2> QED BY <1>2, <1>4, <1>5, <1>6, <2>2, <2>3, <2>4, <2>5, <2>6 DEF DrawinInv, DrawinOf
<1>12. CASE op \notin {"put", "destroy"}
  <2>1. Head(q) \notin Puts
    BY <1>2, <1>3, <1>12, TrayKinds
  <2>2. trayIn' = trayIn /\ trayDrawins' = trayDrawins
    BY <1>3, <1>12 DEF ServeTray, ServeIcon, ServeLayout, trayWindowVars
  <2>3. LastIs(Tail(q), <<"put", Where(trayParent)>>, Puts) \/ (trayIn = Where(trayParent) /\ ~HasAny(Tail(q), Puts))
    BY <1>3, <1>4, <1>5, <1>9, <1>12, <2>1 DEF DrawinOf
  <2>4. \A d \in TrayDrawin : IsAway(Tail(q), trayIn, d)
    BY <1>7, <2>1
  <2> QED BY <1>2, <1>4, <1>5, <1>6, <2>2, <2>3, <2>4 DEF DrawinInv, DrawinOf
<1> QED BY <1>10, <1>11, <1>12

\* Requests about icons, layouts and mappings make no difference.
LEMMA DrawinInvalidated ==
    ASSUME NEW q \in Seq(TrayRequest), DrawinOf(q, trayParent, collected), NEW list, Invalidated(list, q)
    PROVE  DrawinOf(trayRequests', trayParent, collected)
<1>1. <<"unmapTray", NoDrawin>> \in TrayRequest /\ <<"unmapTray", NoDrawin>>[1] \notin {"put", "destroy"}
  BY RequestsAre
<1>2. PICK r \in TrayRequest : r = <<"unmapTray", NoDrawin>> /\ r[1] \notin {"put", "destroy"}
  BY <1>1
<1>3. DrawinOf(Append(q, r), trayParent, collected)
  BY <1>2, DrawinOther
<1> QED BY <1>2, <1>3 DEF Invalidated

LEMMA DrawinIcon ==
    ASSUME NEW q \in Seq(TrayRequest), DrawinOf(q, trayParent, collected), NEW w \in Icon,
           NEW op \in {"read", "select", "embed", "map", "unmap"}
    PROVE  DrawinOf(Append(q, <<op, w>>), trayParent, collected) /\ Append(q, <<op, w>>) \in Seq(TrayRequest)
<1>1. PICK r \in TrayRequest : r = <<op, w>> /\ r[1] \notin {"put", "destroy"}
  BY RequestsAre
<1> QED BY <1>1, DrawinOther, Joined

LEMMA TrayDrawinStep == ASSUME TypesInv, DrawinInv, [TrayNext]_trayVars PROVE DrawinInv'
<1>1. trayRequests \in Seq(TrayRequest) /\ DrawinOf(trayRequests, trayParent, collected)
  BY DEF TypesInv, DrawinInv
<1>2. ASSUME UNCHANGED <<trayIn, trayDrawins, trayParent, collected>>,
             DrawinOf(trayRequests', trayParent, collected)
      PROVE  DrawinInv'
  BY <1>2 DEF DrawinInv, DrawinOf
<1>3. CASE UNCHANGED trayVars
  BY <1>1, <1>2, <1>3 DEF trayVars, trayWindowVars, trayLuaVars
<1>4. ASSUME NEW w \in Icon, AppDocks(w) \/ AppSetsInfo(w) \/ AppMaps(w) \/ AppMovesAway(w) \/ AppDestroys(w)
      PROVE  DrawinInv'
  <2>1. UNCHANGED <<trayIn, trayDrawins, trayParent, collected, trayRequests>>
    BY <1>4 DEF AppDocks, AppSetsInfo, AppMaps, AppMovesAway, AppDestroys, trayWindowVars, trayLuaVars
  <2> QED BY <1>1, <1>2, <2>1
<1>5. CASE ExecuteTrayRequest
  BY <1>5, DrawinExecuted
<1>6. CASE HandleTrayEvent
  <2>1. PICK w \in Icon :
              /\ UNCHANGED <<trayWindowVars, trayParent, collected>>
              /\ \/ Waits("dock", w, Append(Append(Append(trayRequests, <<"read", w>>), <<"select", w>>),
                                            <<"embed", w>>))
                 \/ Waits("info", w, Append(trayRequests, <<"read", w>>))
                 \/ Invalidated(Flagged(w, TRUE), Append(trayRequests, <<"map", w>>))
                 \/ Invalidated(RemoveAt(embedded, At(w)), trayRequests)
                 \/ UNCHANGED trayRequests
    BY <1>6, HandledNews
  <2>2. DrawinOf(trayRequests', trayParent, collected)
    <3>1. CASE Waits("dock", w, Append(Append(Append(trayRequests, <<"read", w>>), <<"select", w>>), <<"embed", w>>))
      <4>1. PICK q \in Seq(TrayRequest) :
                    q = Append(trayRequests, <<"read", w>>) /\ DrawinOf(q, trayParent, collected)
        BY <1>1, DrawinIcon
      <4>2. PICK p \in Seq(TrayRequest) : p = Append(q, <<"select", w>>) /\ DrawinOf(p, trayParent, collected)
        BY <4>1, DrawinIcon
      <4>3. DrawinOf(Append(p, <<"embed", w>>), trayParent, collected)
        BY <4>2, DrawinIcon
      <4> QED BY <3>1, <4>1, <4>2, <4>3 DEF Waits
    <3>2. CASE Waits("info", w, Append(trayRequests, <<"read", w>>))
      BY <1>1, <3>2, DrawinIcon DEF Waits
    <3>3. CASE Invalidated(Flagged(w, TRUE), Append(trayRequests, <<"map", w>>))
      BY <1>1, <3>3, DrawinIcon, DrawinInvalidated
    <3>4. CASE Invalidated(RemoveAt(embedded, At(w)), trayRequests)
      BY <1>1, <3>4, DrawinInvalidated
    <3>5. CASE UNCHANGED trayRequests
      BY <1>1, <3>5
    <3> QED BY <2>1, <3>1, <3>2, <3>3, <3>4, <3>5
  <2> QED BY <1>2, <2>1, <2>2 DEF trayWindowVars
<1>7. CASE DockEnd
  <2>1. UNCHANGED <<trayWindowVars, trayParent, collected>>
    BY <1>7 DEF DockEnd
  <2>2. DrawinOf(trayRequests', trayParent, collected)
    BY <1>1, <1>7, DockEndIs, DrawinInvalidated
  <2> QED BY <1>2, <2>1, <2>2 DEF trayWindowVars
<1>8. CASE InfoEnd
  <2>1. UNCHANGED <<trayWindowVars, trayParent, collected>>
    BY <1>8 DEF InfoEnd
  <2>2. handling[2] \in Icon /\ InfoRead(handling[2])
    <3>1. handling = Idle \/ handling \in {"dock", "info"} \X Icon
      BY DEF TypesInv, TrayTypeOK, Idle
    <3>2. Idle[1] # "info"
      BY DEF Idle
    <3> QED BY <1>8, <3>1, <3>2 DEF InfoEnd
  <2>3. DrawinOf(trayRequests', trayParent, collected)
    <3>1. CASE UNCHANGED trayRequests
      BY <1>1, <3>1
    <3>2. ASSUME NEW op \in {"map", "unmap"},
                 Invalidated(Flagged(handling[2], trayReply = "shown"), Append(trayRequests, <<op, handling[2]>>))
          PROVE  DrawinOf(trayRequests', trayParent, collected)
      BY <1>1, <2>2, <3>2, DrawinIcon, DrawinInvalidated
    <3> QED BY <2>2, <3>1, <3>2, InfoReadIs
  <2> QED BY <1>2, <2>1, <2>3 DEF trayWindowVars
<1>9. ASSUME NEW d \in TrayDrawin, NEW rows \in TrayRows, NEW isReversed \in BOOLEAN, RedrawTray(d, rows, isReversed)
      PROVE  DrawinInv'
  <2>1. UNCHANGED <<trayIn, trayDrawins, collected>> /\ trayParent' = d /\ d \notin collected
    BY <1>9 DEF RedrawTray, trayWindowVars
  <2>2. PICK q \in Seq(TrayRequest), l \in {embedded, Reverse(embedded)}, r \in TrayRequest :
              /\ q = IF trayParent # d THEN Append(trayRequests, <<"put", d>>) ELSE trayRequests
              /\ r = <<"layout", LayOut(l, rows)>> /\ l \in Seq(Cell)
              /\ trayRequests' = IF Visible(embedded) = {} THEN q ELSE Append(q, r)
    BY <1>9, RedrawIs
  <2>3. DrawinOf(q, d, collected)
    <3>1. CASE trayParent = d
      BY <1>1, <2>2, <3>1
    <3>2. CASE trayParent # d
      <4>1. Where(d) = d
        BY TrayAssumption DEF Where
      <4> QED BY <1>1, <2>1, <2>2, <3>2, <4>1, DrawinPut
    <3> QED BY <3>1, <3>2
  <2>4. DrawinOf(Append(q, r), d, collected)
    <3>1. r[1] \notin {"put", "destroy"}
      BY <2>2
    <3> QED BY <2>3, <3>1, DrawinOther
  <2>5. DrawinOf(trayRequests', trayParent', collected)
    BY <2>1, <2>2, <2>3, <2>4
  <2> QED BY <2>1, <2>5 DEF DrawinInv, DrawinOf
<1>10. ASSUME NEW d \in TrayDrawin, Kickout(d) \/ Wipe(d) PROVE DrawinInv'
  <2>1. UNCHANGED <<trayIn, trayDrawins>> /\ trayParent' = NewParent(d)
        /\ (Kickout(d) => collected' = collected) /\ (Wipe(d) => collected' = collected \cup {d})
    BY <1>10 DEF Kickout, Wipe, trayWindowVars
  <2>2. PICK q \in Seq(TrayRequest) :
              /\ q = IF trayParent = d THEN Append(trayRequests, <<"put", "root">>) ELSE trayRequests
              /\ Kickout(d) => trayRequests' = q
              /\ Wipe(d) => trayRequests' = Append(q, <<"destroy", d>>)
    BY KickoutIs
  <2>3. NewParent(d) \in TrayDrawin \cup {NoDrawin} /\ NewParent(d) # d
    BY TrayAssumption DEF NewParent, TypesInv, TrayTypeOK
  <2>4. DrawinOf(q, NewParent(d), collected)
    <3>1. CASE trayParent # d
      BY <1>1, <2>2, <3>1 DEF NewParent
    <3>2. CASE trayParent = d
      <4>1. NewParent(d) = NoDrawin /\ Where(NoDrawin) = "root" /\ NoDrawin \notin collected
        BY <3>2, TrayAssumption DEF NewParent, Where, TypesInv, TrayTypeOK
      <4> QED BY <1>1, <2>2, <3>2, <4>1, DrawinPut
    <3> QED BY <3>1, <3>2
  <2>5. DrawinOf(Append(q, <<"destroy", d>>), NewParent(d), collected \cup {d})
    BY <2>2, <2>3, <2>4, DrawinDestroy
  <2>6. DrawinOf(trayRequests', trayParent', collected')
    BY <1>10, <2>1, <2>2, <2>4, <2>5
  <2> QED BY <2>1, <2>6 DEF DrawinInv, DrawinOf
<1> QED BY <1>3, <1>4, <1>5, <1>6, <1>7, <1>8, <1>9, <1>10 DEF TrayNext

-----------------------------------------------------------------------------
(* The list.                                                               *)

LEMMA EmbeddedIs == ASSUME TypesInv PROVE Embedded = {embedded[i].win : i \in 1..Len(embedded)} /\ embedded \in Seq(Cell)
<1>1. embedded \in Seq(Cell)
  BY DEF TypesInv, TrayTypeOK, Cell
<1> QED BY <1>1, VisibleIs DEF Embedded

LEMMA IsFlaggedIs ==
    ASSUME TypesInv, Listed, NEW i \in 1..Len(embedded)
    PROVE  /\ embedded[i].win \in Embedded
           /\ IsFlagged(embedded[i].win) = embedded[i].mapped
<1>1. embedded \in Seq(Cell) /\ DOMAIN embedded = 1..Len(embedded) /\ \A j \in 1..Len(embedded) : embedded[j] \in Cell
  BY EmbeddedIs, VisibleIs
<1>2. \A c \in Cell : c.mapped \in BOOLEAN /\ (c = [win |-> c.win, mapped |-> TRUE] <=> c.mapped)
  BY DEF Cell
<1>3. PICK w : w = embedded[i].win
  OBVIOUS
<1>4. ASSUME NEW j \in 1..Len(embedded), embedded[j] = [win |-> w, mapped |-> TRUE] PROVE embedded[i].mapped
  <2>1. embedded[j].win = w
    BY <1>4
  <2>2. j = i
    BY <1>3, <2>1 DEF Listed
  <2> QED BY <1>1, <1>2, <1>3, <1>4, <2>2
<1>5. embedded[i].mapped => embedded[i] = [win |-> w, mapped |-> TRUE]
  BY <1>1, <1>2, <1>3
<1>6. IsFlagged(w) <=> embedded[i].mapped
  BY <1>1, <1>4, <1>5 DEF IsFlagged
<1> QED BY <1>1, <1>2, <1>3, <1>6, EmbeddedIs DEF IsFlagged

LEMMA FlaggedList ==
    ASSUME TypesInv, Listed, NEW w \in Embedded, NEW shown \in BOOLEAN, embedded' = Flagged(w, shown), TypesInv'
    PROVE  /\ Embedded' = Embedded
           /\ \A i, j \in 1..Len(embedded') : embedded'[i].win = embedded'[j].win => i = j
           /\ IsFlagged(w)' = shown
           /\ \A v : v # w => (IsFlagged(v)' <=> IsFlagged(v))
<1>1. /\ w \in Icon /\ Len(embedded) \in Nat /\ DOMAIN embedded = 1..Len(embedded) /\ DOMAIN embedded' = 1..Len(embedded')
  <2>1. \A i \in 1..Len(embedded) : embedded[i].win \in Icon
    BY EmbeddedIs, VisibleIs
  <2>2. embedded' \in Seq(Cell)
    BY DEF TypesInv, TrayTypeOK, Cell
  <2> QED BY <2>1, <2>2, EmbeddedIs, VisibleIs
<1>2. /\ Len(embedded') = Len(embedded)
      /\ \A i \in 1..Len(embedded) :
            embedded'[i] = IF embedded[i].win = w THEN [win |-> w, mapped |-> shown] ELSE embedded[i]
  BY <1>1, FlaggedIs
<1>3. \A i \in 1..Len(embedded) : embedded'[i].win = embedded[i].win
  BY <1>2
<1>4. Embedded' = {embedded'[i].win : i \in 1..Len(embedded')}
  BY <1>1 DEF Embedded
<1>5. Embedded' = Embedded
  BY <1>2, <1>3, <1>4, EmbeddedIs
<1>6. \A i, j \in 1..Len(embedded') : embedded'[i].win = embedded'[j].win => i = j
  BY <1>2, <1>3 DEF Listed
<1>7. PICK k \in 1..Len(embedded) : embedded[k].win = w
  BY EmbeddedIs
<1>8. IsFlagged(w)' = shown
  <2>1. ASSUME shown PROVE IsFlagged(w)'
    <3>1. embedded'[k] = [win |-> w, mapped |-> TRUE]
      BY <1>2, <1>7, <2>1
    <3> QED BY <1>1, <1>2, <3>1 DEF IsFlagged
  <2>2. ASSUME IsFlagged(w)' PROVE shown
    <3>1. PICK i \in 1..Len(embedded) : embedded'[i] = [win |-> w, mapped |-> TRUE]
      BY <1>1, <1>2, <2>2 DEF IsFlagged
    <3>2. embedded[i].win = w
      BY <1>3, <3>1
    <3>3. [win |-> w, mapped |-> shown] = [win |-> w, mapped |-> TRUE]
      BY <1>2, <3>1, <3>2
    <3>4. [win |-> w, mapped |-> shown].mapped = [win |-> w, mapped |-> TRUE].mapped
      BY <3>3
    <3> QED BY <3>4
  <2> QED BY <2>1, <2>2 DEF IsFlagged
<1>9. ASSUME NEW v, v # w PROVE IsFlagged(v)' <=> IsFlagged(v)
  <2>1. ASSUME NEW i \in 1..Len(embedded)
        PROVE  embedded'[i] = [win |-> v, mapped |-> TRUE] <=> embedded[i] = [win |-> v, mapped |-> TRUE]
    <3>1. CASE embedded[i].win = w
      <4>1. embedded'[i].win # v /\ embedded[i].win # v
        BY <1>3, <1>9, <3>1
      <4> QED BY <4>1
    <3>2. CASE embedded[i].win # w
      BY <1>2, <3>2
    <3> QED BY <3>1, <3>2
  <2> QED BY <1>1, <1>2, <2>1 DEF IsFlagged
<1> QED BY <1>5, <1>6, <1>8, <1>9

LEMMA TakenList ==
    ASSUME TypesInv, Listed, NEW w \in Embedded, embedded' = RemoveAt(embedded, At(w)), TypesInv'
    PROVE  /\ Embedded' = Embedded \ {w}
           /\ \A i, j \in 1..Len(embedded') : embedded'[i].win = embedded'[j].win => i = j
           /\ \A v : v # w => (IsFlagged(v)' <=> IsFlagged(v))
<1>1. /\ Len(embedded) \in Nat /\ DOMAIN embedded = 1..Len(embedded) /\ DOMAIN embedded' = 1..Len(embedded')
  <2>1. embedded' \in Seq(Cell)
    BY DEF TypesInv, TrayTypeOK, Cell
  <2> QED BY <2>1, EmbeddedIs, VisibleIs
<1>2. PICK k \in 1..Len(embedded) : k = At(w) /\ embedded[k].win = w
  BY AtIs
<1>3. /\ Len(embedded') = Len(embedded) - 1
      /\ \A j \in 1..Len(embedded') : embedded'[j] = IF j < k THEN embedded[j] ELSE embedded[j + 1]
  BY <1>2, TakenOut
<1>4. \A j \in 1..Len(embedded') : j + 1 \in 1..Len(embedded) /\ j \in 1..Len(embedded)
  BY <1>1, <1>3
<1>5. ASSUME NEW i \in 1..Len(embedded), i # k PROVE \E j \in 1..Len(embedded') : embedded'[j] = embedded[i]
  <2>1. CASE i < k
    <3>1. i \in 1..Len(embedded')
      BY <1>1, <1>3, <2>1
    <3> QED BY <1>3, <2>1, <3>1
  <2>2. CASE ~(i < k)
    <3>1. i - 1 \in 1..Len(embedded') /\ ~(i - 1 < k) /\ (i - 1) + 1 = i
      BY <1>1, <1>3, <1>5, <2>2
    <3> QED BY <1>3, <3>1
  <2> QED BY <2>1, <2>2
<1>6. ASSUME NEW j \in 1..Len(embedded') PROVE \E i \in 1..Len(embedded) : i # k /\ embedded'[j] = embedded[i]
  <2>1. CASE j < k
    <3>1. j \in 1..Len(embedded) /\ j # k
      BY <1>4, <2>1
    <3>2. embedded'[j] = embedded[j]
      BY <1>3, <2>1
    <3> QED BY <3>1, <3>2
  <2>2. CASE ~(j < k)
    <3>1. j + 1 # k
      BY <2>2
    <3> QED BY <1>3, <1>4, <2>2, <3>1
  <2> QED BY <2>1, <2>2
<1>7. Embedded' = {embedded'[i].win : i \in 1..Len(embedded')}
  BY <1>1 DEF Embedded
<1>8. \A i \in 1..Len(embedded) : i # k => embedded[i].win # w
  BY <1>2 DEF Listed
<1>9. Embedded' = Embedded \ {w}
  <2>1. ASSUME NEW v \in Embedded' PROVE v \in Embedded /\ v # w
    <3>1. PICK j \in 1..Len(embedded') : v = embedded'[j].win
      BY <1>7
    <3>2. PICK i \in 1..Len(embedded) : i # k /\ embedded'[j] = embedded[i]
      BY <1>6
    <3> QED BY <1>8, <3>1, <3>2, EmbeddedIs
  <2>2. ASSUME NEW v \in Embedded, v # w PROVE v \in Embedded'
    <3>1. PICK i \in 1..Len(embedded) : v = embedded[i].win
      BY EmbeddedIs
    <3>2. i # k
      BY <1>2, <2>2, <3>1
    <3>3. PICK j \in 1..Len(embedded') : embedded'[j] = embedded[i]
      BY <1>5, <3>2
    <3> QED BY <1>7, <3>1, <3>3
  <2> QED BY <2>1, <2>2
<1>10. ASSUME NEW i \in 1..Len(embedded'), NEW j \in 1..Len(embedded'), embedded'[i].win = embedded'[j].win PROVE i = j
  <2>1. PICK g \in 1..Len(embedded) : g = IF i < k THEN i ELSE i + 1
    BY <1>4
  <2>2. PICK h \in 1..Len(embedded) : h = IF j < k THEN j ELSE j + 1
    BY <1>4
  <2>3. embedded[g].win = embedded[h].win
    BY <1>3, <1>10, <2>1, <2>2
  <2>4. g = h
    BY <2>3 DEF Listed
  <2> QED BY <2>1, <2>2, <2>4
<1>11. ASSUME NEW v, v # w PROVE IsFlagged(v)' <=> IsFlagged(v)
  <2>1. IsFlagged(v)' => IsFlagged(v)
    BY <1>1, <1>6 DEF IsFlagged
  <2>2. ASSUME IsFlagged(v) PROVE IsFlagged(v)'
    <3>1. PICK i \in 1..Len(embedded) : embedded[i] = [win |-> v, mapped |-> TRUE]
      BY <1>1, <2>2 DEF IsFlagged
    <3>2. embedded[i].win = v
      BY <3>1
    <3>3. i # k
      BY <1>2, <1>11, <3>2
    <3> QED BY <1>1, <1>5, <3>1, <3>3 DEF IsFlagged
  <2> QED BY <2>1, <2>2
<1> QED BY <1>9, <1>10, <1>11

LEMMA AppendedList ==
    ASSUME TypesInv, Listed, NEW e \in Cell, e.win \notin Embedded, embedded' = Append(embedded, e), TypesInv'
    PROVE  /\ Embedded' = Embedded \cup {e.win}
           /\ \A i, j \in 1..Len(embedded') : embedded'[i].win = embedded'[j].win => i = j
           /\ IsFlagged(e.win)' = e.mapped
           /\ \A v : v # e.win => (IsFlagged(v)' <=> IsFlagged(v))
<1>1. /\ Len(embedded) \in Nat /\ DOMAIN embedded = 1..Len(embedded) /\ DOMAIN embedded' = 1..Len(embedded')
  <2>1. embedded' \in Seq(Cell)
    BY DEF TypesInv, TrayTypeOK, Cell
  <2> QED BY <2>1, EmbeddedIs, VisibleIs
<1>2. /\ Len(embedded') = Len(embedded) + 1 /\ embedded'[Len(embedded) + 1] = e
      /\ \A i \in 1..Len(embedded) : embedded'[i] = embedded[i]
      /\ \A i \in 1..Len(embedded') : i \in 1..Len(embedded) \/ i = Len(embedded) + 1
      /\ 1..Len(embedded) \subseteq 1..Len(embedded') /\ Len(embedded) + 1 \in 1..Len(embedded')
  BY EmbeddedIs, OneMore
<1>3. Embedded' = {embedded'[i].win : i \in 1..Len(embedded')}
  BY <1>1 DEF Embedded
<1>4. Embedded' = Embedded \cup {e.win}
  BY <1>2, <1>3, EmbeddedIs
<1>5. \A i \in 1..Len(embedded) : embedded[i].win # e.win
  BY EmbeddedIs
<1>6. \A i, j \in 1..Len(embedded') : embedded'[i].win = embedded'[j].win => i = j
  BY <1>2, <1>5 DEF Listed
<1>7. e.mapped \in BOOLEAN /\ (e = [win |-> e.win, mapped |-> TRUE] <=> e.mapped)
  BY DEF Cell
<1>8. ASSUME NEW i \in 1..Len(embedded) PROVE embedded'[i] # [win |-> e.win, mapped |-> TRUE]
  <2>1. embedded'[i].win # e.win
    BY <1>2, <1>5
  <2> QED BY <2>1
<1>9. IsFlagged(e.win)' = e.mapped
  <2>1. IsFlagged(e.win)' <=> e.mapped
    BY <1>1, <1>2, <1>7, <1>8 DEF IsFlagged
  <2> QED BY <1>7, <2>1 DEF IsFlagged
<1>10. ASSUME NEW v, v # e.win PROVE IsFlagged(v)' <=> IsFlagged(v)
  <2>1. e # [win |-> v, mapped |-> TRUE]
    BY <1>10
  <2> QED BY <1>1, <1>2, <2>1 DEF IsFlagged
<1> QED BY <1>4, <1>6, <1>9, <1>10
-----------------------------------------------------------------------------
(* What the queues have for an icon, when they grow and shrink.            *)

LEMMA LastHas ==
    ASSUME NEW T, NEW s \in Seq(T)
    PROVE  /\ \A e, S : LastIs(s, e, S) => Has(s, e)
           /\ \A e, S : e \in S /\ Has(s, e) => HasAny(s, S)
           /\ \A e, f : Follows(s, e, f) /\ ~Has(s, f) => ~Has(s, e)
<1>1. Len(s) \in Nat
  BY LenProperties
<1>2. \A e, S : LastIs(s, e, S) => Has(s, e)
  BY DEF LastIs, Has
<1>3. \A e, S : e \in S /\ Has(s, e) => HasAny(s, S)
  BY DEF HasAny, Has
<1>4. ASSUME NEW e, NEW f, Follows(s, e, f), Has(s, e) PROVE Has(s, f)
  <2>1. PICK i \in 1..Len(s) : s[i] = e
    BY <1>4 DEF Has
  <2>2. PICK j \in i + 1..Len(s) : s[j] = f
    BY <1>4, <2>1 DEF Follows
  <2>3. j \in 1..Len(s)
    BY <1>1, <2>1
  <2> QED BY <2>2, <2>3 DEF Has
<1> QED BY <1>2, <1>3, <1>4

LEMMA TrayNews ==
    ASSUME NEW w \in Icon
    PROVE  /\ <<"dock", w>> \in TrayEvent /\ <<"info", w>> \in TrayEvent /\ <<"map", w>> \in TrayEvent
           /\ <<"moved", w>> \in TrayEvent /\ <<"destroyed", w>> \in TrayEvent
           /\ <<"dock", w>> # <<"destroyed", w>> /\ <<"map", w>> # <<"moved", w>> /\ <<"map", w>> # <<"info", w>>
           /\ <<"map", w>> # <<"dock", w>> /\ <<"map", w>> # <<"destroyed", w>> /\ <<"dock", w>> # <<"info", w>>
           /\ <<"dock", w>> # <<"moved", w>> /\ <<"info", w>> # <<"moved", w>> /\ <<"info", w>> # <<"destroyed", w>>
           /\ <<"moved", w>> # <<"destroyed", w>>
           /\ <<"info", w>> \in News(w) /\ <<"map", w>> \in News(w) /\ <<"dock", w>> \notin News(w)
           /\ <<"moved", w>> \notin News(w) /\ <<"destroyed", w>> \notin News(w)
  BY DEF TrayEvent, News

\* The news after one more, and without the first.
GrownNews(e, r, f, w) ==
    /\ \A x : Has(f, x) <=> Has(e, x) \/ r = x
    /\ HasAny(f, News(w)) <=> HasAny(e, News(w)) \/ r \in News(w)
    /\ \A x \in {<<"moved", w>>, <<"destroyed", w>>} : Once(e, x) /\ (r = x => ~Has(e, x)) => Once(f, x)
    /\ r = <<"destroyed", w>> \/ (r # <<"dock", w>> /\ Follows(e, <<"dock", w>>, <<"destroyed", w>>)) =>
          Follows(f, <<"dock", w>>, <<"destroyed", w>>)
    /\ r = <<"moved", w>> \/ (r # <<"map", w>> /\ Follows(e, <<"map", w>>, <<"moved", w>>)) =>
          Follows(f, <<"map", w>>, <<"moved", w>>)
    /\ \A x \in News(w) : LastIs(f, x, News(w)) <=> r = x \/ (r \notin News(w) /\ LastIs(e, x, News(w)))
ShrunkNews(e, r, f, w) ==
    /\ \A x : Has(e, x) <=> Has(f, x) \/ r = x
    /\ HasAny(e, News(w)) <=> HasAny(f, News(w)) \/ r \in News(w)
    /\ \A x : Once(e, x) => Once(f, x) /\ (r = x => ~Has(f, x))
    /\ \A x, y : Follows(e, x, y) => Follows(f, x, y) /\ (r = x => Has(f, y))
    /\ \A x \in News(w) : LastIs(e, x, News(w)) <=> LastIs(f, x, News(w)) \/ (r = x /\ ~HasAny(f, News(w)))

LEMMA NewsMore ==
    ASSUME NEW e \in Seq(TrayEvent), NEW r \in TrayEvent, NEW w \in Icon
    PROVE  GrownNews(e, r, Append(e, r), w)
<1>0. PICK f : f = Append(e, r)
  OBVIOUS
<1>1. /\ \A x : Has(f, x) <=> Has(e, x) \/ r = x
      /\ HasAny(f, News(w)) <=> HasAny(e, News(w)) \/ r \in News(w)
  BY <1>0, HasMore
<1>2. ASSUME NEW x, Once(e, x), r = x => ~Has(e, x) PROVE Once(f, x)
  BY <1>0, <1>2, OnceMore
<1>3. r = <<"destroyed", w>> \/ (r # <<"dock", w>> /\ Follows(e, <<"dock", w>>, <<"destroyed", w>>)) =>
         Follows(f, <<"dock", w>>, <<"destroyed", w>>)
  <2>0. <<"dock", w>> # <<"destroyed", w>>
    OBVIOUS
  <2>1. PICK a, b : a = <<"dock", w>> /\ b = <<"destroyed", w>> /\ a # b
    BY <2>0
  <2>2. r = b \/ (r # a /\ Follows(e, a, b)) => Follows(f, a, b)
    BY <1>0, <2>1, FollowsMore
  <2> QED BY <2>1, <2>2
<1>4. r = <<"moved", w>> \/ (r # <<"map", w>> /\ Follows(e, <<"map", w>>, <<"moved", w>>)) =>
         Follows(f, <<"map", w>>, <<"moved", w>>)
  <2>0. <<"map", w>> # <<"moved", w>>
    OBVIOUS
  <2>1. PICK a, b : a = <<"map", w>> /\ b = <<"moved", w>> /\ a # b
    BY <2>0
  <2>2. r = b \/ (r # a /\ Follows(e, a, b)) => Follows(f, a, b)
    BY <1>0, <2>1, FollowsMore
  <2> QED BY <2>1, <2>2
<1>5. \A x \in News(w) : LastIs(f, x, News(w)) <=> r = x \/ (r \notin News(w) /\ LastIs(e, x, News(w)))
  BY <1>0, LastMore
<1>6. GrownNews(e, r, f, w)
  BY <1>1, <1>2, <1>3, <1>4, <1>5 DEF GrownNews
<1> QED BY <1>0, <1>6

LEMMA NewsLess ==
    ASSUME NEW e \in Seq(TrayEvent), e # <<>>, NEW w \in Icon
    PROVE  ShrunkNews(e, Head(e), Tail(e), w)
<1>0. PICK r, f : r = Head(e) /\ f = Tail(e)
  OBVIOUS
<1>1. /\ \A x : Has(e, x) <=> Has(f, x) \/ r = x
      /\ HasAny(e, News(w)) <=> HasAny(f, News(w)) \/ r \in News(w)
  BY <1>0, HasLess
<1>2. \A x : Once(e, x) => Once(f, x) /\ (r = x => ~Has(f, x))
  BY <1>0, OnceLess
<1>3. \A x, y : Follows(e, x, y) => Follows(f, x, y) /\ (r = x => Has(f, y))
  BY <1>0, FollowsLess
<1>4. \A x \in News(w) : LastIs(e, x, News(w)) <=> LastIs(f, x, News(w)) \/ (r = x /\ ~HasAny(f, News(w)))
  BY <1>0, LastLess
<1>5. ShrunkNews(e, r, f, w)
  BY <1>1, <1>2, <1>3, <1>4 DEF ShrunkNews
<1> QED BY <1>0, <1>5

\* The same news, and the same requests, for an icon.
SameNews(e, f, w) ==
    /\ \A x \in {<<"info", w>>, <<"map", w>>, <<"moved", w>>, <<"destroyed", w>>} : Has(f, x) <=> Has(e, x)
    /\ HasAny(f, News(w)) <=> HasAny(e, News(w))
    /\ \A x \in {<<"moved", w>>, <<"destroyed", w>>} : Once(e, x) => Once(f, x)
    /\ Follows(e, <<"dock", w>>, <<"destroyed", w>>) => Follows(f, <<"dock", w>>, <<"destroyed", w>>)
    /\ Follows(e, <<"map", w>>, <<"moved", w>>) => Follows(f, <<"map", w>>, <<"moved", w>>)
    /\ \A x \in News(w) : LastIs(f, x, News(w)) <=> LastIs(e, x, News(w))
SameAsked(q, p, w) ==
    /\ \A op \in {"read", "select", "embed"} : Has(p, <<op, w>>) <=> Has(q, <<op, w>>)
    /\ \A op \in {"read", "embed"} : Once(q, <<op, w>>) => Once(p, <<op, w>>)
    /\ Precedes(q, <<"embed", w>>, <<"select", w>>) => Precedes(p, <<"embed", w>>, <<"select", w>>)

LEMMA NewsOfOthers ==
    ASSUME NEW e \in Seq(TrayEvent), NEW w \in Icon
    PROVE  /\ SameNews(e, e, w)
           /\ \A r \in TrayEvent : r[2] # w => SameNews(e, Append(e, r), w)
           /\ e # <<>> /\ Head(e)[2] # w => SameNews(e, Tail(e), w)
           /\ e # <<>> /\ Head(e) = <<"dock", w>> => SameNews(e, Tail(e), w)
<1>1. SameNews(e, e, w)
  BY DEF SameNews
<1>2. ASSUME NEW r \in TrayEvent, r[2] # w PROVE SameNews(e, Append(e, r), w)
  <2>1. \A k : r # <<k, w>>
    BY <1>2
  <2>2. r \notin News(w)
    BY <2>1 DEF News
  <2>3. PICK f : f = Append(e, r)
    OBVIOUS
  <2>4. r # <<"info", w>> /\ r # <<"map", w>> /\ r # <<"moved", w>> /\ r # <<"destroyed", w>> /\ r # <<"dock", w>>
    BY <2>1
  <2>5. /\ \A x : Has(f, x) <=> Has(e, x) \/ r = x
        /\ HasAny(f, News(w)) <=> HasAny(e, News(w))
        /\ \A x \in {<<"moved", w>>, <<"destroyed", w>>} : Once(e, x) => Once(f, x)
        /\ Follows(e, <<"dock", w>>, <<"destroyed", w>>) => Follows(f, <<"dock", w>>, <<"destroyed", w>>)
        /\ Follows(e, <<"map", w>>, <<"moved", w>>) => Follows(f, <<"map", w>>, <<"moved", w>>)
        /\ \A x \in News(w) : LastIs(f, x, News(w)) <=> r = x \/ LastIs(e, x, News(w))
    <3>1. GrownNews(e, r, f, w)
      BY <2>3, NewsMore
    <3> QED BY <2>2, <2>4, <3>1 DEF GrownNews
  <2>6. \A x \in News(w) : r # x
    BY <2>2
  <2>7. SameNews(e, f, w)
    BY <2>4, <2>5, <2>6 DEF SameNews
  <2> QED BY <2>3, <2>7
<1>3. ASSUME e # <<>>, Head(e)[2] # w \/ Head(e) = <<"dock", w>> PROVE SameNews(e, Tail(e), w)
  <2>1. PICK r, f : f = Tail(e) /\ r = Head(e)
    OBVIOUS
  <2>2. r # <<"info", w>> /\ r # <<"map", w>> /\ r # <<"moved", w>> /\ r # <<"destroyed", w>>
    <3>1. CASE r[2] # w
      BY <3>1
    <3>2. CASE r = <<"dock", w>>
      BY <3>2, TrayNews
    <3> QED BY <1>3, <2>1, <3>1, <3>2
  <2>3. r \notin News(w)
    BY <2>2 DEF News
  <2>4. /\ \A x : Has(e, x) <=> Has(f, x) \/ r = x
        /\ HasAny(e, News(w)) <=> HasAny(f, News(w))
        /\ \A x : Once(e, x) => Once(f, x)
        /\ \A x, y : Follows(e, x, y) => Follows(f, x, y)
        /\ \A x \in News(w) : LastIs(e, x, News(w)) <=> LastIs(f, x, News(w)) \/ (r = x /\ ~HasAny(f, News(w)))
    <3>1. ShrunkNews(e, r, f, w)
      BY <1>3, <2>1, NewsLess
    <3> QED BY <2>3, <3>1 DEF ShrunkNews
  <2>5. \A x \in News(w) : r # x
    BY <2>3
  <2>6. SameNews(e, f, w)
    BY <2>2, <2>4, <2>5 DEF SameNews
  <2> QED BY <2>1, <2>6
<1> QED BY <1>1, <1>2, <1>3

\* The requests after one more, and without the first.
GrownAsked(q, r, p, w) ==
    /\ \A x : Has(p, x) <=> Has(q, x) \/ r = x
    /\ \A x : Once(q, x) /\ (r = x => ~Has(q, x)) => Once(p, x)
    /\ \A x, y : Precedes(q, x, y) /\ (r = x => Has(q, y)) => Precedes(p, x, y)
ShrunkAsked(q, r, p, w) ==
    /\ \A x : Has(q, x) <=> Has(p, x) \/ r = x
    /\ \A x : Once(q, x) => Once(p, x) /\ (r = x => ~Has(p, x))
    /\ \A x, y : Precedes(q, x, y) => r # x /\ (r # y => Precedes(p, x, y))

LEMMA AskedMore ==
    ASSUME NEW q \in Seq(TrayRequest), NEW r \in TrayRequest, NEW w \in Icon
    PROVE  /\ Append(q, r) \in Seq(TrayRequest)
           /\ GrownAsked(q, r, Append(q, r), w)
           /\ (r[2] = w => r[1] \notin {"read", "select", "embed"}) => SameAsked(q, Append(q, r), w)
<1> PICK p : p = Append(q, r)
  OBVIOUS
<1>0. p \in Seq(TrayRequest)
  BY Joined
<1>1. \A x : Has(p, x) <=> Has(q, x) \/ r = x
  BY HasMore
<1>2. ASSUME NEW x, Once(q, x), r = x => ~Has(q, x) PROVE Once(p, x)
  BY <1>2, OnceMore
<1>3. ASSUME NEW x, NEW y, Precedes(q, x, y), r = x => Has(q, y) PROVE Precedes(p, x, y)
  BY <1>3, PrecedesMore
<1>4. ASSUME r[2] = w => r[1] \notin {"read", "select", "embed"} PROVE SameAsked(q, p, w)
  <2>1. r # <<"read", w>> /\ r # <<"select", w>> /\ r # <<"embed", w>>
    BY <1>4
  <2> QED BY <1>1, <1>2, <1>3, <2>1 DEF SameAsked
<1>5. GrownAsked(q, r, p, w)
  BY <1>1, <1>2, <1>3 DEF GrownAsked
<1> QED BY <1>0, <1>4, <1>5

LEMMA AskedLess ==
    ASSUME NEW q \in Seq(TrayRequest), q # <<>>, NEW w \in Icon
    PROVE  /\ ShrunkAsked(q, Head(q), Tail(q), w)
           /\ (Head(q)[2] = w => Head(q)[1] \notin {"read", "select", "embed"}) => SameAsked(q, Tail(q), w)
<1> PICK p, r : p = Tail(q) /\ r = Head(q)
  OBVIOUS
<1>1. \A x : Has(q, x) <=> Has(p, x) \/ r = x
  BY HasLess
<1>2. \A x : Once(q, x) => Once(p, x) /\ (r = x => ~Has(p, x))
  BY OnceLess
<1>3. \A x, y : Precedes(q, x, y) => r # x /\ (r # y => Precedes(p, x, y))
  BY PrecedesLess
<1>4. ASSUME r[2] = w => r[1] \notin {"read", "select", "embed"} PROVE SameAsked(q, p, w)
  <2>1. r # <<"read", w>> /\ r # <<"select", w>> /\ r # <<"embed", w>>
    BY <1>4
  <2> QED BY <1>1, <1>2, <1>3, <2>1 DEF SameAsked
<1>5. ShrunkAsked(q, r, p, w)
  BY <1>1, <1>2, <1>3 DEF ShrunkAsked
<1> QED BY <1>4, <1>5

LEMMA SameAskedTwice ==
    ASSUME NEW q, NEW p, NEW t, NEW w, SameAsked(q, p, w), SameAsked(p, t, w)
    PROVE  SameAsked(q, t, w)
  BY DEF SameAsked

\* An icon that nothing happens to.
LEMMA IconStays ==
    ASSUME NEW w \in Icon, IconInv(w),
           SameNews(trayEvents, trayEvents', w), SameAsked(trayRequests, trayRequests', w),
           trayPlace'[w] = trayPlace[w], xembedInfo'[w] = xembedInfo[w],
           w \in iconSelected' <=> w \in iconSelected, w \in asksMap' <=> w \in asksMap, w \in missed' <=> w \in missed,
           w \in Embedded' <=> w \in Embedded, IsFlagged(w)' <=> IsFlagged(w),
           handling' = <<"dock", w>> <=> handling = <<"dock", w>>, handling' = <<"info", w>> <=> handling = <<"info", w>>,
           handling \in {<<"dock", w>>, <<"info", w>>} => trayReply' = trayReply
    PROVE  IconInv(w)'
<1>1. /\ Exists(w)' <=> Exists(w)
      /\ Taken(w)' <=> Taken(w)
  BY DEF Exists, Taken
<1>2. PlaceOf(w)'
  BY <1>1 DEF IconInv, PlaceOf, SameNews, SameAsked
<1>3. GoneOf(w)'
  BY <1>1 DEF IconInv, GoneOf, SameNews
<1>4. ReadOf(w)'
  BY DEF IconInv, ReadOf, SameNews, SameAsked
<1>5. SelectedOf(w)'
  BY <1>1 DEF IconInv, SelectedOf, SameNews, SameAsked
<1>6. AsksOf(w)'
  BY <1>1 DEF IconInv, AsksOf, SameNews
<1>7. WantedOf(w)'
  <2>1. Wanted(w)' <=> Wanted(w)
    BY DEF Wanted
  <2>2. /\ IsFlagged(w) \in BOOLEAN /\ IsFlagged(w)' \in BOOLEAN /\ Wanted(w) \in BOOLEAN /\ Wanted(w)' \in BOOLEAN
    BY DEF IsFlagged, Wanted
  <2>3. /\ LastIs(trayEvents', <<"map", w>>, News(w)) <=> LastIs(trayEvents, <<"map", w>>, News(w))
        /\ LastIs(trayEvents', <<"info", w>>, News(w)) <=> LastIs(trayEvents, <<"info", w>>, News(w))
        /\ HasAny(trayEvents', News(w)) <=> HasAny(trayEvents, News(w))
        /\ Has(trayEvents', <<"moved", w>>) <=> Has(trayEvents, <<"moved", w>>)
    BY TrayNews DEF SameNews
  <2>4. News(w)' = News(w)
    BY DEF News
  <2> QED BY <1>1, <2>1, <2>2, <2>3, <2>4 DEF IconInv, WantedOf
<1> QED BY <1>2, <1>3, <1>4, <1>5, <1>6, <1>7 DEF IconInv
-----------------------------------------------------------------------------
(* An icon and what applications do.                                       *)

LEMMA OthersStay ==
    ASSUME TypesInv, NEW v \in Icon, NEW w \in Icon, w # v, IconInv(w),
           AppDocks(v) \/ AppSetsInfo(v) \/ AppMaps(v) \/ AppMovesAway(v) \/ AppDestroys(v)
    PROVE  IconInv(w)'
<1>1. trayEvents \in Seq(TrayEvent) /\ trayPlace \in [Icon -> {"root", "tray", "elsewhere", "gone"}]
      /\ xembedInfo \in [Icon -> {"none", "hidden", "shown"}]
  BY DEF TypesInv, TrayTypeOK, TrayEvent
<1>2. SameNews(trayEvents, trayEvents', w)
  <2>1. \A kind \in {"dock", "info", "map", "moved", "destroyed"} :
            <<kind, v>> \in TrayEvent /\ <<kind, v>>[2] # w
    BY DEF TrayEvent
  <2>2. trayEvents' = trayEvents \/ \E kind \in {"dock", "info", "map", "moved", "destroyed"} :
                                          trayEvents' = Append(trayEvents, <<kind, v>>)
    BY DEF AppDocks, AppSetsInfo, AppMaps, AppMovesAway, AppDestroys, Tell
  <2>3. SameNews(trayEvents, trayEvents, w)
    BY <1>1, NewsOfOthers
  <2>4. \A r \in TrayEvent : r[2] # w => SameNews(trayEvents, Append(trayEvents, r), w)
    BY <1>1, NewsOfOthers
  <2> QED BY <2>1, <2>2, <2>3, <2>4
<1>3. UNCHANGED <<embedded, handling, trayReply, trayRequests, iconSelected>>
  BY DEF AppDocks, AppSetsInfo, AppMaps, AppMovesAway, AppDestroys, trayLuaVars, iconVars
<1>4. /\ trayPlace'[w] = trayPlace[w] /\ xembedInfo'[w] = xembedInfo[w]
      /\ w \in asksMap' <=> w \in asksMap
      /\ w \in missed' <=> w \in missed
  BY <1>1 DEF AppDocks, AppSetsInfo, AppMaps, AppMovesAway, AppDestroys, iconVars
<1>5. SameAsked(trayRequests, trayRequests', w)
  BY <1>3 DEF SameAsked
<1>6. (w \in Embedded' <=> w \in Embedded) /\ (IsFlagged(w)' <=> IsFlagged(w))
  BY <1>3 DEF Embedded, IsFlagged
<1> QED BY <1>2, <1>3, <1>4, <1>5, <1>6, IconStays

LEMMA IconDocks == ASSUME TypesInv, NEW w \in Icon, IconInv(w), AppDocks(w) PROVE IconInv(w)'
<1>1. trayEvents \in Seq(TrayEvent) /\ trayEvents' = Append(trayEvents, <<"dock", w>>) /\ Exists(w)
  BY DEF TypesInv, TrayTypeOK, TrayEvent, AppDocks, Tell, Exists
<1>2. GrownNews(trayEvents, <<"dock", w>>, trayEvents', w)
  BY <1>1, NewsMore, TrayNews
<1>3. UNCHANGED <<embedded, handling, trayReply, trayRequests, iconSelected, trayPlace, xembedInfo, asksMap, missed>>
  BY DEF AppDocks, trayLuaVars, iconVars
<1>4. /\ Exists(w)' <=> Exists(w)
      /\ Taken(w)' <=> Taken(w)
      /\ IsFlagged(w)' = IsFlagged(w) /\ Wanted(w)' = Wanted(w) /\ Embedded' = Embedded /\ News(w)' = News(w)
  BY <1>3 DEF Exists, Taken, IsFlagged, Wanted, Embedded, News
<1>5. PlaceOf(w)'
  BY <1>1, <1>2, <1>3, <1>4, TrayNews DEF IconInv, PlaceOf, GrownNews
<1>6. GoneOf(w)'
  BY <1>1, <1>2, <1>3, <1>4, TrayNews DEF IconInv, GoneOf, GrownNews
<1>7. ReadOf(w)'
  BY <1>2, <1>3, <1>4, TrayNews DEF IconInv, ReadOf, GrownNews
<1>8. SelectedOf(w)'
  BY <1>2, <1>3, <1>4, TrayNews DEF IconInv, SelectedOf, GrownNews
<1>9. AsksOf(w)'
  BY <1>2, <1>3, <1>4, TrayNews DEF IconInv, AsksOf, GrownNews, Follows
<1>10. WantedOf(w)'
  BY <1>2, <1>3, <1>4, TrayNews DEF IconInv, WantedOf, GrownNews
<1> QED BY <1>5, <1>6, <1>7, <1>8, <1>9, <1>10 DEF IconInv

LEMMA IconMaps == ASSUME TypesInv, NEW w \in Icon, IconInv(w), AppMaps(w) PROVE IconInv(w)'
<1>1. trayEvents \in Seq(TrayEvent) /\ trayEvents' = Append(trayEvents, <<"map", w>>) /\ Exists(w)
      /\ trayPlace[w] = "tray" /\ asksMap' = asksMap \cup {w}
  BY DEF TypesInv, TrayTypeOK, TrayEvent, AppMaps, Tell, Exists
<1>2. GrownNews(trayEvents, <<"map", w>>, trayEvents', w)
  BY <1>1, NewsMore, TrayNews
<1>3. UNCHANGED <<embedded, handling, trayReply, trayRequests, iconSelected, trayPlace, xembedInfo, missed>>
  BY DEF AppMaps, trayLuaVars
<1>4. /\ Exists(w)' <=> Exists(w)
      /\ Taken(w)' <=> Taken(w)
      /\ IsFlagged(w)' = IsFlagged(w) /\ Embedded' = Embedded /\ News(w)' = News(w)
  BY <1>3 DEF Exists, Taken, IsFlagged, Embedded, News
<1>5. PlaceOf(w)'
  BY <1>1, <1>2, <1>3, <1>4, TrayNews DEF IconInv, PlaceOf, GrownNews
<1>6. GoneOf(w)'
  BY <1>1, <1>2, <1>3, <1>4, TrayNews DEF IconInv, GoneOf, GrownNews
<1>7. ReadOf(w)'
  BY <1>2, <1>3, <1>4, TrayNews DEF IconInv, ReadOf, GrownNews
<1>8. SelectedOf(w)'
  BY <1>2, <1>3, <1>4, TrayNews DEF IconInv, SelectedOf, GrownNews
<1>9. AsksOf(w)'
  BY <1>1, <1>3 DEF AsksOf
<1>10. WantedOf(w)'
  BY <1>1, <1>2, <1>3, <1>4, TrayNews DEF IconInv, WantedOf, GrownNews
<1> QED BY <1>5, <1>6, <1>7, <1>8, <1>9, <1>10 DEF IconInv

LEMMA IconMovesAway == ASSUME TypesInv, NEW w \in Icon, IconInv(w), AppMovesAway(w) PROVE IconInv(w)'
<1>1. trayEvents \in Seq(TrayEvent) /\ trayEvents' = Append(trayEvents, <<"moved", w>>)
      /\ trayPlace[w] = "tray" /\ trayPlace'[w] = "elsewhere" /\ w \notin asksMap'
  BY DEF TypesInv, TrayTypeOK, TrayEvent, AppMovesAway, Tell
<1>2. GrownNews(trayEvents, <<"moved", w>>, trayEvents', w)
  BY <1>1, NewsMore, TrayNews
<1>3. UNCHANGED <<embedded, handling, trayReply, trayRequests, iconSelected, xembedInfo, missed>>
  BY DEF AppMovesAway, trayLuaVars
<1>4. /\ Exists(w)' /\ Exists(w)
      /\ Taken(w)' <=> Taken(w)
      /\ Embedded' = Embedded
  BY <1>1, <1>3 DEF Exists, Taken, Embedded
<1>5. PlaceOf(w)'
  BY <1>1, <1>2, <1>3, <1>4, TrayNews DEF IconInv, PlaceOf, GrownNews
<1>6. GoneOf(w)'
  BY <1>1, <1>2, <1>3, <1>4, TrayNews DEF IconInv, GoneOf, GrownNews
<1>7. ReadOf(w)'
  BY <1>2, <1>3, <1>4, TrayNews DEF IconInv, ReadOf, GrownNews
<1>8. SelectedOf(w)'
  BY <1>1, <1>2, <1>3, <1>4, TrayNews DEF IconInv, SelectedOf, GrownNews
<1>9. AsksOf(w)'
  BY <1>1, <1>2, <1>3 DEF AsksOf, GrownNews
<1>10. WantedOf(w)'
  BY <1>1, <1>2, <1>3, <1>4, TrayNews DEF WantedOf, GrownNews
<1> QED BY <1>5, <1>6, <1>7, <1>8, <1>9, <1>10 DEF IconInv

LEMMA IconDestroyed == ASSUME TypesInv, NEW w \in Icon, IconInv(w), AppDestroys(w) PROVE IconInv(w)'
<1>1. trayEvents \in Seq(TrayEvent) /\ trayEvents' = Append(trayEvents, <<"destroyed", w>>)
      /\ trayPlace[w] # "gone" /\ trayPlace'[w] = "gone"
  BY DEF TypesInv, TrayTypeOK, TrayEvent, AppDestroys, Tell
<1>2. GrownNews(trayEvents, <<"destroyed", w>>, trayEvents', w)
  BY <1>1, NewsMore, TrayNews
<1>3. UNCHANGED <<embedded, handling, trayReply, trayRequests, iconSelected, xembedInfo, missed, asksMap>>
  BY DEF AppDestroys, trayLuaVars
<1>4. /\ ~Exists(w)' /\ Exists(w)
      /\ Taken(w)' <=> Taken(w)
      /\ Embedded' = Embedded
  BY <1>1, <1>3 DEF Exists, Taken, Embedded
<1>5. PlaceOf(w)' /\ AsksOf(w)' /\ WantedOf(w)'
  BY <1>4 DEF PlaceOf, AsksOf, WantedOf
<1>6. GoneOf(w)'
  BY <1>1, <1>2, <1>3, <1>4, TrayNews DEF IconInv, GoneOf, GrownNews
<1>7. ReadOf(w)'
  BY <1>2, <1>3, <1>4, TrayNews DEF IconInv, ReadOf, GrownNews
<1>8. SelectedOf(w)'
  BY <1>1, <1>2, <1>3, <1>4, TrayNews DEF IconInv, SelectedOf, GrownNews
<1> QED BY <1>5, <1>6, <1>7, <1>8 DEF IconInv

\* Before awesome hears of its changes, the property is not read or there is news of it.
LEMMA IconSetsInfo == ASSUME TypesInv, NEW w \in Icon, IconInv(w), AppSetsInfo(w) PROVE IconInv(w)'
<1>1. trayEvents \in Seq(TrayEvent) /\ trayRequests \in Seq(TrayRequest)
      /\ Exists(w) /\ xembedInfo'[w] \in {"hidden", "shown"} /\ w \notin asksMap'
  BY DEF TypesInv, TrayTypeOK, TrayEvent, AppSetsInfo, Exists
<1>2. UNCHANGED <<embedded, handling, trayReply, trayRequests, iconSelected, trayPlace>>
  BY DEF AppSetsInfo, trayLuaVars
<1>3. /\ Exists(w)'
      /\ Taken(w)' <=> Taken(w)
      /\ Embedded' = Embedded /\ News(w)' = News(w)
  BY <1>1, <1>2 DEF Exists, Taken, Embedded, News
<1>4. CASE w \in iconSelected
  <2>1. trayEvents' = Append(trayEvents, <<"info", w>>)
    BY <1>4 DEF AppSetsInfo, Tell
  <2>2. GrownNews(trayEvents, <<"info", w>>, trayEvents', w)
    BY <1>1, <2>1, NewsMore, TrayNews
  <2>3. PlaceOf(w)'
    BY <1>1, <1>2, <1>3, <2>2, TrayNews DEF IconInv, PlaceOf, GrownNews
  <2>4. GoneOf(w)'
    BY <1>1, <1>2, <1>3, <2>2, TrayNews DEF IconInv, GoneOf, GrownNews
  <2>5. ReadOf(w)'
    BY <1>1, <1>2, <1>3, <2>2, TrayNews DEF IconInv, ReadOf, GrownNews
  <2>6. SelectedOf(w)'
    BY <1>2, <1>4 DEF SelectedOf
  <2>7. AsksOf(w)'
    BY <1>1, <1>2, <1>3, <2>2, TrayNews DEF IconInv, AsksOf, GrownNews
  <2>8. WantedOf(w)'
    BY <1>1, <1>2, <1>3, <2>2, TrayNews DEF WantedOf, GrownNews
  <2> QED BY <2>3, <2>4, <2>5, <2>6, <2>7, <2>8 DEF IconInv
<1>5. CASE w \notin iconSelected
  <2>1. trayEvents' = trayEvents
    BY <1>5 DEF AppSetsInfo
  <2>2. PlaceOf(w)'
    BY <1>1, <1>2, <1>3, <2>1 DEF IconInv, PlaceOf
  <2>3. GoneOf(w)'
    BY <1>1, <1>2, <1>3, <2>1 DEF IconInv, GoneOf
  <2>4. ReadOf(w)'
    BY <1>1, <1>2, <1>3, <2>1 DEF IconInv, ReadOf
  <2>5. SelectedOf(w)'
    BY <1>1, <1>2, <1>3, <2>1 DEF IconInv, SelectedOf
  <2>6. AsksOf(w)'
    BY <1>1, <1>2, <1>3, <2>1 DEF IconInv, AsksOf
  <2>7. ASSUME w \notin missed', Taken(w), ~Has(trayEvents, <<"moved", w>>)
        PROVE  /\ ~LastIs(trayEvents, <<"map", w>>, News(w))
               /\ handling \in {<<"dock", w>>, <<"info", w>>} /\ trayReply = "waiting"
    <3>1. Has(trayRequests, <<"select", w>>) /\ trayPlace[w] # "tray"
      BY <1>1, <1>5, <2>7 DEF IconInv, SelectedOf
    <3>2. ~BetweenReadAndSelect(w)
      BY <1>5, <2>7 DEF AppSetsInfo
    <3>3. \A x : x \in Range(trayRequests) <=> Has(trayRequests, x)
      <4>1. DOMAIN trayRequests = 1..Len(trayRequests)
        BY <1>1
      <4> QED BY <4>1 DEF Range, Has
    <3>4. Has(trayRequests, <<"read", w>>)
      BY <3>1, <3>2, <3>3 DEF BetweenReadAndSelect
    <3>5. handling \in {<<"dock", w>>, <<"info", w>>} /\ trayReply = "waiting"
      BY <3>4 DEF IconInv, ReadOf
    <3>6. ~LastIs(trayEvents, <<"map", w>>, News(w))
      <4>1. Follows(trayEvents, <<"map", w>>, <<"moved", w>>)
        BY <1>1, <3>1 DEF IconInv, AsksOf
      <4> QED BY <1>1, <2>7, <4>1, LastHas
    <3> QED BY <3>5, <3>6
  <2>8. WantedOf(w)'
    BY <1>1, <1>2, <1>3, <2>1, <2>7 DEF WantedOf
  <2> QED BY <2>2, <2>3, <2>4, <2>5, <2>6, <2>8 DEF IconInv
<1> QED BY <1>4, <1>5

LEMMA AppsKeepIcons ==
    ASSUME TypesInv, \A w \in Icon : IconInv(w), NEW v \in Icon,
           AppDocks(v) \/ AppSetsInfo(v) \/ AppMaps(v) \/ AppMovesAway(v) \/ AppDestroys(v)
    PROVE  \A w \in Icon : IconInv(w)'
<1> TAKE w \in Icon
<1> QED BY OthersStay, IconDocks, IconSetsInfo, IconMaps, IconMovesAway, IconDestroyed
-----------------------------------------------------------------------------
(* An icon and what the server and awesome do.                             *)

LEMMA ServedIcon ==
    ASSUME TypesInv, \A v \in Icon : IconInv(v), ExecuteTrayRequest, NEW w \in Icon
    PROVE  IconInv(w)'
<1>1. /\ trayRequests # <<>> /\ trayRequests' = Tail(trayRequests) /\ trayRequests \in Seq(TrayRequest)
      /\ Head(trayRequests) \in TrayRequest
      /\ UNCHANGED <<embedded, handling, trayEvents, xembedInfo, asksMap, missed>>
  BY ExecutedIs DEF trayLuaVars
<1>2. PICK op, x : /\ Head(trayRequests) = <<op, x>>
                   /\ \/ ServeIcon(op, x) /\ x \in Icon
                      \/ ServeTray(op, x)
                      \/ op = "layout" /\ ServeLayout(op, x)
  BY ExecutedIs
<1>3. ShrunkAsked(trayRequests, <<op, x>>, trayRequests', w)
  BY <1>1, <1>2, AskedLess
<1>4. SameNews(trayEvents, trayEvents', w)
  BY <1>1, NewsOfOthers DEF TypesInv, TrayTypeOK, TrayEvent
<1>5. /\ Embedded' = Embedded /\ IsFlagged(w)' = IsFlagged(w) /\ Taken(w)' = Taken(w) /\ News(w)' = News(w)
      /\ Wanted(w)' = Wanted(w)
  BY <1>1 DEF Embedded, IsFlagged, Taken, News, Wanted
<1>6. trayPlace \in [Icon -> {"root", "tray", "elsewhere", "gone"}]
  BY DEF TypesInv, TrayTypeOK
<1>7. CASE ~(op \in {"read", "select", "embed"} /\ x = w)
  <2>1. SameAsked(trayRequests, trayRequests', w)
    <3>1. Head(trayRequests)[1] = op /\ Head(trayRequests)[2] = x
      BY <1>2
    <3> QED BY <1>1, <1>7, <3>1, AskedLess
  <2>2. trayPlace'[w] = trayPlace[w]
    BY <1>2, <1>6, <1>7 DEF ServeIcon, ServeTray, ServeLayout, iconVars
  <2>3. w \in iconSelected' <=> w \in iconSelected
    BY <1>2, <1>7 DEF ServeIcon, ServeTray, ServeLayout, iconVars
  <2>4. handling \in {<<"dock", w>>, <<"info", w>>} => trayReply' = trayReply
    <3>1. CASE op = "read"
      <4>1. x \in Icon /\ x # w
        BY <1>1, <1>2, <1>7, <3>1, TrayKinds
      <4>2. Has(trayRequests, <<"read", x>>)
        BY <1>3, <1>2, <3>1 DEF ShrunkAsked
      <4>3. handling \in {<<"dock", x>>, <<"info", x>>}
        BY <4>1, <4>2 DEF IconInv, ReadOf
      <4> QED BY <4>1, <4>3
    <3>2. CASE op # "read"
      BY <1>2, <3>2 DEF ServeIcon, ServeTray, ServeLayout
    <3> QED BY <3>1, <3>2
  <2> QED BY <1>1, <1>4, <1>5, <2>1, <2>2, <2>3, <2>4, IconStays
<1>8. CASE op = "read" /\ x = w
  <2>1. UNCHANGED <<trayPlace, iconSelected>> /\ (Exists(w) => trayReply' = xembedInfo[w])
    BY <1>2, <1>8 DEF ServeIcon, ServeTray, ServeLayout
  <2>2. Exists(w)' = Exists(w)
    BY <2>1 DEF Exists
  <2>3. handling \in {<<"dock", w>>, <<"info", w>>} /\ ~Has(trayRequests', <<"read", w>>)
    BY <1>3, <1>8 DEF ShrunkAsked, IconInv, ReadOf
  <2>4. PlaceOf(w)'
    BY <1>1, <1>3, <1>5, <1>8, <2>1, <2>2 DEF IconInv, PlaceOf, ShrunkAsked
  <2>5. GoneOf(w)'
    BY <1>1, <1>5, <2>1, <2>2 DEF IconInv, GoneOf
  <2>6. ReadOf(w)'
    BY <1>1, <1>3, <1>5, <1>8, <2>1, <2>3 DEF IconInv, ReadOf, ShrunkAsked
  <2>7. SelectedOf(w)'
    BY <1>1, <1>3, <1>5, <1>8, <2>1, <2>2 DEF IconInv, SelectedOf, ShrunkAsked
  <2>8. AsksOf(w)'
    BY <1>1, <2>1, <2>2 DEF IconInv, AsksOf
  <2>9. WantedOf(w)'
    BY <1>1, <1>5, <2>1, <2>2, <2>3 DEF IconInv, WantedOf
  <2> QED BY <2>4, <2>5, <2>6, <2>7, <2>8, <2>9 DEF IconInv
<1>9. CASE op = "select" /\ x = w
  <2>1. UNCHANGED <<trayPlace, trayReply>> /\ w \in iconSelected'
    BY <1>2, <1>9 DEF ServeIcon, ServeTray, ServeLayout
  <2>2. Exists(w)' = Exists(w)
    BY <2>1 DEF Exists
  <2>4. PlaceOf(w)'
    BY <1>1, <1>3, <1>5, <1>9, <2>1, <2>2 DEF IconInv, PlaceOf, ShrunkAsked
  <2>5. GoneOf(w)'
    BY <1>1, <1>5, <2>1, <2>2 DEF IconInv, GoneOf
  <2>6. ReadOf(w)'
    BY <1>1, <1>3, <1>5, <1>9, <2>1 DEF IconInv, ReadOf, ShrunkAsked
  <2>7. SelectedOf(w)'
    BY <2>1 DEF SelectedOf
  <2>8. AsksOf(w)'
    BY <1>1, <2>1, <2>2 DEF IconInv, AsksOf
  <2>9. WantedOf(w)'
    BY <1>1, <1>5, <2>1, <2>2 DEF IconInv, WantedOf
  <2> QED BY <2>4, <2>5, <2>6, <2>7, <2>8, <2>9 DEF IconInv
<1>10. CASE op = "embed" /\ x = w
  <2>1. UNCHANGED <<trayReply, iconSelected>>
        /\ IF Exists(w) THEN trayPlace'[w] = "tray" ELSE trayPlace' = trayPlace
    BY <1>2, <1>6, <1>10 DEF ServeIcon, ServeTray, ServeLayout
  <2>2. Exists(w)' = Exists(w)
    BY <2>1 DEF Exists
  <2>3. w \in iconSelected
    BY <1>3, <1>10 DEF IconInv, SelectedOf, ShrunkAsked
  <2>4. PlaceOf(w)'
    BY <1>1, <1>3, <1>5, <1>10, <2>1, <2>2 DEF IconInv, PlaceOf, ShrunkAsked
  <2>5. GoneOf(w)'
    BY <1>1, <1>5, <2>2 DEF IconInv, GoneOf
  <2>6. ReadOf(w)'
    BY <1>1, <1>3, <1>5, <1>10, <2>1 DEF IconInv, ReadOf, ShrunkAsked
  <2>7. SelectedOf(w)'
    BY <2>1, <2>3 DEF SelectedOf
  <2>8. AsksOf(w)'
    BY <2>1, <2>2 DEF AsksOf
  <2>9. WantedOf(w)'
    BY <1>1, <1>5, <2>1, <2>2 DEF IconInv, WantedOf
  <2> QED BY <2>4, <2>5, <2>6, <2>7, <2>8, <2>9 DEF IconInv
<1> QED BY <1>7, <1>8, <1>9, <1>10

\* Requests that do not concern the handling of an icon.
LEMMA OtherRequest ==
    ASSUME NEW q \in Seq(TrayRequest), NEW r \in TrayRequest, r[1] \notin {"read", "select", "embed"}, NEW w \in Icon
    PROVE  SameAsked(q, Append(q, r), w) /\ Append(q, r) \in Seq(TrayRequest)
  BY AskedMore

LEMMA InvalidatedAsks ==
    ASSUME NEW q \in Seq(TrayRequest), NEW list, Invalidated(list, q), NEW w \in Icon
    PROVE  SameAsked(q, trayRequests', w)
<1>1. PICK r \in TrayRequest : r = <<"unmapTray", NoDrawin>> /\ r[1] \notin {"read", "select", "embed"}
  BY RequestsAre
<1>2. SameAsked(q, q, w)
  BY DEF SameAsked
<1> QED BY <1>1, <1>2, OtherRequest DEF Invalidated

LEMMA ShowAsks ==
    ASSUME TypesInv, NEW list, NEW op \in {"map", "unmap"}, NEW v \in Icon,
           Invalidated(list, Append(trayRequests, <<op, v>>)), NEW w \in Icon
    PROVE  SameAsked(trayRequests, trayRequests', w)
<1>1. PICK r \in TrayRequest : r = <<op, v>> /\ r[1] \notin {"read", "select", "embed"}
  BY RequestsAre
<1>2. SameAsked(trayRequests, Append(trayRequests, r), w) /\ Append(trayRequests, r) \in Seq(TrayRequest)
  BY <1>1, OtherRequest DEF TypesInv
<1>3. SameAsked(Append(trayRequests, r), trayRequests', w)
  BY <1>1, <1>2, InvalidatedAsks
<1> QED BY <1>2, <1>3, SameAskedTwice

\* Lua code.
LEMMA LuaKeepsIcons ==
    ASSUME TypesInv, NEW w \in Icon, IconInv(w), NEW d \in TrayDrawin,
           (\E rows \in TrayRows, isReversed \in BOOLEAN : RedrawTray(d, rows, isReversed)) \/ Kickout(d) \/ Wipe(d)
    PROVE  IconInv(w)'
<1>1. UNCHANGED <<iconVars, trayReply, trayEvents, embedded, handling>>
  BY DEF RedrawTray, Kickout, Wipe
<1>2. trayRequests \in Seq(TrayRequest) /\ SameAsked(trayRequests, trayRequests, w)
  BY DEF TypesInv, SameAsked
<1>3. ASSUME NEW x \in TrayDrawin \cup {"root"}, NEW q, q = Append(trayRequests, <<"put", x>>)
      PROVE  q \in Seq(TrayRequest) /\ SameAsked(trayRequests, q, w)
  <2>1. PICK r \in TrayRequest : r = <<"put", x>> /\ r[1] \notin {"read", "select", "embed"}
    BY RequestsAre
  <2> QED BY <1>2, <1>3, <2>1, OtherRequest
<1>4. SameAsked(trayRequests, trayRequests', w)
  <2>1. ASSUME NEW rows \in TrayRows, NEW isReversed \in BOOLEAN, RedrawTray(d, rows, isReversed)
        PROVE  SameAsked(trayRequests, trayRequests', w)
    <3>1. PICK q \in Seq(TrayRequest), l \in {embedded, Reverse(embedded)}, r \in TrayRequest :
                  /\ q = IF trayParent # d THEN Append(trayRequests, <<"put", d>>) ELSE trayRequests
                  /\ r = <<"layout", LayOut(l, rows)>> /\ l \in Seq(Cell)
                  /\ trayRequests' = IF Visible(embedded) = {} THEN q ELSE Append(q, r)
      BY <2>1, RedrawIs
    <3>2. SameAsked(trayRequests, q, w)
      BY <1>2, <1>3, <3>1
    <3>3. r[1] = "layout"
      BY <3>1
    <3>4. SameAsked(q, Append(q, r), w)
      BY <3>3, OtherRequest
    <3>5. SameAsked(trayRequests, Append(q, r), w)
      BY <3>2, <3>4, SameAskedTwice
    <3> QED BY <3>1, <3>2, <3>5
  <2>2. ASSUME Kickout(d) \/ Wipe(d) PROVE SameAsked(trayRequests, trayRequests', w)
    <3>1. PICK q \in Seq(TrayRequest) :
                  /\ q = IF trayParent = d THEN Append(trayRequests, <<"put", "root">>) ELSE trayRequests
                  /\ Kickout(d) => trayRequests' = q
                  /\ Wipe(d) => trayRequests' = Append(q, <<"destroy", d>>)
      BY KickoutIs
    <3>2. SameAsked(trayRequests, q, w)
      BY <1>2, <1>3, <3>1
    <3>3. PICK r \in TrayRequest : r = <<"destroy", d>> /\ r[1] \notin {"read", "select", "embed"}
      BY RequestsAre
    <3>4. SameAsked(q, Append(q, r), w)
      BY <3>3, OtherRequest
    <3>5. SameAsked(trayRequests, Append(q, r), w)
      BY <3>2, <3>4, SameAskedTwice
    <3> QED BY <2>2, <3>1, <3>2, <3>3, <3>5
  <2> QED BY <2>1, <2>2
<1>5. SameNews(trayEvents, trayEvents', w)
  BY <1>1, NewsOfOthers DEF TypesInv, TrayTypeOK, TrayEvent
<1>6. (w \in Embedded' <=> w \in Embedded) /\ (IsFlagged(w)' <=> IsFlagged(w))
  BY <1>1 DEF Embedded, IsFlagged
<1> QED BY <1>1, <1>4, <1>5, <1>6, IconStays DEF iconVars
\* The handlers that end, and the news that are heard.
LEMMA HandlingIs ==
    ASSUME TypesInv
    PROVE  /\ handling = Idle \/ \E v \in Icon : handling \in {<<"dock", v>>, <<"info", v>>}
           /\ handling[1] = "dock" => handling[2] \in Icon /\ handling = <<"dock", handling[2]>>
           /\ handling[1] = "info" => handling[2] \in Icon /\ handling = <<"info", handling[2]>>
           /\ \A v : Idle # <<"dock", v>> /\ Idle # <<"info", v>>
<1>1. handling = Idle \/ handling \in {"dock", "info"} \X Icon
  BY DEF TypesInv, TrayTypeOK, Idle
<1>2. handling \in {"dock", "info"} \X Icon =>
          handling = <<handling[1], handling[2]>> /\ handling[1] \in {"dock", "info"} /\ handling[2] \in Icon
  BY PairIs
<1>3. Idle[1] = "nothing" /\ \A v : Idle # <<"dock", v>> /\ Idle # <<"info", v>>
  BY DEF Idle
<1> QED BY <1>1, <1>2, <1>3

LEMMA ListedStep == ASSUME TypesInv, TypesInv', Listed, \A w \in Icon : IconInv(w), [TrayNext]_trayVars PROVE Listed'
<1>1. ASSUME UNCHANGED <<embedded, handling>> PROVE Listed'
  BY <1>1 DEF Listed, Embedded
<1>2. CASE UNCHANGED trayVars
  BY <1>1, <1>2 DEF trayVars, trayLuaVars
<1>3. ASSUME NEW w \in Icon, AppDocks(w) \/ AppSetsInfo(w) \/ AppMaps(w) \/ AppMovesAway(w) \/ AppDestroys(w)
      PROVE  Listed'
  BY <1>1, <1>3 DEF AppDocks, AppSetsInfo, AppMaps, AppMovesAway, AppDestroys, trayLuaVars
<1>4. CASE ExecuteTrayRequest
  BY <1>1, <1>4 DEF ExecuteTrayRequest, trayLuaVars
<1>5. ASSUME NEW d \in TrayDrawin,
             (\E rows \in TrayRows, isReversed \in BOOLEAN : RedrawTray(d, rows, isReversed)) \/ Kickout(d) \/ Wipe(d)
      PROVE  Listed'
  BY <1>1, <1>5 DEF RedrawTray, Kickout, Wipe
<1>6. ASSUME handling' = Idle, \A i, j \in 1..Len(embedded') : embedded'[i].win = embedded'[j].win => i = j PROVE Listed'
  BY <1>6, HandlingIs DEF Listed
<1>7. CASE HandleTrayEvent
  <2>1. PICK w \in Icon :
              /\ handling = Idle
              /\ \/ /\ w \notin Embedded /\ handling' = <<"dock", w>> /\ embedded' = embedded
                 \/ /\ handling' = <<"info", w>> /\ embedded' = embedded
                 \/ w \in Embedded /\ embedded' = Flagged(w, TRUE) /\ UNCHANGED handling
                 \/ w \in Embedded /\ embedded' = RemoveAt(embedded, At(w)) /\ UNCHANGED handling
                 \/ UNCHANGED <<embedded, handling>>
    BY <1>7, HandledNews DEF Waits, Invalidated
  <2>2. CASE w \notin Embedded /\ handling' = <<"dock", w>> /\ embedded' = embedded
    BY <2>2 DEF Listed, Embedded
  <2>3. CASE handling' = <<"info", w>> /\ embedded' = embedded
    <3>1. \A v : handling' # <<"dock", v>>
      BY <2>3
    <3> QED BY <2>3, <3>1 DEF Listed
  <2>4. CASE w \in Embedded /\ embedded' = Flagged(w, TRUE) /\ UNCHANGED handling
    BY <1>6, <2>1, <2>4, FlaggedList
  <2>5. CASE w \in Embedded /\ embedded' = RemoveAt(embedded, At(w)) /\ UNCHANGED handling
    BY <1>6, <2>1, <2>5, TakenList
  <2> QED BY <1>1, <2>1, <2>2, <2>3, <2>4, <2>5
<1>8. CASE DockEnd
  <2>1. PICK e \in Cell : e = [win |-> handling[2], mapped |-> trayReply # "hidden"]
    BY <1>8, DockEndIs
  <2>2. embedded' = Append(embedded, e) /\ e.win = handling[2] /\ handling' = Idle
    BY <1>8, <2>1, DockEndIs DEF DockEnd, Invalidated
  <2>3. e.win \notin Embedded
    BY <1>8, <2>2, HandlingIs DEF DockEnd, Listed
  <2> QED BY <1>6, <2>2, <2>3, AppendedList
<1>9. CASE InfoEnd
  <2>1. handling[2] \in Icon /\ handling = <<"info", handling[2]>> /\ InfoRead(handling[2]) /\ handling' = Idle
    BY <1>9, HandlingIs DEF InfoEnd
  <2>2. handling[2] \in Embedded
    BY <2>1 DEF IconInv, ReadOf
  <2>3. PICK shown \in BOOLEAN : shown = (trayReply = "shown")
    OBVIOUS
  <2>4. embedded' = embedded \/ embedded' = Flagged(handling[2], shown)
    BY <2>1, <2>3, InfoReadIs DEF Invalidated
  <2>5. \A i, j \in 1..Len(embedded') : embedded'[i].win = embedded'[j].win => i = j
    <3>1. CASE embedded' = embedded
      BY <3>1 DEF Listed
    <3>2. CASE embedded' = Flagged(handling[2], shown)
      BY <2>2, <3>2, FlaggedList
    <3> QED BY <2>4, <3>1, <3>2
  <2> QED BY <1>6, <2>1, <2>5
<1> QED BY <1>2, <1>3, <1>4, <1>5, <1>7, <1>8, <1>9 DEF TrayNext

LEMMA DockEndsIcon ==
    ASSUME TypesInv, TypesInv', Listed, \A v \in Icon : IconInv(v), DockEnd, NEW w \in Icon
    PROVE  IconInv(w)'
<1>1. handling[2] \in Icon /\ handling = <<"dock", handling[2]>> /\ handling' = Idle /\ trayReply # "waiting"
      /\ UNCHANGED <<iconVars, trayReply, trayEvents>>
  BY HandlingIs DEF DockEnd
<1>2. PICK e \in Cell : e = [win |-> handling[2], mapped |-> trayReply # "hidden"]
  BY DockEndIs
<1>3. embedded' = Append(embedded, e) /\ e.win = handling[2] /\ e.mapped = (trayReply # "hidden")
      /\ Invalidated(Append(embedded, e), trayRequests)
  BY <1>2, DockEndIs DEF Invalidated
<1>4. e.win \notin Embedded
  BY <1>1, <1>3 DEF Listed
<1>5. /\ Embedded' = Embedded \cup {e.win} /\ IsFlagged(e.win)' = e.mapped
      /\ \A v : v # e.win => (IsFlagged(v)' <=> IsFlagged(v))
  BY <1>3, <1>4, AppendedList
<1>6. SameAsked(trayRequests, trayRequests', w)
  BY <1>3, InvalidatedAsks DEF TypesInv
<1>7. SameNews(trayEvents, trayEvents', w)
  BY <1>1, NewsOfOthers DEF TypesInv, TrayTypeOK, TrayEvent
<1>8. \A v : handling' # <<"dock", v>> /\ handling' # <<"info", v>>
  BY <1>1, HandlingIs
<1>9. CASE w # e.win
  <2>1. handling # <<"dock", w>> /\ handling # <<"info", w>>
    BY <1>1, <1>3, <1>9
  <2> QED BY <1>1, <1>5, <1>6, <1>7, <1>8, <1>9, <2>1, IconStays DEF iconVars
<1>10. CASE w = e.win
  <2>1. Taken(w) /\ Taken(w)' /\ Exists(w)' = Exists(w) /\ News(w)' = News(w) /\ Wanted(w)' = Wanted(w)
        /\ UNCHANGED <<trayPlace, xembedInfo, iconSelected, asksMap, missed>> /\ w \in Embedded'
    BY <1>1, <1>3, <1>5, <1>10 DEF Taken, Exists, News, Wanted, iconVars
  <2>2. PlaceOf(w)'
    BY <1>1, <1>6, <2>1 DEF IconInv, PlaceOf, SameAsked
  <2>3. GoneOf(w)'
    BY <1>1, <2>1 DEF IconInv, GoneOf
  <2>4. ReadOf(w)'
    BY <1>1, <1>6, <1>8, <2>1 DEF IconInv, ReadOf, SameAsked
  <2>5. SelectedOf(w)'
    BY <1>1, <1>6, <1>8, <2>1 DEF IconInv, SelectedOf, SameAsked
  <2>6. AsksOf(w)'
    BY <1>1, <2>1 DEF IconInv, AsksOf
  <2>7. WantedOf(w)'
    <3>1. handling \in {<<"dock", w>>, <<"info", w>>}
      BY <1>1, <1>3, <1>10
    <3>2. IsFlagged(w)' = (trayReply # "hidden")
      BY <1>3, <1>5, <1>10
    <3>3. ASSUME Exists(w), ~Has(trayEvents, <<"moved", w>>), w \notin missed, ~HasAny(trayEvents, News(w))
          PROVE  IsFlagged(w)' = Wanted(w)
      <4>1. w \notin asksMap /\ trayReply = xembedInfo[w]
        BY <1>1, <2>1, <3>1, <3>3 DEF IconInv, WantedOf
      <4> QED BY <3>2, <4>1 DEF Wanted
    <3> QED BY <1>1, <1>8, <2>1, <3>3 DEF IconInv, WantedOf
  <2> QED BY <2>2, <2>3, <2>4, <2>5, <2>6, <2>7 DEF IconInv
<1> QED BY <1>9, <1>10

LEMMA InfoEndsIcon ==
    ASSUME TypesInv, TypesInv', Listed, \A v \in Icon : IconInv(v), InfoEnd, NEW w \in Icon
    PROVE  IconInv(w)'
<1>1. handling[2] \in Icon /\ handling = <<"info", handling[2]>> /\ handling' = Idle /\ trayReply # "waiting"
      /\ UNCHANGED <<iconVars, trayReply, trayEvents>> /\ InfoRead(handling[2])
  BY HandlingIs DEF InfoEnd
<1>2. PICK k : k = handling[2] /\ k \in Icon /\ k \in Embedded /\ InfoRead(k)
  BY <1>1 DEF IconInv, ReadOf
<1>3. PICK shown \in BOOLEAN : shown = (trayReply = "shown")
  OBVIOUS
<1>4. /\ Embedded' = Embedded /\ IsFlagged(k)' = shown
      /\ \A v : v # k => (IsFlagged(v)' <=> IsFlagged(v))
      /\ SameAsked(trayRequests, trayRequests', w)
  <2>1. CASE (trayReply = "shown") = IsFlagged(k) /\ UNCHANGED <<embedded, trayStale, trayRequests>>
    BY <1>3, <2>1 DEF Embedded, IsFlagged, SameAsked
  <2>2. ASSUME NEW op \in {"map", "unmap"}, Invalidated(Flagged(k, shown), Append(trayRequests, <<op, k>>))
        PROVE  /\ Embedded' = Embedded /\ IsFlagged(k)' = shown
               /\ \A v : v # k => (IsFlagged(v)' <=> IsFlagged(v))
               /\ SameAsked(trayRequests, trayRequests', w)
    <3>1. embedded' = Flagged(k, shown)
      BY <2>2 DEF Invalidated
    <3>2. SameAsked(trayRequests, trayRequests', w)
      BY <1>2, <2>2, ShowAsks
    <3> QED BY <1>2, <3>1, <3>2, FlaggedList
  <2> QED BY <1>2, <1>3, <2>1, <2>2, InfoReadIs
<1>7. SameNews(trayEvents, trayEvents', w)
  BY <1>1, NewsOfOthers DEF TypesInv, TrayTypeOK, TrayEvent
<1>8. \A v : handling' # <<"dock", v>> /\ handling' # <<"info", v>>
  BY <1>1, HandlingIs
<1>9. CASE w # k
  <2>1. handling # <<"dock", w>> /\ handling # <<"info", w>>
    BY <1>1, <1>2, <1>9
  <2> QED BY <1>1, <1>4, <1>7, <1>8, <1>9, <2>1, IconStays DEF iconVars
<1>10. CASE w = k
  <2>1. Taken(w) /\ Taken(w)' /\ Exists(w)' = Exists(w) /\ News(w)' = News(w) /\ Wanted(w)' = Wanted(w)
        /\ UNCHANGED <<trayPlace, xembedInfo, iconSelected, asksMap, missed>> /\ w \in Embedded'
    BY <1>1, <1>2, <1>4, <1>10 DEF Taken, Exists, News, Wanted, iconVars
  <2>2. PlaceOf(w)'
    BY <1>1, <1>4, <2>1 DEF IconInv, PlaceOf, SameAsked
  <2>3. GoneOf(w)'
    BY <1>1, <2>1 DEF IconInv, GoneOf
  <2>4. ReadOf(w)'
    BY <1>1, <1>4, <1>8, <2>1 DEF IconInv, ReadOf, SameAsked
  <2>5. SelectedOf(w)'
    BY <1>1, <1>4, <1>8, <2>1 DEF IconInv, SelectedOf, SameAsked
  <2>6. AsksOf(w)'
    BY <1>1, <2>1 DEF IconInv, AsksOf
  <2>7. WantedOf(w)'
    <3>1. handling \in {<<"dock", w>>, <<"info", w>>} /\ xembedInfo[w] # "none"
      BY <1>1, <1>2, <1>10 DEF IconInv, ReadOf
    <3>2. IsFlagged(w)' = (trayReply = "shown")
      BY <1>3, <1>4, <1>10
    <3>3. ASSUME Exists(w), ~Has(trayEvents, <<"moved", w>>), w \notin missed, ~HasAny(trayEvents, News(w))
          PROVE  IsFlagged(w)' = Wanted(w)
      <4>1. w \notin asksMap /\ trayReply = xembedInfo[w]
        BY <1>1, <2>1, <3>1, <3>3 DEF IconInv, WantedOf
      <4>2. xembedInfo[w] \in {"none", "hidden", "shown"}
        BY DEF TypesInv, TrayTypeOK
      <4> QED BY <3>1, <3>2, <4>1, <4>2 DEF Wanted
    <3> QED BY <1>1, <1>8, <2>1, <3>3 DEF IconInv, WantedOf
  <2> QED BY <2>2, <2>3, <2>4, <2>5, <2>6, <2>7 DEF IconInv
<1> QED BY <1>9, <1>10
\* News of another icon.
LEMMA HandledOther ==
    ASSUME TypesInv, TypesInv', Listed, \A v \in Icon : IconInv(v), HandleTrayEvent, NEW w \in Icon, Head(trayEvents)[2] # w
    PROVE  IconInv(w)'
<1>1. PICK k \in Icon :
              /\ Head(trayEvents) \in {<<"dock", k>>, <<"info", k>>, <<"map", k>>, <<"moved", k>>, <<"destroyed", k>>}
              /\ trayEvents # <<>> /\ trayEvents' = Tail(trayEvents) /\ trayEvents \in Seq(TrayEvent)
              /\ handling = Idle /\ UNCHANGED iconVars
              /\ \/ /\ k \notin Embedded
                    /\ Waits("dock", k, Append(Append(Append(trayRequests, <<"read", k>>), <<"select", k>>),
                                               <<"embed", k>>))
                 \/ /\ k \in Embedded
                    /\ Waits("info", k, Append(trayRequests, <<"read", k>>))
                 \/ /\ k \in Embedded
                    /\ Invalidated(Flagged(k, TRUE), Append(trayRequests, <<"map", k>>))
                    /\ UNCHANGED <<trayReply, handling>>
                 \/ /\ k \in Embedded
                    /\ Invalidated(RemoveAt(embedded, At(k)), trayRequests)
                    /\ UNCHANGED <<trayReply, handling>>
                 \/ UNCHANGED <<embedded, trayStale, trayRequests, trayReply, handling>>
  BY HandledNews
<1>2. k # w
  BY <1>1
<1>3. SameNews(trayEvents, trayEvents', w)
  BY <1>1, NewsOfOthers
<1>4. trayRequests \in Seq(TrayRequest)
  BY DEF TypesInv
<1>5. \A q \in Seq(TrayRequest), op \in {"read", "select", "embed"} :
          SameAsked(q, Append(q, <<op, k>>), w) /\ Append(q, <<op, k>>) \in Seq(TrayRequest)
  <2> TAKE q \in Seq(TrayRequest), op \in {"read", "select", "embed"}
  <2>1. PICK r \in TrayRequest : r = <<op, k>> /\ r[2] # w
    BY <1>2, RequestsAre
  <2> QED BY <2>1, AskedMore
<1>6. \A v : Idle # <<"dock", v>> /\ Idle # <<"info", v>>
  BY HandlingIs
<1>7. CASE \E kind \in {"dock", "info"} : handling' = <<kind, k>> /\ embedded' = embedded /\ SameAsked(trayRequests, trayRequests', w)
  <2>1. Embedded' = Embedded /\ IsFlagged(w)' = IsFlagged(w)
    BY <1>7 DEF Embedded, IsFlagged
  <2>2. handling' # <<"dock", w>> /\ handling' # <<"info", w>>
    BY <1>2, <1>7
  <2> QED BY <1>1, <1>3, <1>6, <1>7, <2>1, <2>2, IconStays DEF iconVars
<1>8. CASE handling' = handling /\ (w \in Embedded' <=> w \in Embedded) /\ (IsFlagged(w)' <=> IsFlagged(w))
           /\ SameAsked(trayRequests, trayRequests', w)
  BY <1>1, <1>3, <1>6, <1>8, IconStays DEF iconVars
<1>9. CASE Waits("dock", k, Append(Append(Append(trayRequests, <<"read", k>>), <<"select", k>>), <<"embed", k>>))
  <2>1. PICK p \in Seq(TrayRequest) : p = Append(trayRequests, <<"read", k>>) /\ SameAsked(trayRequests, p, w)
    BY <1>4, <1>5
  <2>2. PICK q \in Seq(TrayRequest) : q = Append(p, <<"select", k>>) /\ SameAsked(p, q, w)
    BY <1>5
  <2>3. SameAsked(q, Append(q, <<"embed", k>>), w)
    BY <1>5
  <2>4. SameAsked(trayRequests, trayRequests', w)
    BY <1>9, <2>1, <2>2, <2>3, SameAskedTwice DEF Waits
  <2> QED BY <1>7, <1>9, <2>4 DEF Waits
<1>10. CASE Waits("info", k, Append(trayRequests, <<"read", k>>))
  BY <1>4, <1>5, <1>7, <1>10 DEF Waits
<1>11. CASE k \in Embedded /\ Invalidated(Flagged(k, TRUE), Append(trayRequests, <<"map", k>>)) /\ UNCHANGED <<trayReply, handling>>
  <2>1. SameAsked(trayRequests, trayRequests', w)
    BY <1>11, ShowAsks
  <2>2. embedded' = Flagged(k, TRUE)
    BY <1>11 DEF Invalidated
  <2>3. Embedded' = Embedded /\ (IsFlagged(w)' <=> IsFlagged(w))
    BY <1>2, <1>11, <2>2, FlaggedList
  <2> QED BY <1>8, <1>11, <2>1, <2>3
<1>12. CASE k \in Embedded /\ Invalidated(RemoveAt(embedded, At(k)), trayRequests) /\ UNCHANGED <<trayReply, handling>>
  <2>1. SameAsked(trayRequests, trayRequests', w)
    BY <1>4, <1>12, InvalidatedAsks
  <2>2. embedded' = RemoveAt(embedded, At(k))
    BY <1>12 DEF Invalidated
  <2>3. Embedded' = Embedded \ {k} /\ (IsFlagged(w)' <=> IsFlagged(w))
    BY <1>2, <1>12, <2>2, TakenList
  <2> QED BY <1>2, <1>8, <1>12, <2>1, <2>3
<1>13. CASE UNCHANGED <<embedded, trayStale, trayRequests, trayReply, handling>>
  <2>1. Embedded' = Embedded /\ IsFlagged(w)' = IsFlagged(w) /\ SameAsked(trayRequests, trayRequests', w)
    BY <1>13 DEF Embedded, IsFlagged, SameAsked
  <2> QED BY <1>8, <1>13, <2>1
<1> QED BY <1>1, <1>9, <1>10, <1>11, <1>12, <1>13

\* The start of an embedding.
LEMMA HandledDock ==
    ASSUME TypesInv, Listed, NEW w \in Icon, IconInv(w), HandleTrayEvent,
           Head(trayEvents) = <<"dock", w>>, w \notin Embedded, handling = Idle,
           Waits("dock", w, Append(Append(Append(trayRequests, <<"read", w>>), <<"select", w>>), <<"embed", w>>))
    PROVE  IconInv(w)'
<1>1. trayEvents # <<>> /\ trayEvents' = Tail(trayEvents) /\ trayEvents \in Seq(TrayEvent) /\ UNCHANGED iconVars
  BY HandledNews
<1>2. ShrunkNews(trayEvents, <<"dock", w>>, trayEvents', w)
  BY <1>1, NewsLess
<1>3. <<"read", w>> \in TrayRequest /\ <<"select", w>> \in TrayRequest /\ <<"embed", w>> \in TrayRequest
  BY RequestsAre
<1>4. PICK p \in Seq(TrayRequest) : p = Append(trayRequests, <<"read", w>>) /\ GrownAsked(trayRequests, <<"read", w>>, p, w)
  BY <1>3, AskedMore DEF TypesInv
<1>5. PICK q \in Seq(TrayRequest) : q = Append(p, <<"select", w>>) /\ GrownAsked(p, <<"select", w>>, q, w)
  BY <1>3, AskedMore
<1>6. GrownAsked(q, <<"embed", w>>, trayRequests', w)
  BY <1>3, <1>4, <1>5, AskedMore DEF Waits
<1>7. \A v : handling # <<"dock", v>> /\ handling # <<"info", v>>
  BY HandlingIs
<1>8. ~Has(trayRequests, <<"read", w>>) /\ ~Taken(w)
  BY <1>7 DEF IconInv, ReadOf, Taken
<1>9. <<"read", w>> # <<"select", w>> /\ <<"read", w>> # <<"embed", w>> /\ <<"select", w>> # <<"embed", w>>
  OBVIOUS
<1>10. /\ Has(trayRequests', <<"read", w>>) /\ Has(trayRequests', <<"select", w>>) /\ Has(trayRequests', <<"embed", w>>)
       /\ Once(trayRequests, <<"read", w>>) => Once(trayRequests', <<"read", w>>)
       /\ Once(trayRequests, <<"embed", w>>) /\ ~Has(trayRequests, <<"embed", w>>) => Once(trayRequests', <<"embed", w>>)
       /\ Precedes(trayRequests, <<"embed", w>>, <<"select", w>>) => Precedes(trayRequests', <<"embed", w>>, <<"select", w>>)
  BY <1>4, <1>5, <1>6, <1>8, <1>9 DEF GrownAsked
<1>11. Taken(w)' /\ Exists(w)' = Exists(w) /\ News(w)' = News(w) /\ Wanted(w)' = Wanted(w) /\ handling' = <<"dock", w>>
       /\ trayReply' = "waiting"
       /\ UNCHANGED <<trayPlace, xembedInfo, iconSelected, asksMap, missed, embedded>>
  BY <1>1 DEF Taken, Exists, News, Wanted, iconVars, Waits
<1>12. /\ \A x : Has(trayEvents', x) => Has(trayEvents, x)
       /\ \A x : Once(trayEvents, x) => Once(trayEvents', x)
       /\ Follows(trayEvents, <<"map", w>>, <<"moved", w>>) => Follows(trayEvents', <<"map", w>>, <<"moved", w>>)
       /\ Follows(trayEvents, <<"dock", w>>, <<"destroyed", w>>) =>
             Follows(trayEvents', <<"dock", w>>, <<"destroyed", w>>) /\ Has(trayEvents', <<"destroyed", w>>)
  BY <1>2 DEF ShrunkNews
<1>13. Exists(w) => trayPlace[w] # "tray" /\ ~Has(trayRequests, <<"embed", w>>) /\ ~Has(trayEvents, <<"moved", w>>)
  BY <1>8 DEF IconInv, PlaceOf
<1>14. PlaceOf(w)'
  BY <1>10, <1>11, <1>12, <1>13 DEF IconInv, PlaceOf
<1>15. GoneOf(w)'
  BY <1>11, <1>12 DEF IconInv, GoneOf
<1>16. ReadOf(w)'
  BY <1>10, <1>11, <1>12 DEF IconInv, ReadOf
<1>17. SelectedOf(w)'
  BY <1>10, <1>11, <1>12, <1>13 DEF IconInv, SelectedOf, Exists
<1>18. AsksOf(w)'
  BY <1>11, <1>12 DEF IconInv, AsksOf
<1>19. WantedOf(w)'
  <2>1. Exists(w) => w \notin asksMap /\ Follows(trayEvents', <<"map", w>>, <<"moved", w>>)
    BY <1>12, <1>13 DEF IconInv, AsksOf
  <2>2. trayEvents' \in Seq(TrayEvent)
    BY <1>1, OneLess
  <2>3. Exists(w) /\ ~Has(trayEvents', <<"moved", w>>) => ~LastIs(trayEvents', <<"map", w>>, News(w))
    BY <2>1, <2>2, LastHas
  <2> QED BY <1>11, <2>1, <2>3 DEF WantedOf
<1> QED BY <1>14, <1>15, <1>16, <1>17, <1>18, <1>19 DEF IconInv

\* A change of the property.
LEMMA HandledInfo ==
    ASSUME TypesInv, Listed, NEW w \in Icon, IconInv(w), HandleTrayEvent,
           Head(trayEvents) = <<"info", w>>, w \in Embedded, handling = Idle,
           Waits("info", w, Append(trayRequests, <<"read", w>>))
    PROVE  IconInv(w)'
<1>1. trayEvents # <<>> /\ trayEvents' = Tail(trayEvents) /\ trayEvents \in Seq(TrayEvent) /\ UNCHANGED iconVars
  BY HandledNews
<1>2. ShrunkNews(trayEvents, <<"info", w>>, trayEvents', w)
  BY <1>1, NewsLess
<1>3. GrownAsked(trayRequests, <<"read", w>>, trayRequests', w)
  BY RequestsAre, AskedMore DEF TypesInv, Waits
<1>4. \A v : handling # <<"dock", v>> /\ handling # <<"info", v>>
  BY HandlingIs
<1>5. ~Has(trayRequests, <<"read", w>>) /\ Taken(w)
  BY <1>4 DEF IconInv, ReadOf, Taken
<1>6. <<"read", w>> # <<"select", w>> /\ <<"read", w>> # <<"embed", w>>
  OBVIOUS
<1>7. /\ Has(trayRequests', <<"select", w>>) <=> Has(trayRequests, <<"select", w>>)
      /\ Has(trayRequests', <<"embed", w>>) <=> Has(trayRequests, <<"embed", w>>)
      /\ Once(trayRequests, <<"read", w>>) => Once(trayRequests', <<"read", w>>)
      /\ Once(trayRequests, <<"embed", w>>) => Once(trayRequests', <<"embed", w>>)
  BY <1>3, <1>5, <1>6 DEF GrownAsked
<1>8. Taken(w)' /\ Exists(w)' = Exists(w) /\ News(w)' = News(w) /\ Wanted(w)' = Wanted(w) /\ handling' = <<"info", w>>
       /\ trayReply' = "waiting" /\ w \in Embedded'
       /\ UNCHANGED <<trayPlace, xembedInfo, iconSelected, asksMap, missed, embedded>>
  BY <1>1 DEF Taken, Exists, News, Wanted, iconVars, Waits, Embedded
<1>9. /\ Has(trayEvents, <<"info", w>>)
      /\ Has(trayEvents', <<"info", w>>) => Has(trayEvents, <<"info", w>>)
      /\ Has(trayEvents', <<"moved", w>>) <=> Has(trayEvents, <<"moved", w>>)
      /\ Has(trayEvents', <<"destroyed", w>>) <=> Has(trayEvents, <<"destroyed", w>>)
      /\ \A x : Once(trayEvents, x) => Once(trayEvents', x)
      /\ Follows(trayEvents, <<"map", w>>, <<"moved", w>>) => Follows(trayEvents', <<"map", w>>, <<"moved", w>>)
      /\ Follows(trayEvents, <<"dock", w>>, <<"destroyed", w>>) => Follows(trayEvents', <<"dock", w>>, <<"destroyed", w>>)
      /\ \A x \in News(w) : LastIs(trayEvents', x, News(w)) => LastIs(trayEvents, x, News(w))
      /\ ~HasAny(trayEvents', News(w)) => LastIs(trayEvents, <<"info", w>>, News(w))
  BY <1>2, TrayNews DEF ShrunkNews
<1>10. w \in iconSelected
  BY <1>9 DEF IconInv, SelectedOf
<1>14. PlaceOf(w)'
  BY <1>5, <1>7, <1>8, <1>9 DEF IconInv, PlaceOf
<1>15. GoneOf(w)'
  BY <1>5, <1>8, <1>9 DEF IconInv, GoneOf
<1>16. ReadOf(w)'
  BY <1>7, <1>8, <1>9 DEF IconInv, ReadOf
<1>17. SelectedOf(w)'
  BY <1>8, <1>10 DEF SelectedOf
<1>18. AsksOf(w)'
  BY <1>8, <1>9 DEF IconInv, AsksOf
<1>19. WantedOf(w)'
  BY <1>5, <1>8, <1>9, TrayNews DEF IconInv, WantedOf
<1> QED BY <1>14, <1>15, <1>16, <1>17, <1>18, <1>19 DEF IconInv
\* A MapRequest.
LEMMA HandledMap ==
    ASSUME TypesInv, TypesInv', Listed, NEW w \in Icon, IconInv(w), HandleTrayEvent,
           Head(trayEvents) = <<"map", w>>, w \in Embedded, handling = Idle,
           Invalidated(Flagged(w, TRUE), Append(trayRequests, <<"map", w>>)), UNCHANGED <<trayReply, handling>>
    PROVE  IconInv(w)'
<1>1. trayEvents # <<>> /\ trayEvents' = Tail(trayEvents) /\ trayEvents \in Seq(TrayEvent) /\ UNCHANGED iconVars
  BY HandledNews
<1>2. ShrunkNews(trayEvents, <<"map", w>>, trayEvents', w)
  BY <1>1, NewsLess
<1>3. SameAsked(trayRequests, trayRequests', w)
  BY ShowAsks
<1>4. \A v : handling # <<"dock", v>> /\ handling # <<"info", v>>
  BY HandlingIs
<1>5. embedded' = Flagged(w, TRUE)
  BY DEF Invalidated
<1>6. Embedded' = Embedded /\ IsFlagged(w)' = TRUE
  BY <1>5, FlaggedList
<1>8. Taken(w)' /\ Taken(w) /\ Exists(w)' = Exists(w) /\ News(w)' = News(w) /\ Wanted(w)' = Wanted(w) /\ w \in Embedded'
       /\ UNCHANGED <<trayPlace, xembedInfo, iconSelected, asksMap, missed>>
  BY <1>1, <1>6 DEF Taken, Exists, News, Wanted, iconVars
<1>9. /\ Has(trayEvents', <<"info", w>>) <=> Has(trayEvents, <<"info", w>>)
      /\ Has(trayEvents', <<"moved", w>>) <=> Has(trayEvents, <<"moved", w>>)
      /\ Has(trayEvents', <<"destroyed", w>>) <=> Has(trayEvents, <<"destroyed", w>>)
      /\ \A x : Once(trayEvents, x) => Once(trayEvents', x)
      /\ Follows(trayEvents, <<"map", w>>, <<"moved", w>>) => Follows(trayEvents', <<"map", w>>, <<"moved", w>>)
      /\ Follows(trayEvents, <<"dock", w>>, <<"destroyed", w>>) => Follows(trayEvents', <<"dock", w>>, <<"destroyed", w>>)
      /\ \A x \in News(w) : LastIs(trayEvents', x, News(w)) => LastIs(trayEvents, x, News(w))
      /\ ~HasAny(trayEvents', News(w)) => LastIs(trayEvents, <<"map", w>>, News(w))
  BY <1>2, TrayNews DEF ShrunkNews
<1>14. PlaceOf(w)'
  BY <1>3, <1>8, <1>9 DEF IconInv, PlaceOf, SameAsked
<1>15. GoneOf(w)'
  BY <1>8, <1>9 DEF IconInv, GoneOf
<1>16. ReadOf(w)'
  BY <1>3, <1>8, <1>9 DEF IconInv, ReadOf, SameAsked
<1>17. SelectedOf(w)'
  BY <1>3, <1>8, <1>9 DEF IconInv, SelectedOf, SameAsked
<1>18. AsksOf(w)'
  BY <1>8, <1>9 DEF IconInv, AsksOf
<1>19. WantedOf(w)'
  <2>1. ASSUME Exists(w), ~Has(trayEvents, <<"moved", w>>), w \notin missed, ~HasAny(trayEvents', News(w)) PROVE Wanted(w) = TRUE
    BY <1>8, <1>9, <2>1 DEF IconInv, WantedOf, Wanted
  <2> QED BY <1>4, <1>6, <1>8, <1>9, <2>1, TrayNews DEF IconInv, WantedOf
<1> QED BY <1>14, <1>15, <1>16, <1>17, <1>18, <1>19 DEF IconInv

\* The end of an embedding.
LEMMA HandledTake ==
    ASSUME TypesInv, TypesInv', Listed, NEW w \in Icon, IconInv(w), HandleTrayEvent,
           Head(trayEvents) \in {<<"moved", w>>, <<"destroyed", w>>}, w \in Embedded, handling = Idle,
           Invalidated(RemoveAt(embedded, At(w)), trayRequests), UNCHANGED <<trayReply, handling>>
    PROVE  IconInv(w)'
<1>1. trayEvents # <<>> /\ trayEvents' = Tail(trayEvents) /\ trayEvents \in Seq(TrayEvent) /\ UNCHANGED iconVars
  BY HandledNews
<1>2. PICK r : r = Head(trayEvents) /\ r \in {<<"moved", w>>, <<"destroyed", w>>} /\ ShrunkNews(trayEvents, r, trayEvents', w)
  BY <1>1, NewsLess
<1>3. SameAsked(trayRequests, trayRequests', w)
  BY InvalidatedAsks DEF TypesInv
<1>4. \A v : handling # <<"dock", v>> /\ handling # <<"info", v>>
  BY HandlingIs
<1>5. embedded' = RemoveAt(embedded, At(w))
  BY DEF Invalidated
<1>6. w \notin Embedded'
  BY <1>5, TakenList
<1>8. ~Taken(w)' /\ Taken(w) /\ Exists(w)' = Exists(w)
       /\ UNCHANGED <<trayPlace, xembedInfo, iconSelected, asksMap, missed>>
  BY <1>1, <1>4, <1>6 DEF Taken, Exists, iconVars
<1>9. /\ \A x : Has(trayEvents', x) => Has(trayEvents, x)
      /\ \A x : Once(trayEvents, x) => Once(trayEvents', x)
      /\ Has(trayEvents, r) /\ (Once(trayEvents, r) => ~Has(trayEvents', r))
      /\ Follows(trayEvents, <<"map", w>>, <<"moved", w>>) => Follows(trayEvents', <<"map", w>>, <<"moved", w>>)
      /\ Follows(trayEvents, <<"dock", w>>, <<"destroyed", w>>) => Follows(trayEvents', <<"dock", w>>, <<"destroyed", w>>)
  BY <1>2 DEF ShrunkNews
<1>10. Exists(w) => r = <<"moved", w>>
  BY <1>2, <1>9 DEF IconInv, GoneOf
<1>14. PlaceOf(w)'
  BY <1>3, <1>8, <1>9, <1>10 DEF IconInv, PlaceOf, SameAsked
<1>15. GoneOf(w)'
  BY <1>8, <1>9 DEF IconInv, GoneOf
<1>16. ReadOf(w)'
  BY <1>3, <1>4, <1>8, <1>9 DEF IconInv, ReadOf, SameAsked
<1>17. SelectedOf(w)'
  BY <1>3, <1>8, <1>9 DEF IconInv, SelectedOf, SameAsked
<1>18. AsksOf(w)'
  BY <1>8, <1>9 DEF IconInv, AsksOf
<1>19. WantedOf(w)'
  BY <1>8 DEF WantedOf
<1> QED BY <1>14, <1>15, <1>16, <1>17, <1>18, <1>19 DEF IconInv

\* News that change nothing.
LEMMA HandledNothing ==
    ASSUME TypesInv, Listed, NEW w \in Icon, IconInv(w), HandleTrayEvent, handling = Idle,
           \/ Head(trayEvents) = <<"dock", w>> /\ w \in Embedded
           \/ Head(trayEvents) = <<"map", w>> /\ ~(w \in Embedded /\ Exists(w))
           \/ Head(trayEvents) \in {<<"info", w>>, <<"moved", w>>, <<"destroyed", w>>} /\ w \notin Embedded,
           UNCHANGED <<embedded, trayStale, trayRequests, trayReply, handling>>
    PROVE  IconInv(w)'
<1>1. trayEvents # <<>> /\ trayEvents' = Tail(trayEvents) /\ trayEvents \in Seq(TrayEvent) /\ UNCHANGED iconVars
  BY HandledNews
<1>2. PICK r : r = Head(trayEvents) /\ ShrunkNews(trayEvents, r, trayEvents', w)
  BY <1>1, NewsLess
<1>4. \A v : handling # <<"dock", v>> /\ handling # <<"info", v>>
  BY HandlingIs
<1>6. Embedded' = Embedded /\ IsFlagged(w)' = IsFlagged(w)
  BY DEF Embedded, IsFlagged
<1>7. CASE r = <<"dock", w>>
  <2>1. SameNews(trayEvents, trayEvents', w) /\ SameAsked(trayRequests, trayRequests', w)
    BY <1>1, <1>2, <1>7, NewsOfOthers DEF SameAsked
  <2> QED BY <1>1, <1>6, <2>1, IconStays DEF iconVars
<1>8. CASE r # <<"dock", w>>
  <2>1. Taken(w)' = Taken(w) /\ Exists(w)' = Exists(w) /\ UNCHANGED <<trayPlace, xembedInfo, iconSelected, asksMap, missed>>
    BY <1>1, <1>6 DEF Taken, Exists, iconVars
  <2>2. ~(Exists(w) /\ Taken(w))
    BY <1>2, <1>4, <1>8 DEF Taken
  <2>3. /\ \A x : Has(trayEvents', x) => Has(trayEvents, x)
        /\ \A x : Once(trayEvents, x) => Once(trayEvents', x)
        /\ Follows(trayEvents, <<"map", w>>, <<"moved", w>>) => Follows(trayEvents', <<"map", w>>, <<"moved", w>>)
        /\ Follows(trayEvents, <<"dock", w>>, <<"destroyed", w>>) => Follows(trayEvents', <<"dock", w>>, <<"destroyed", w>>)
        /\ \A x : x # r /\ Has(trayEvents, x) => Has(trayEvents', x)
    BY <1>2 DEF ShrunkNews
  <2>4. Taken(w) => r = <<"map", w>>
    BY <1>2, <1>4, <1>8 DEF Taken
  <2>5. PlaceOf(w)'
    BY <2>1, <2>2, <2>3 DEF IconInv, PlaceOf
  <2>6. GoneOf(w)'
    BY <2>1, <2>2, <2>3, <2>4, TrayNews DEF IconInv, GoneOf
  <2>7. ReadOf(w)'
    BY <1>6, <2>1, <2>3 DEF IconInv, ReadOf
  <2>8. SelectedOf(w)'
    BY <2>1, <2>2, <2>3 DEF IconInv, SelectedOf
  <2>9. AsksOf(w)'
    BY <2>1, <2>3 DEF IconInv, AsksOf
  <2>10. WantedOf(w)'
    BY <2>1, <2>2 DEF WantedOf
  <2> QED BY <2>5, <2>6, <2>7, <2>8, <2>9, <2>10 DEF IconInv
<1> QED BY <1>7, <1>8

LEMMA HandledIcon ==
    ASSUME TypesInv, TypesInv', Listed, \A v \in Icon : IconInv(v), HandleTrayEvent, NEW w \in Icon
    PROVE  IconInv(w)'
<1>1. CASE Head(trayEvents)[2] # w
  BY <1>1, HandledOther
<1>2. CASE Head(trayEvents)[2] = w
  <2>1. PICK k \in Icon :
              /\ Head(trayEvents) \in {<<"dock", k>>, <<"info", k>>, <<"map", k>>, <<"moved", k>>, <<"destroyed", k>>}
              /\ handling = Idle
              /\ \/ /\ Head(trayEvents) = <<"dock", k>> /\ k \notin Embedded
                    /\ Waits("dock", k, Append(Append(Append(trayRequests, <<"read", k>>), <<"select", k>>),
                                               <<"embed", k>>))
                 \/ /\ Head(trayEvents) = <<"info", k>> /\ k \in Embedded
                    /\ Waits("info", k, Append(trayRequests, <<"read", k>>))
                 \/ /\ Head(trayEvents) = <<"map", k>> /\ k \in Embedded
                    /\ Invalidated(Flagged(k, TRUE), Append(trayRequests, <<"map", k>>))
                    /\ UNCHANGED <<trayReply, handling>>
                 \/ /\ Head(trayEvents) \in {<<"moved", k>>, <<"destroyed", k>>} /\ k \in Embedded
                    /\ Invalidated(RemoveAt(embedded, At(k)), trayRequests)
                    /\ UNCHANGED <<trayReply, handling>>
                 \/ /\ \/ Head(trayEvents) = <<"dock", k>> /\ k \in Embedded
                       \/ Head(trayEvents) = <<"map", k>> /\ ~(k \in Embedded /\ Exists(k))
                       \/ Head(trayEvents) \in {<<"info", k>>, <<"moved", k>>, <<"destroyed", k>>} /\ k \notin Embedded
                    /\ UNCHANGED <<embedded, trayStale, trayRequests, trayReply, handling>>
    BY HandledNews
  <2>2. k = w
    BY <1>2, <2>1
  <2> QED BY <2>1, <2>2, HandledDock, HandledInfo, HandledMap, HandledTake, HandledNothing
<1> QED BY <1>1, <1>2

LEMMA IconStep ==
    ASSUME TypesInv, TypesInv', Listed, \A v \in Icon : IconInv(v), [TrayNext]_trayVars
    PROVE  \A w \in Icon : IconInv(w)'
<1> TAKE w \in Icon
<1>1. CASE UNCHANGED trayVars
  <2>1. UNCHANGED <<trayPlace, xembedInfo, iconSelected, asksMap, missed, embedded, handling, trayReply, trayRequests,
                    trayEvents>>
    BY <1>1 DEF trayVars, iconVars, trayLuaVars
  <2>2. SameNews(trayEvents, trayEvents', w)
    BY <2>1, NewsOfOthers DEF TypesInv, TrayTypeOK, TrayEvent
  <2>3. SameAsked(trayRequests, trayRequests', w) /\ Embedded' = Embedded /\ IsFlagged(w)' = IsFlagged(w)
    BY <2>1 DEF SameAsked, Embedded, IsFlagged
  <2> QED BY <2>1, <2>2, <2>3, IconStays
<1>2. CASE TrayNext
  BY <1>2, AppsKeepIcons, ServedIcon, HandledIcon, DockEndsIcon, InfoEndsIcon, LuaKeepsIcons DEF TrayNext
<1> QED BY <1>1, <1>2
-----------------------------------------------------------------------------
(* The last layout.                                                        *)

\* The same requests that show, hide and place icons and the tray.
SameShown(q, p) ==
    /\ \A e \in TrayMaps : LastIs(p, e, TrayMaps) <=> LastIs(q, e, TrayMaps)
    /\ \A e \in Shows : LastIs(p, e, Shows) <=> LastIs(q, e, Shows)
    /\ HasAny(p, TrayMaps) <=> HasAny(q, TrayMaps)
    /\ HasAny(p, Shows) <=> HasAny(q, Shows)

LEMMA ShownMore ==
    ASSUME NEW q \in Seq(TrayRequest), NEW r \in TrayRequest, r[1] \notin {"layout", "unmapTray", "map", "unmap"}
    PROVE  SameShown(q, Append(q, r)) /\ Append(q, r) \in Seq(TrayRequest)
<1>1. r \notin TrayMaps /\ r \notin Shows
  BY TrayKinds
<1>2. PICK p : p = Append(q, r)
  OBVIOUS
<1>3. /\ \A e \in TrayMaps : LastIs(p, e, TrayMaps) <=> (r = e \/ (r \notin TrayMaps /\ LastIs(q, e, TrayMaps)))
      /\ \A e \in Shows : LastIs(p, e, Shows) <=> (r = e \/ (r \notin Shows /\ LastIs(q, e, Shows)))
  BY <1>2, LastMore
<1>4. /\ HasAny(p, TrayMaps) <=> HasAny(q, TrayMaps) \/ r \in TrayMaps
      /\ HasAny(p, Shows) <=> HasAny(q, Shows) \/ r \in Shows
  BY <1>2, HasMore
<1>5. SameShown(q, p)
  BY <1>1, <1>3, <1>4 DEF SameShown
<1> QED BY <1>2, <1>5, Joined

LEMMA ShownTwice == ASSUME NEW q, NEW p, NEW t, SameShown(q, p), SameShown(p, t) PROVE SameShown(q, t)
  BY DEF SameShown

LEMMA ShowsAre ==
    /\ TrayMaps \subseteq Shows
    /\ <<"unmapTray", NoDrawin>> \in TrayMaps
    /\ \A l \in Seq(Cell), rows \in TrayRows : <<"layout", LayOut(l, rows)>> \in TrayMaps
<1> DEFINE L == {LayOut(l, rows) : l \in Seq(Cell), rows \in TrayRows}
<1>1. \A l \in Seq(Cell), rows \in TrayRows : LayOut(l, rows) \in L
  OBVIOUS
<1> HIDE DEF L
<1>2. Layouts = {"layout"} \X L
  BY DEF Layouts, L
<1> QED BY <1>1, <1>2 DEF TrayMaps, Shows

LEMMA LayoutStays ==
    ASSUME TypesInv, TrayLayoutInv, SameShown(trayRequests, trayRequests'),
           UNCHANGED <<embedded, trayStale, trayMapped, cells, traySize, iconMapped>>
    PROVE  TrayLayoutInv'
<1>1. /\ Visible(embedded)' = Visible(embedded) /\ Embedded' = Embedded /\ \A w : IsFlagged(w)' = IsFlagged(w)
      /\ Reverse(embedded)' = Reverse(embedded)
  BY DEF Visible, Embedded, IsFlagged
<1>2. Visible(embedded) = {} =>
          \/ LastIs(trayRequests', <<"unmapTray", NoDrawin>>, TrayMaps)
          \/ ~trayMapped /\ ~HasAny(trayRequests', TrayMaps)
  BY ShowsAre DEF TrayLayoutInv, SameShown
<1>3. ASSUME ~trayStale, Visible(embedded) # {}
      PROVE  \E rows \in TrayRows, l \in {embedded, Reverse(embedded)} : LaidOut(LayOut(l, rows))'
  <2>1. PICK rows \in TrayRows, l \in {embedded, Reverse(embedded)} : LaidOut(LayOut(l, rows))
    BY <1>3 DEF TrayLayoutInv
  <2>2. l \in Seq(Cell)
    BY EmbeddedIs, ReverseIs
  <2>3. PICK layout : layout = LayOut(l, rows) /\ <<"layout", layout>> \in Shows
    BY <2>2, ShowsAre
  <2>4. LaidOut(layout)
    BY <2>1, <2>3
  <2>5. LaidOut(layout)'
    BY <1>1, <2>3, <2>4 DEF LaidOut, SameShown
  <2>6. LaidOut(LayOut(l, rows))'
    BY <2>3, <2>5 DEF LaidOut
  <2> QED BY <2>6
<1> QED BY <1>1, <1>2, <1>3 DEF TrayLayoutInv

\* Lua code is told to make another layout.
LEMMA LayoutInvalidated ==
    ASSUME NEW q \in Seq(TrayRequest), NEW list, Invalidated(list, q)
    PROVE  TrayLayoutInv'
<1>1. PICK r \in TrayRequest : r = <<"unmapTray", NoDrawin>>
  BY RequestsAre
<1>2. LastIs(Append(q, r), r, TrayMaps)
  BY <1>1, LastMore, ShowsAre
<1>3. Visible(embedded)' = {} => LastIs(trayRequests', <<"unmapTray", NoDrawin>>, TrayMaps)
  BY <1>1, <1>2 DEF Invalidated
<1> QED BY <1>3 DEF TrayLayoutInv, Invalidated

\* A layout shows the icons that are to be seen and hides the others.
LEMMA LayOutShows ==
    ASSUME TypesInv, Listed, NEW l \in {embedded, Reverse(embedded)}, NEW rows, NEW w \in Embedded
    PROVE  /\ w \in DOMAIN LayOut(l, rows).cells <=> IsFlagged(w)
           /\ w \in LayOut(l, rows).hidden <=> ~IsFlagged(w)
<1>1. embedded \in Seq(Cell) /\ l \in Seq(Cell) /\ Len(l) = Len(embedded)
  BY EmbeddedIs, ReverseIs
<1>2. /\ \A i \in 1..Len(l) : \E j \in 1..Len(embedded) : l[i] = embedded[j]
      /\ \A j \in 1..Len(embedded) : \E i \in 1..Len(l) : l[i] = embedded[j]
  <2>1. CASE l = embedded
    BY <2>1
  <2>2. CASE l = Reverse(embedded)
    <3>1. \A i \in 1..Len(embedded) : Len(embedded) - i + 1 \in 1..Len(embedded) /\ l[i] = embedded[Len(embedded) - i + 1]
                                      /\ embedded[i] = l[Len(embedded) - i + 1]
      BY <1>1, <2>2, ReverseIs
    <3> QED BY <1>1, <3>1
  <2> QED BY <2>1, <2>2
<1>3. /\ DOMAIN LayOut(l, rows).cells = {l[i].win : i \in Visible(l)}
      /\ LayOut(l, rows).hidden = {l[i].win : i \in (1..Len(l)) \ Visible(l)}
      /\ Visible(l) = {i \in 1..Len(l) : l[i].mapped}
  BY <1>1, LayOutIs, VisibleIs
<1>4. PICK k \in 1..Len(embedded) : embedded[k].win = w
  BY EmbeddedIs
<1>5. PICK n \in 1..Len(l) : l[n] = embedded[k]
  BY <1>2
<1>6. IsFlagged(w) = embedded[k].mapped
  BY <1>4, IsFlaggedIs
<1>7. \A i \in 1..Len(l) : l[i].win = w => l[i] = embedded[k]
  BY <1>2, <1>4 DEF Listed
<1>8. w \in DOMAIN LayOut(l, rows).cells <=> embedded[k].mapped
  BY <1>3, <1>4, <1>5, <1>7
<1>9. w \in LayOut(l, rows).hidden <=> ~embedded[k].mapped
  BY <1>3, <1>4, <1>5, <1>7
<1> QED BY <1>6, <1>8, <1>9

LEMMA LayoutExecuted == ASSUME TypesInv, Listed, TrayLayoutInv, ExecuteTrayRequest PROVE TrayLayoutInv'
<1>1. PICK q : q = trayRequests
  OBVIOUS
<1>2. /\ q # <<>> /\ trayRequests' = Tail(q) /\ q \in Seq(TrayRequest) /\ Head(q) \in TrayRequest
      /\ UNCHANGED <<embedded, trayStale>>
  BY <1>1, ExecutedIs DEF trayLuaVars
<1>3. PICK op, x : /\ Head(q) = <<op, x>>
                   /\ ServeIcon(op, x) \/ ServeTray(op, x) \/ (op = "layout" /\ ServeLayout(op, x))
  BY <1>1, ExecutedIs
<1>4. /\ Visible(embedded)' = Visible(embedded) /\ Embedded' = Embedded /\ \A w : IsFlagged(w)' = IsFlagged(w)
      /\ Reverse(embedded)' = Reverse(embedded)
  BY <1>2 DEF Visible, Embedded, IsFlagged
<1>5. /\ \A e \in TrayMaps : LastIs(q, e, TrayMaps) <=> (LastIs(Tail(q), e, TrayMaps) \/ (Head(q) = e /\ ~HasAny(Tail(q), TrayMaps)))
      /\ \A e \in Shows : LastIs(q, e, Shows) <=> (LastIs(Tail(q), e, Shows) \/ (Head(q) = e /\ ~HasAny(Tail(q), Shows)))
  BY <1>2, LastLess
<1>6. /\ HasAny(q, TrayMaps) <=> HasAny(Tail(q), TrayMaps) \/ Head(q) \in TrayMaps
      /\ HasAny(q, Shows) <=> HasAny(Tail(q), Shows) \/ Head(q) \in Shows
  BY <1>2, HasLess
<1>7. /\ Head(q) \in TrayMaps <=> op \in {"layout", "unmapTray"}
      /\ Head(q) \in Shows <=> op \in {"layout", "unmapTray", "map", "unmap"}
  BY <1>2, <1>3, TrayKinds
<1>8. CASE op \notin {"layout", "unmapTray", "map", "unmap"}
  <2>1. UNCHANGED <<trayMapped, cells, traySize, iconMapped>>
    <3>1. CASE ServeIcon(op, x)
      BY <1>8, <3>1 DEF ServeIcon, trayWindowVars
    <3>2. CASE ServeTray(op, x)
      <4>1. trayMapped \in BOOLEAN
        BY DEF TypesInv, TrayTypeOK
      <4> QED BY <1>8, <3>2, <4>1 DEF ServeTray, iconVars
    <3> QED BY <1>3, <1>8, <3>1, <3>2
  <2>2. SameShown(q, Tail(q))
    BY <1>5, <1>6, <1>7, <1>8 DEF SameShown
  <2> QED BY <1>1, <1>2, <2>1, <2>2, LayoutStays
<1>9. CASE op \in {"layout", "unmapTray", "map", "unmap"}
  <2>1. Visible(embedded) = {} =>
          \/ LastIs(Tail(q), <<"unmapTray", NoDrawin>>, TrayMaps)
          \/ ~trayMapped' /\ ~HasAny(Tail(q), TrayMaps)
    <3>1. CASE op \in {"map", "unmap"}
      <4>1. trayMapped' = trayMapped
        BY <1>3, <3>1 DEF ServeIcon, ServeTray, ServeLayout, trayWindowVars
      <4>2. Head(q) # <<"unmapTray", NoDrawin>>
        BY <1>3, <3>1
      <4> QED BY <1>1, <1>5, <1>6, <4>1, <4>2, ShowsAre DEF TrayLayoutInv
    <3>2. CASE op = "unmapTray"
      <4>1. ~trayMapped'
        BY <1>3, <3>2 DEF ServeIcon, ServeTray, ServeLayout
      <4>2. Head(q) \in TrayMaps
        BY <1>7, <3>2
      <4> QED BY <1>1, <1>5, <1>6, <4>1, <4>2, ShowsAre DEF TrayLayoutInv
    <3>3. CASE op = "layout"
      <4>1. Head(q) \in TrayMaps /\ Head(q) # <<"unmapTray", NoDrawin>>
        BY <1>3, <1>7, <3>3
      <4> QED BY <1>1, <1>5, <1>6, <4>1, ShowsAre DEF TrayLayoutInv
    <3> QED BY <1>9, <3>1, <3>2, <3>3
  <2>2. ASSUME ~trayStale, Visible(embedded) # {}
        PROVE  \E rows \in TrayRows, l \in {embedded, Reverse(embedded)} : LaidOut(LayOut(l, rows))'
    <3>1. PICK rows \in TrayRows, l \in {embedded, Reverse(embedded)} : LaidOut(LayOut(l, rows))
      BY <2>2 DEF TrayLayoutInv
    <3>2. l \in Seq(Cell)
      BY EmbeddedIs, ReverseIs
    <3>3. PICK layout : layout = LayOut(l, rows) /\ <<"layout", layout>> \in Shows /\ LaidOut(layout)
      BY <3>1, <3>2, ShowsAre
    <3>4. LastIs(q, <<"layout", layout>>, Shows)
      BY <1>1, <1>6, <1>7, <1>9, <3>3 DEF LaidOut
    <3>5. LastIs(Tail(q), <<"layout", layout>>, Shows) \/ (Head(q) = <<"layout", layout>> /\ ~HasAny(Tail(q), Shows))
      BY <1>5, <3>3, <3>4
    <3>6. LaidOut(layout)'
      <4>1. CASE LastIs(Tail(q), <<"layout", layout>>, Shows)
        BY <1>2, <4>1 DEF LaidOut
      <4>2. CASE Head(q) = <<"layout", layout>> /\ ~HasAny(Tail(q), Shows)
        <5>1. op = "layout" /\ x = layout
          BY <1>3, <4>2
        <5>2. /\ cells' = layout.cells /\ traySize' = layout.size /\ trayMapped' = TRUE
              /\ iconMapped' = (iconMapped \cup DOMAIN layout.cells) \ layout.hidden
          BY <1>3, <5>1 DEF ServeIcon, ServeTray, ServeLayout
        <5>3. \A w \in Embedded : w \in iconMapped' <=> IsFlagged(w)
          BY <3>3, <5>2, LayOutShows
        <5> QED BY <1>2, <1>4, <4>2, <5>2, <5>3 DEF LaidOut
      <4> QED BY <3>5, <4>1, <4>2
    <3>7. LaidOut(LayOut(l, rows))'
      BY <3>3, <3>6 DEF LaidOut
    <3> QED BY <3>7
  <2> QED BY <1>2, <1>4, <2>1, <2>2 DEF TrayLayoutInv
<1> QED BY <1>8, <1>9

LEMMA LayoutStep == ASSUME TypesInv, Listed, TrayLayoutInv, [TrayNext]_trayVars PROVE TrayLayoutInv'
<1>0. trayRequests \in Seq(TrayRequest) /\ SameShown(trayRequests, trayRequests)
  BY DEF TypesInv, SameShown
<1>1. CASE UNCHANGED trayVars
  BY <1>0, <1>1, LayoutStays DEF trayVars, iconVars, trayWindowVars, trayLuaVars
<1>2. ASSUME NEW w \in Icon, AppDocks(w) \/ AppSetsInfo(w) \/ AppMaps(w) \/ AppMovesAway(w) \/ AppDestroys(w)
      PROVE  TrayLayoutInv'
  <2>1. UNCHANGED <<trayRequests, embedded, trayStale, trayMapped, cells, traySize, iconMapped>>
    BY <1>2 DEF AppDocks, AppSetsInfo, AppMaps, AppMovesAway, AppDestroys, iconVars, trayWindowVars, trayLuaVars
  <2> QED BY <1>0, <2>1, LayoutStays
<1>3. CASE ExecuteTrayRequest
  BY <1>3, LayoutExecuted
<1>4. ASSUME NEW w \in Icon, NEW op \in {"read", "select", "embed", "map", "unmap"}, NEW q \in Seq(TrayRequest)
      PROVE  /\ Append(q, <<op, w>>) \in Seq(TrayRequest)
             /\ op \in {"read", "select", "embed"} => SameShown(q, Append(q, <<op, w>>))
  <2>1. PICK r \in TrayRequest : r = <<op, w>> /\ r[1] = op
    BY RequestsAre
  <2> QED BY <2>1, ShownMore, Joined
<1>5. CASE HandleTrayEvent
  <2>1. PICK k \in Icon :
              /\ UNCHANGED <<iconVars, trayWindowVars>>
              /\ \/ Waits("dock", k, Append(Append(Append(trayRequests, <<"read", k>>), <<"select", k>>), <<"embed", k>>))
                 \/ Waits("info", k, Append(trayRequests, <<"read", k>>))
                 \/ Invalidated(Flagged(k, TRUE), Append(trayRequests, <<"map", k>>))
                 \/ Invalidated(RemoveAt(embedded, At(k)), trayRequests)
                 \/ UNCHANGED <<embedded, trayStale, trayRequests>>
    BY <1>5, HandledNews
  <2>2. UNCHANGED <<trayMapped, cells, traySize, iconMapped>>
    BY <2>1 DEF iconVars, trayWindowVars
  <2>3. CASE Waits("dock", k, Append(Append(Append(trayRequests, <<"read", k>>), <<"select", k>>), <<"embed", k>>))
    <3>1. PICK p \in Seq(TrayRequest) : p = Append(trayRequests, <<"read", k>>) /\ SameShown(trayRequests, p)
      BY <1>0, <1>4
    <3>2. PICK q \in Seq(TrayRequest) : q = Append(p, <<"select", k>>) /\ SameShown(p, q)
      BY <1>4
    <3>3. SameShown(q, Append(q, <<"embed", k>>))
      BY <1>4
    <3>4. SameShown(trayRequests, trayRequests')
      BY <2>3, <3>1, <3>2, <3>3, ShownTwice DEF Waits
    <3> QED BY <2>2, <2>3, <3>4, LayoutStays DEF Waits
  <2>4. CASE Waits("info", k, Append(trayRequests, <<"read", k>>))
    <3>1. SameShown(trayRequests, Append(trayRequests, <<"read", k>>))
      BY <1>0, <1>4
    <3> QED BY <2>2, <2>4, <3>1, LayoutStays DEF Waits
  <2>5. CASE Invalidated(Flagged(k, TRUE), Append(trayRequests, <<"map", k>>))
    <3>1. Append(trayRequests, <<"map", k>>) \in Seq(TrayRequest)
      BY <1>0, <1>4
    <3> QED BY <2>5, <3>1, LayoutInvalidated
  <2>6. CASE Invalidated(RemoveAt(embedded, At(k)), trayRequests)
    BY <1>0, <2>6, LayoutInvalidated
  <2>7. CASE UNCHANGED <<embedded, trayStale, trayRequests>>
    BY <1>0, <2>2, <2>7, LayoutStays
  <2> QED BY <2>1, <2>3, <2>4, <2>5, <2>6, <2>7
<1>6. CASE DockEnd
  BY <1>0, <1>6, DockEndIs, LayoutInvalidated
<1>7. CASE InfoEnd
  <2>1. handling[2] \in Icon /\ InfoRead(handling[2]) /\ UNCHANGED <<trayMapped, cells, traySize, iconMapped>>
    BY <1>7, HandlingIs DEF InfoEnd, iconVars, trayWindowVars
  <2>2. CASE UNCHANGED <<embedded, trayStale, trayRequests>>
    BY <1>0, <2>1, <2>2, LayoutStays
  <2>3. ASSUME NEW op \in {"map", "unmap"},
               Invalidated(Flagged(handling[2], trayReply = "shown"), Append(trayRequests, <<op, handling[2]>>))
        PROVE  TrayLayoutInv'
    <3>1. Append(trayRequests, <<op, handling[2]>>) \in Seq(TrayRequest)
      BY <1>0, <1>4, <2>1
    <3> QED BY <2>3, <3>1, LayoutInvalidated
  <2> QED BY <2>1, <2>2, <2>3, InfoReadIs
<1>8. ASSUME NEW x \in TrayDrawin \cup {"root"}, NEW q, q = Append(trayRequests, <<"put", x>>)
      PROVE  q \in Seq(TrayRequest) /\ SameShown(trayRequests, q)
  <2>1. PICK r \in TrayRequest : r = <<"put", x>> /\ r[1] = "put"
    BY RequestsAre
  <2> QED BY <1>0, <1>8, <2>1, ShownMore
<1>9. ASSUME NEW d \in TrayDrawin, NEW rows \in TrayRows, NEW isReversed \in BOOLEAN, RedrawTray(d, rows, isReversed)
      PROVE  TrayLayoutInv'
  <2>1. PICK q \in Seq(TrayRequest), l \in {embedded, Reverse(embedded)}, r \in TrayRequest :
                  /\ q = IF trayParent # d THEN Append(trayRequests, <<"put", d>>) ELSE trayRequests
                  /\ r = <<"layout", LayOut(l, rows)>> /\ l \in Seq(Cell)
                  /\ trayRequests' = IF Visible(embedded) = {} THEN q ELSE Append(q, r)
    BY <1>9, RedrawIs
  <2>2. UNCHANGED <<embedded, trayMapped, cells, traySize, iconMapped>>
    BY <1>9 DEF RedrawTray, iconVars, trayWindowVars
  <2>3. Visible(embedded)' = Visible(embedded) /\ Reverse(embedded)' = Reverse(embedded)
    BY <2>2 DEF Visible
  <2>4. SameShown(trayRequests, q)
    BY <1>0, <1>8, <2>1
  <2>5. CASE Visible(embedded) = {}
    <3>1. LastIs(trayRequests', <<"unmapTray", NoDrawin>>, TrayMaps) \/ (~trayMapped /\ ~HasAny(trayRequests', TrayMaps))
      BY <2>1, <2>4, <2>5, ShowsAre DEF TrayLayoutInv, SameShown
    <3> QED BY <2>2, <2>3, <2>5, <3>1 DEF TrayLayoutInv
  <2>6. CASE Visible(embedded) # {}
    <3>1. r \in Shows
      BY <2>1, ShowsAre
    <3>2. LastIs(Append(q, r), r, Shows)
      BY <3>1, LastMore
    <3>3. LastIs(trayRequests', <<"layout", LayOut(l, rows)>>, Shows)
      BY <2>1, <2>6, <3>2
    <3>4. LaidOut(LayOut(l, rows))'
      BY <3>3 DEF LaidOut
    <3>5. \E n \in TrayRows, list \in {embedded, Reverse(embedded)} : LaidOut(LayOut(list, n))'
      BY <3>4
    <3> QED BY <2>2, <2>3, <2>6, <3>5 DEF TrayLayoutInv
  <2> QED BY <2>5, <2>6
<1>10. ASSUME NEW d \in TrayDrawin, Kickout(d) \/ Wipe(d) PROVE TrayLayoutInv'
  <2>1. PICK q \in Seq(TrayRequest) :
                  /\ q = IF trayParent = d THEN Append(trayRequests, <<"put", "root">>) ELSE trayRequests
                  /\ Kickout(d) => trayRequests' = q
                  /\ Wipe(d) => trayRequests' = Append(q, <<"destroy", d>>)
    BY KickoutIs
  <2>2. UNCHANGED <<embedded, trayStale, trayMapped, cells, traySize, iconMapped>>
    BY <1>10 DEF Kickout, Wipe, iconVars, trayWindowVars
  <2>3. SameShown(trayRequests, q)
    BY <1>0, <1>8, <2>1
  <2>4. PICK r \in TrayRequest : r = <<"destroy", d>> /\ r[1] = "destroy"
    BY RequestsAre
  <2>5. SameShown(q, Append(q, r))
    BY <2>4, ShownMore
  <2>6. SameShown(trayRequests, trayRequests')
    BY <1>10, <2>1, <2>3, <2>4, <2>5, ShownTwice
  <2> QED BY <2>2, <2>6, LayoutStays
<1> QED BY <1>1, <1>2, <1>3, <1>5, <1>6, <1>7, <1>9, <1>10 DEF TrayNext
-----------------------------------------------------------------------------
(* The cells of a layout.                                                  *)

CellStep(l, rows, f, n) ==
    IF n = 0 THEN <<0, 0>>
    ELSE IF ~l[n].mapped THEN f[n - 1]
    ELSE IF n % rows = 0 THEN <<f[n - 1][1] + 1, 0>>
    ELSE <<f[n - 1][1], f[n - 1][2] + 1>>

LEMMA CellsExist ==
    ASSUME NEW l \in Seq(Cell), NEW rows
    PROVE  \E f : f = [n \in 0..Len(l) |-> CellStep(l, rows, f, n)]
<1> DEFINE Missing == {m \in 0..Len(l) : ~\E f : f = [n \in 0..m |-> CellStep(l, rows, f, n)]}
<1>1. Len(l) \in Nat
  BY LenProperties
<1>2. SUFFICES ASSUME Missing # {} PROVE FALSE
  BY <1>1
<1>3. Missing \subseteq Nat
  BY <1>1
<1>4. PICK m \in Missing : \A x \in Missing : m <= x
  <2> HIDE DEF Missing
  <2> QED BY <1>2, <1>3, LeastOf
<1>5. CASE m = 0
  <2>1. PICK f : f = [n \in 0..0 |-> <<0, 0>>]
    OBVIOUS
  <2>2. f = [n \in 0..0 |-> CellStep(l, rows, f, n)]
    BY <2>1 DEF CellStep
  <2> QED BY <1>5, <2>2
<1>6. CASE m # 0
  <2>1. m \in Nat /\ m - 1 \in 0..Len(l) /\ ~(m <= m - 1) /\ m \in 0..Len(l)
    BY <1>1, <1>3, <1>6
  <2>2. m - 1 \notin Missing
    <3> HIDE DEF Missing
    <3> QED BY <1>4, <2>1
  <2>3. PICK f : f = [n \in 0..m - 1 |-> CellStep(l, rows, f, n)]
    BY <2>1, <2>2
  <2>4. PICK g : g = [n \in 0..m |-> IF n = m THEN CellStep(l, rows, f, m) ELSE f[n]]
    OBVIOUS
  <2>5. ASSUME NEW n \in 0..m PROVE g[n] = CellStep(l, rows, g, n)
    <3>1. CASE n = m
      <4>1. m - 1 \in 0..m /\ m - 1 # m
        BY <2>1
      <4>2. g[m - 1] = f[m - 1] /\ g[m] = CellStep(l, rows, f, m)
        BY <2>1, <2>4, <4>1
      <4> QED BY <3>1, <4>2 DEF CellStep
    <3>2. CASE n # m
      <4>1. n \in 0..m - 1 /\ (n # 0 => n - 1 \in 0..m /\ n - 1 # m)
        BY <2>1, <3>2
      <4>2. g[n] = f[n] /\ (n # 0 => g[n - 1] = f[n - 1])
        BY <2>4, <3>2, <4>1
      <4>3. f[n] = CellStep(l, rows, f, n)
        BY <2>3, <4>1
      <4> QED BY <4>2, <4>3 DEF CellStep
    <3> QED BY <3>1, <3>2
  <2>6. g = [n \in 0..m |-> g[n]]
    BY <2>4
  <2>7. g = [n \in 0..m |-> CellStep(l, rows, g, n)]
    BY <2>5, <2>6
  <2> QED BY <2>7
<1> QED BY <1>5, <1>6

Place(l, w) == CHOOSE i \in Visible(l) : l[i].win = w

LEMMA CellsAre ==
    ASSUME NEW l \in Seq(Cell), NEW rows
    PROVE  \E f : /\ f = [n \in 0..Len(l) |-> CellStep(l, rows, f, n)]
                  /\ DOMAIN Cells(l, rows) = {l[i].win : i \in Visible(l)}
                  /\ \A w \in DOMAIN Cells(l, rows) : Cells(l, rows)[w] = f[Place(l, w) - 1]
<1> DEFINE next == CHOOSE f : f = [n \in 0..Len(l) |->
                       IF n = 0 THEN <<0, 0>>
                       ELSE IF ~l[n].mapped THEN f[n - 1]
                       ELSE IF n % rows = 0 THEN <<f[n - 1][1] + 1, 0>>
                       ELSE <<f[n - 1][1], f[n - 1][2] + 1>>]
<1>1. Cells(l, rows) = [w \in {l[i].win : i \in Visible(l)} |-> next[Place(l, w) - 1]]
  BY DEF Cells, Place
<1>2. \E f : f = [n \in 0..Len(l) |->
                    IF n = 0 THEN <<0, 0>>
                    ELSE IF ~l[n].mapped THEN f[n - 1]
                    ELSE IF n % rows = 0 THEN <<f[n - 1][1] + 1, 0>>
                    ELSE <<f[n - 1][1], f[n - 1][2] + 1>>]
  <2>1. PICK f : f = [n \in 0..Len(l) |-> CellStep(l, rows, f, n)]
    BY CellsExist
  <2> QED BY <2>1 DEF CellStep
<1>3. next = [n \in 0..Len(l) |->
                IF n = 0 THEN <<0, 0>>
                ELSE IF ~l[n].mapped THEN next[n - 1]
                ELSE IF n % rows = 0 THEN <<next[n - 1][1] + 1, 0>>
                ELSE <<next[n - 1][1], next[n - 1][2] + 1>>]
  BY <1>2, Zenon
<1> HIDE DEF next
<1>4. next = [n \in 0..Len(l) |-> CellStep(l, rows, next, n)]
  BY <1>3 DEF CellStep
<1> QED BY <1>1, <1>4

\* How many of the first icons are to be seen.
SeenOf(l, n) == {i \in 1..n : l[i].mapped}

LEMMA SeenCounts ==
    ASSUME NEW l \in Seq(Cell)
    PROVE  /\ \A n \in 0..Len(l) : IsFiniteSet(SeenOf(l, n)) /\ Cardinality(SeenOf(l, n)) \in Nat
           /\ Cardinality(SeenOf(l, 0)) = 0
           /\ \A n \in 1..Len(l) : Cardinality(SeenOf(l, n)) =
                 IF l[n].mapped THEN Cardinality(SeenOf(l, n - 1)) + 1 ELSE Cardinality(SeenOf(l, n - 1))
           /\ \A m, n \in 0..Len(l) : m <= n => Cardinality(SeenOf(l, m)) <= Cardinality(SeenOf(l, n))
           /\ SeenOf(l, Len(l)) = Visible(l)
<1>1. Len(l) \in Nat
  BY LenProperties
<1>2. ASSUME NEW n \in 0..Len(l) PROVE IsFiniteSet(SeenOf(l, n)) /\ Cardinality(SeenOf(l, n)) \in Nat
  <2>1. IsFiniteSet(1..n)
    BY FS_Interval
  <2>2. SeenOf(l, n) \in SUBSET (1..n)
    BY DEF SeenOf
  <2> QED BY <2>1, <2>2, FS_Subset, FS_CardinalityType
<1>3. Cardinality(SeenOf(l, 0)) = 0
  <2>1. SeenOf(l, 0) = {}
    BY DEF SeenOf
  <2> QED BY <2>1, FS_EmptySet
<1>4. ASSUME NEW n \in 1..Len(l)
      PROVE  Cardinality(SeenOf(l, n)) =
                IF l[n].mapped THEN Cardinality(SeenOf(l, n - 1)) + 1 ELSE Cardinality(SeenOf(l, n - 1))
  <2>1. n - 1 \in 0..Len(l) /\ \A i : i \in 1..n <=> (i \in 1..n - 1 \/ i = n)
    BY <1>1
  <2>2. SeenOf(l, n) = IF l[n].mapped THEN SeenOf(l, n - 1) \cup {n} ELSE SeenOf(l, n - 1)
    BY <2>1 DEF SeenOf
  <2>3. n \notin SeenOf(l, n - 1)
    BY DEF SeenOf
  <2> QED BY <1>2, <2>1, <2>2, <2>3, FS_AddElement
<1>5. ASSUME NEW m \in 0..Len(l), NEW n \in 0..Len(l), m <= n
      PROVE  Cardinality(SeenOf(l, m)) <= Cardinality(SeenOf(l, n))
  <2>1. SeenOf(l, m) \in SUBSET SeenOf(l, n)
    BY <1>5 DEF SeenOf
  <2> QED BY <1>2, <2>1, FS_Subset
<1>6. SeenOf(l, Len(l)) = Visible(l)
  BY VisibleIs DEF SeenOf
<1> QED BY <1>2, <1>3, <1>4, <1>5, <1>6

\* Division, for the column and the row of a cell.
LEMMA DivisionBy ==
    ASSUME NEW n \in Nat, NEW k \in Nat \ {0}
    PROVE  n % k \in 0..k - 1 /\ n \div k \in Nat /\ n = (k * (n \div k)) + (n % k)
  OBVIOUS

LEMMA TimesGrows == ASSUME NEW k \in Nat, NEW a \in Nat, NEW b \in Nat, a <= b PROVE k * a \in Nat /\ k * a <= k * b
<1>1. PICK c \in Nat : c = b - a
  OBVIOUS
<1>2. k * b = k * a + k * c /\ k * c >= 0 /\ k * a \in Nat /\ k * c \in Nat
  BY <1>1
<1> QED BY <1>2

LEMMA TimesMore == ASSUME NEW k \in Nat, NEW a \in Nat PROVE k * (a + 1) = k * a + k
  OBVIOUS

\* The cell before which there are n icons to be seen; the next cell of a column, or the first of the
\* next column.
CellAt(rows, n, a, b) == b < rows /\ rows * a + b = n

LEMMA NextCell ==
    ASSUME NEW rows \in Nat \ {0}, NEW n \in Nat \ {0}, NEW a \in Nat, NEW b \in Nat, CellAt(rows, n - 1, a, b)
    PROVE  IF n % rows = 0 THEN CellAt(rows, n, a + 1, 0) ELSE CellAt(rows, n, a, b + 1)
<1>0. b < rows /\ rows * a + b = n - 1
  BY DEF CellAt
<1>1. PICK c \in Nat, r \in 0..rows - 1 : r = n % rows /\ n = rows * c + r
  <2>1. n % rows \in 0..rows - 1 /\ n \div rows \in Nat /\ n = (rows * (n \div rows)) + (n % rows)
    BY DivisionBy
  <2>2. PICK c, r : c = n \div rows /\ r = n % rows
    OBVIOUS
  <2>3. c \in Nat /\ r \in 0..rows - 1 /\ n = (rows * c) + r
    BY <2>1, <2>2
  <2> QED BY <2>2, <2>3
<1>2. rows * a \in Nat /\ rows * c \in Nat /\ rows * (a + 1) = rows * a + rows
  BY TimesGrows, TimesMore
<1>3. CASE c <= a
  <2>1. rows * c <= rows * a
    BY <1>3, TimesGrows
  <2>2. r # 0
    BY <1>0, <1>1, <1>2, <2>1
  <2>3. b + 1 < rows
    BY <1>0, <1>1, <1>2, <2>1
  <2> QED BY <1>0, <1>1, <1>2, <2>2, <2>3 DEF CellAt
<1>4. CASE a + 1 <= c
  <2>1. rows * (a + 1) <= rows * c
    BY <1>4, TimesGrows
  <2>2. r = 0 /\ rows * (a + 1) + 0 = n
    BY <1>0, <1>1, <1>2, <2>1
  <2> QED BY <1>1, <2>2 DEF CellAt
<1> QED BY <1>1, <1>3, <1>4

\* The cells before the one of an icon that is to be seen are as many as the icons before it.
FitsUpTo(l, rows, f, n) ==
    \E a, b \in Nat : f[n] = <<a, b>> /\ b < rows /\ rows * a + b = Cardinality(SeenOf(l, n))

LEMMA CellsCount ==
    ASSUME NEW l \in Seq(Cell), NEW rows \in Nat \ {0}, rows = 1 \/ \A i \in 1..Len(l) : l[i].mapped,
           NEW f, f = [n \in 0..Len(l) |-> CellStep(l, rows, f, n)]
    PROVE  \A n \in 0..Len(l) : FitsUpTo(l, rows, f, n)
<1> DEFINE Wrong == {m \in 0..Len(l) : ~FitsUpTo(l, rows, f, m)}
           C(n) == Cardinality(SeenOf(l, n))
<1>1. Len(l) \in Nat
  BY LenProperties
<1>2. SUFFICES ASSUME Wrong # {} PROVE FALSE
  OBVIOUS
<1>3. Wrong \subseteq Nat
  BY <1>1
<1>4. PICK m \in Wrong : \A x \in Wrong : m <= x
  <2> HIDE DEF Wrong
  <2> QED BY <1>2, <1>3, LeastOf
<1>5. m \in 0..Len(l) /\ ~FitsUpTo(l, rows, f, m)
  OBVIOUS
<1>6. f[m] = CellStep(l, rows, f, m)
  BY <1>5
<1>7. CASE m = 0
  <2>1. f[m] = <<0, 0>> /\ Cardinality(SeenOf(l, m)) = 0 /\ rows * 0 + 0 = 0 /\ 0 < rows
    BY <1>6, <1>7, SeenCounts DEF CellStep
  <2> QED BY <1>5, <2>1 DEF FitsUpTo
<1>8. CASE m # 0
  <2>1. m - 1 \in 0..Len(l) /\ ~(m <= m - 1) /\ m \in 1..Len(l) /\ m \in Nat \ {0}
    BY <1>1, <1>5, <1>8
  <2>2. FitsUpTo(l, rows, f, m - 1)
    <3>1. m - 1 \notin Wrong
      <4> HIDE DEF Wrong
      <4> QED BY <1>4, <2>1
    <3> QED BY <2>1, <3>1
  <2>3. PICK a \in Nat, b \in Nat : f[m - 1] = <<a, b>> /\ b < rows /\ rows * a + b = Cardinality(SeenOf(l, m - 1))
    BY <2>2 DEF FitsUpTo
  <2>4. Cardinality(SeenOf(l, m)) = IF l[m].mapped THEN Cardinality(SeenOf(l, m - 1)) + 1 ELSE Cardinality(SeenOf(l, m - 1))
    BY <2>1, SeenCounts
  <2>5. f[m] = IF ~l[m].mapped THEN <<a, b>> ELSE IF m % rows = 0 THEN <<a + 1, 0>> ELSE <<a, b + 1>>
    <3>1. PICK p : p = f[m - 1]
      OBVIOUS
    <3>2. p = <<a, b>> /\ p[1] = a /\ p[2] = b
      BY <2>3, <3>1
    <3>3. f[m] = IF ~l[m].mapped THEN p ELSE IF m % rows = 0 THEN <<p[1] + 1, 0>> ELSE <<p[1], p[2] + 1>>
      BY <1>6, <1>8, <3>1 DEF CellStep
    <3> QED BY <3>2, <3>3
  <2>6. CASE ~l[m].mapped
    BY <1>5, <2>3, <2>4, <2>5, <2>6 DEF FitsUpTo
  <2>7. CASE l[m].mapped
    <3>1. PICK c \in Nat : c = Cardinality(SeenOf(l, m - 1)) /\ Cardinality(SeenOf(l, m)) = c + 1
      BY <2>1, <2>4, <2>7, SeenCounts
    <3>2. IF m % rows = 0 THEN rows * (a + 1) = c + 1 ELSE b + 1 < rows /\ rows * a + (b + 1) = c + 1
      <4>1. CASE rows = 1
        <5>1. m % rows = 0 /\ rows * (a + 1) = a + 1 /\ rows * a = a /\ b = 0
          BY <2>1, <2>3, <4>1
        <5> QED BY <2>3, <3>1, <5>1
      <4>2. CASE \A i \in 1..Len(l) : l[i].mapped
        <5>1. SeenOf(l, m - 1) = 1..m - 1
          BY <1>1, <2>1, <4>2 DEF SeenOf
        <5>2. c = m - 1
          BY <2>1, <3>1, <5>1, FS_Interval
        <5>3. CellAt(rows, m - 1, a, b)
          BY <2>3, <3>1, <5>2 DEF CellAt
        <5>4. IF m % rows = 0 THEN CellAt(rows, m, a + 1, 0) ELSE CellAt(rows, m, a, b + 1)
          BY <2>1, <5>3, NextCell
        <5>5. c + 1 = m
          BY <2>1, <5>2
        <5> QED BY <5>4, <5>5 DEF CellAt
      <4> QED BY <4>1, <4>2
    <3>3. CASE m % rows = 0
      <4>1. f[m] = <<a + 1, 0>> /\ a + 1 \in Nat /\ 0 \in Nat /\ 0 < rows /\ rows * (a + 1) + 0 = c + 1
        BY <2>5, <2>7, <3>2, <3>3
      <4> QED BY <1>5, <3>1, <4>1 DEF FitsUpTo
    <3>4. CASE m % rows # 0
      <4>1. f[m] = <<a, b + 1>> /\ b + 1 \in Nat /\ b + 1 < rows /\ rows * a + (b + 1) = c + 1
        BY <2>5, <2>7, <3>2, <3>4
      <4> QED BY <1>5, <3>1, <4>1 DEF FitsUpTo
    <3> QED BY <3>3, <3>4
  <2> QED BY <2>6, <2>7
<1> QED BY <1>7, <1>8

\* An icon to be seen has a cell of its own inside of the tray.
LEMMA LayoutFits ==
    ASSUME NEW l \in Seq(Cell), NEW rows \in Nat \ {0}, rows = 1 \/ \A i \in 1..Len(l) : l[i].mapped
    PROVE  /\ IsInjective(Cells(l, rows))
           /\ \A w \in DOMAIN Cells(l, rows) :
                 /\ Cells(l, rows)[w][1] < Columns(Cardinality(Visible(l)), rows)
                 /\ Cells(l, rows)[w][2] < rows
<1>1. PICK f : /\ f = [n \in 0..Len(l) |-> CellStep(l, rows, f, n)]
               /\ DOMAIN Cells(l, rows) = {l[i].win : i \in Visible(l)}
               /\ \A w \in DOMAIN Cells(l, rows) : Cells(l, rows)[w] = f[Place(l, w) - 1]
  BY CellsAre
<1>2. \A n \in 0..Len(l) : FitsUpTo(l, rows, f, n)
  BY <1>1, CellsCount
<1>3. Len(l) \in Nat /\ Visible(l) = {i \in 1..Len(l) : l[i].mapped}
  BY VisibleIs
<1>4. ASSUME NEW w \in DOMAIN Cells(l, rows)
      PROVE  /\ Place(l, w) \in 1..Len(l) /\ l[Place(l, w)].win = w /\ l[Place(l, w)].mapped
             /\ Place(l, w) - 1 \in 0..Len(l)
  <2>1. \E i \in Visible(l) : l[i].win = w
    BY <1>1
  <2>2. Place(l, w) \in Visible(l) /\ l[Place(l, w)].win = w
    BY <2>1 DEF Place
  <2> QED BY <1>3, <2>2
<1>5. ASSUME NEW v \in DOMAIN Cells(l, rows), NEW w \in DOMAIN Cells(l, rows), Place(l, v) < Place(l, w)
      PROVE  Cells(l, rows)[v] # Cells(l, rows)[w]
  <2>1. PICK i \in 1..Len(l), j \in 1..Len(l) :
                i = Place(l, v) /\ j = Place(l, w) /\ i < j /\ l[i].mapped /\ i - 1 \in 0..Len(l) /\ j - 1 \in 0..Len(l)
    BY <1>4, <1>5
  <2>2. Cardinality(SeenOf(l, i)) = Cardinality(SeenOf(l, i - 1)) + 1
    BY <2>1, SeenCounts
  <2>3. Cardinality(SeenOf(l, i)) <= Cardinality(SeenOf(l, j - 1))
    <3>1. i \in 0..Len(l) /\ i <= j - 1
      BY <1>3, <2>1
    <3> QED BY <2>1, <3>1, SeenCounts
  <2>4. Cardinality(SeenOf(l, i - 1)) # Cardinality(SeenOf(l, j - 1))
    <3>1. Cardinality(SeenOf(l, i - 1)) \in Nat /\ Cardinality(SeenOf(l, j - 1)) \in Nat
      BY <2>1, SeenCounts
    <3> QED BY <2>2, <2>3, <3>1
  <2>5. PICK a, b : f[i - 1] = <<a, b>> /\ rows * a + b = Cardinality(SeenOf(l, i - 1))
    BY <1>2, <2>1 DEF FitsUpTo
  <2>6. PICK c, d : f[j - 1] = <<c, d>> /\ rows * c + d = Cardinality(SeenOf(l, j - 1))
    BY <1>2, <2>1 DEF FitsUpTo
  <2>7. f[i - 1] # f[j - 1]
    BY <2>4, <2>5, <2>6
  <2> QED BY <1>1, <2>1, <2>7
<1>6. IsInjective(Cells(l, rows))
  <2>1. ASSUME NEW v \in DOMAIN Cells(l, rows), NEW w \in DOMAIN Cells(l, rows), Cells(l, rows)[v] = Cells(l, rows)[w]
        PROVE  v = w
    <3>1. PICK i \in 1..Len(l), j \in 1..Len(l) : i = Place(l, v) /\ j = Place(l, w) /\ l[i].win = v /\ l[j].win = w
      BY <1>4
    <3>2. ~(i < j) /\ ~(j < i)
      BY <1>5, <2>1, <3>1
    <3>3. i = j
      BY <1>3, <3>2
    <3> QED BY <3>1, <3>3
  <2> QED BY <2>1 DEF IsInjective
<1>7. ASSUME NEW w \in DOMAIN Cells(l, rows)
      PROVE  /\ Cells(l, rows)[w][1] < Columns(Cardinality(Visible(l)), rows)
             /\ Cells(l, rows)[w][2] < rows
  <2>1. PICK i \in 1..Len(l) : i = Place(l, w) /\ l[i].mapped /\ i - 1 \in 0..Len(l)
    BY <1>4
  <2>2. PICK c \in Nat : c = Cardinality(Visible(l))
    <3>1. Len(l) \in 0..Len(l)
      BY <1>3
    <3>2. Cardinality(SeenOf(l, Len(l))) \in Nat /\ SeenOf(l, Len(l)) = Visible(l)
      BY <3>1, SeenCounts
    <3> QED BY <3>2
  <2>3. PICK k \in Nat : k = Cardinality(SeenOf(l, i - 1))
    BY <2>1, SeenCounts
  <2>4. k + 1 <= c
    <3>1. Cardinality(SeenOf(l, i)) = k + 1
      BY <2>1, <2>3, SeenCounts
    <3>2. i \in 0..Len(l) /\ Len(l) \in 0..Len(l) /\ i <= Len(l)
      BY <1>3
    <3>3. Cardinality(SeenOf(l, i)) <= Cardinality(SeenOf(l, Len(l)))
      BY <3>2, SeenCounts
    <3>4. SeenOf(l, Len(l)) = Visible(l)
      BY SeenCounts
    <3> QED BY <2>2, <3>1, <3>3, <3>4
  <2>5. PICK a \in Nat, b \in Nat : f[i - 1] = <<a, b>> /\ b < rows /\ rows * a + b = k
    BY <1>2, <2>1, <2>3 DEF FitsUpTo
  <2>6. Cells(l, rows)[w] = <<a, b>>
    BY <1>1, <2>1, <2>5
  <2>7. a < Columns(c, rows)
    <3>1. PICK n \in Nat : n = c + rows - 1
      BY <2>4
    <3>2. n % rows \in 0..rows - 1 /\ n \div rows \in Nat /\ n = (rows * (n \div rows)) + (n % rows)
      BY DivisionBy
    <3>3. PICK q, r : q = n \div rows /\ r = n % rows
      OBVIOUS
    <3>4. q \in Nat /\ r \in 0..rows - 1 /\ n = (rows * q) + r
      BY <3>2, <3>3
    <3>5. CASE q <= a
      <4>1. rows * q <= rows * a /\ rows * q \in Nat /\ rows * a \in Nat
        BY <3>4, <3>5, TimesGrows
      <4>2. PICK x \in Nat, y \in Nat : x = rows * q /\ y = rows * a
        BY <4>1
      <4>3. x <= y /\ y + b = k /\ c + rows - 1 = x + r
        BY <2>5, <3>1, <3>4, <4>1, <4>2
      <4>4. FALSE
        BY <2>4, <3>4, <4>3
      <4> QED BY <4>4
    <3>6. Columns(c, rows) = q
      BY <3>1, <3>3 DEF Columns
    <3> QED BY <3>4, <3>5, <3>6
  <2> QED BY <2>2, <2>5, <2>6, <2>7
<1> QED BY <1>6, <1>7
-----------------------------------------------------------------------------
(* The invariant.                                                          *)

LEMMA NoneHas ==
    /\ \A e : ~Has(<<>>, e) /\ Once(<<>>, e)
    /\ \A S : ~HasAny(<<>>, S)
    /\ \A e, S : ~LastIs(<<>>, e, S)
    /\ \A e, f : Follows(<<>>, e, f) /\ Precedes(<<>>, e, f) /\ AllBefore(<<>>, e, f)
    /\ \A in, d : IsAway(<<>>, in, d)
<1>1. 1..Len(<<>>) = {}
  OBVIOUS
<1> QED BY <1>1 DEF Has, HasAny, Once, LastIs, Follows, Precedes, AllBefore, IsAway

LEMMA TrayStarts == ASSUME TrayInit PROVE TrayIndInv
<1>1. TypesInv
  <2>1. <<>> \in Seq(TrayRequest) /\ <<>> \in Seq({"dock", "info", "map", "moved", "destroyed"} \X Icon)
        /\ <<>> \in Seq([win : Icon, mapped : BOOLEAN])
    OBVIOUS
  <2> QED BY <2>1 DEF TrayInit, TypesInv, TrayTypeOK, Idle
<1>2. embedded = <<>> /\ Embedded = {} /\ Visible(embedded) = {} /\ 1..Len(embedded) = {}
  BY DEF TrayInit, Embedded, Visible
<1>3. \A v : handling # <<"dock", v>> /\ handling # <<"info", v>>
  BY <1>1, HandlingIs DEF TrayInit
<1>4. Listed
  BY <1>2, <1>3 DEF Listed
<1>5. ASSUME NEW w \in Icon PROVE IconInv(w)
  <2>1. trayPlace[w] = "root" /\ Exists(w) /\ ~Taken(w) /\ trayRequests = <<>> /\ trayEvents = <<>>
        /\ w \notin asksMap
    BY <1>2, <1>3 DEF TrayInit, Exists, Taken
  <2>2. PlaceOf(w) /\ GoneOf(w) /\ ReadOf(w)
    BY <1>3, <2>1, NoneHas DEF PlaceOf, GoneOf, ReadOf
  <2>3. SelectedOf(w) /\ AsksOf(w) /\ WantedOf(w)
    BY <1>3, <2>1, NoneHas DEF SelectedOf, AsksOf, WantedOf
  <2> QED BY <2>2, <2>3 DEF IconInv
<1>6. TrayLayoutInv
  BY <1>2, NoneHas DEF TrayLayoutInv, TrayInit
<1>7. DrawinInv
  <2>1. trayIn = Where(trayParent) /\ trayIn # "gone" /\ trayRequests = <<>> /\ collected = {} /\ trayDrawins = TrayDrawin
    BY DEF TrayInit, Where
  <2> QED BY <2>1, NoneHas DEF DrawinInv, DrawinOf
<1> QED BY <1>1, <1>4, <1>5, <1>6, <1>7 DEF TrayIndInv

LEMMA TrayIsKept == ASSUME TrayIndInv, [TrayNext]_trayVars PROVE TrayIndInv'
<1>1. TypesInv'
  BY TrayTypesStep DEF TrayIndInv
<1>2. Listed'
  BY <1>1, ListedStep DEF TrayIndInv
<1>3. \A w \in Icon : IconInv(w)'
  BY <1>1, IconStep DEF TrayIndInv
<1>4. TrayLayoutInv' /\ DrawinInv'
  BY LayoutStep, TrayDrawinStep DEF TrayIndInv
<1> QED BY <1>1, <1>2, <1>3, <1>4 DEF TrayIndInv

\* When all is quiet, an icon of the list is in the tray.
LEMMA QuietIcons ==
    ASSUME TrayIndInv, TrayQuiet, NEW w \in Icon
    PROVE  /\ w \in Embedded <=> trayPlace[w] = "tray"
           /\ w \in Embedded \ missed => IsFlagged(w) = Wanted(w)
<1>1. trayRequests = <<>> /\ trayEvents = <<>> /\ handling = Idle /\ IconInv(w)
  BY DEF TrayQuiet, TrayIndInv
<1>2. handling # <<"dock", w>> /\ handling # <<"info", w>>
  BY <1>1, HandlingIs DEF TrayIndInv
<1>3. Taken(w) <=> w \in Embedded
  BY <1>2 DEF Taken
<1>4. w \in Embedded => Exists(w)
  BY <1>1, <1>3, NoneHas DEF IconInv, GoneOf
<1>5. trayPlace[w] = "tray" => Exists(w)
  BY DEF Exists
<1>6. w \in Embedded <=> trayPlace[w] = "tray"
  BY <1>1, <1>3, <1>4, <1>5, NoneHas DEF IconInv, PlaceOf
<1>7. w \in Embedded \ missed => IsFlagged(w) = Wanted(w)
  BY <1>1, <1>2, <1>3, <1>4, NoneHas DEF IconInv, WantedOf
<1> QED BY <1>6, <1>7

LEMMA IndInvIsTrayInv == ASSUME TrayIndInv PROVE TrayInv
<1>1. TrayTypeOK /\ embedded \in Seq(Cell) /\ Embedded = {embedded[i].win : i \in 1..Len(embedded)}
      /\ DOMAIN embedded = 1..Len(embedded)
  BY EmbeddedIs, VisibleIs DEF TrayIndInv, TypesInv
<1>2. Embedded \subseteq Icon
  BY <1>1, VisibleIs
<1>3. EmbeddedIsInTheTray
  <2>1. TrayQuiet => Embedded = {w \in Icon : trayPlace[w] = "tray"}
    BY <1>2, QuietIcons
  <2>2. IsInjective([i \in DOMAIN embedded |-> embedded[i].win])
    BY <1>1 DEF IsInjective, TrayIndInv, Listed
  <2> QED BY <2>1, <2>2 DEF EmbeddedIsInTheTray
<1>4. trayRequests = <<>> => trayIn = Where(trayParent)
  BY NoneHas DEF TrayIndInv, DrawinInv, DrawinOf
<1>5. TrayOutlivesDrawins
  BY <1>4 DEF TrayOutlivesDrawins, TrayIndInv, DrawinInv, DrawinOf, Where
<1>6. ASSUME TrayQuiet, ~trayStale, Visible(embedded) # {}
      PROVE  \E rows \in TrayRows, l \in {embedded, Reverse(embedded)} :
                /\ trayMapped /\ cells = LayOut(l, rows).cells /\ traySize = LayOut(l, rows).size
                /\ \A w \in Embedded : w \in iconMapped <=> IsFlagged(w)
  <2>1. PICK rows \in TrayRows, l \in {embedded, Reverse(embedded)} : LaidOut(LayOut(l, rows))
    BY <1>6 DEF TrayIndInv, TrayLayoutInv
  <2>2. trayRequests = <<>>
    BY <1>6 DEF TrayQuiet
  <2>3. PICK layout : layout = LayOut(l, rows)
    OBVIOUS
  <2>4. trayMapped /\ cells = layout.cells /\ traySize = layout.size /\ \A w \in Embedded : w \in iconMapped <=> IsFlagged(w)
    BY <2>1, <2>2, <2>3, NoneHas DEF LaidOut
  <2> QED BY <2>3, <2>4
<1>7. TrayQuiet /\ Visible(embedded) = {} => ~trayMapped
  BY NoneHas DEF TrayIndInv, TrayLayoutInv, TrayQuiet
<1>8. IconsAreShownAsWanted
  <2>1. SUFFICES ASSUME TrayQuiet, ~trayStale, trayParent # NoDrawin, NEW w \in Embedded \ missed
                 PROVE  Viewable(w) = Wanted(w)
    BY DEF IconsAreShownAsWanted
  <2>2. w \in Icon /\ trayPlace[w] = "tray" /\ IsFlagged(w) = Wanted(w)
    BY <1>2, <2>1, QuietIcons
  <2>3. trayIn \in TrayDrawin
    BY <1>1, <1>4, <2>1 DEF TrayQuiet, Where, TrayTypeOK
  <2>4. Viewable(w) = IsFlagged(w)
    <3>1. Viewable(w) <=> IsFlagged(w)
      <4>1. CASE Visible(embedded) # {}
        BY <1>6, <2>1, <2>2, <2>3, <4>1 DEF Viewable
      <4>2. CASE Visible(embedded) = {}
        <5>1. ~IsFlagged(w)
          <6>1. PICK i \in 1..Len(embedded) : embedded[i].win = w
            BY <1>1
          <6>2. IsFlagged(w) = embedded[i].mapped
            BY <6>1, IsFlaggedIs DEF TrayIndInv
          <6>3. ~embedded[i].mapped
            BY <1>1, <4>2 DEF Visible
          <6> QED BY <6>2, <6>3
        <5> QED BY <1>7, <2>1, <4>2, <5>1 DEF Viewable
      <4> QED BY <4>1, <4>2
    <3> QED BY <3>1 DEF Viewable, IsFlagged
  <2> QED BY <2>2, <2>4
<1>9. CellsFit
  <2>1. SUFFICES ASSUME TrayQuiet, ~trayStale, trayMapped,
                        traySize[2] = 1 \/ \A i \in DOMAIN embedded : embedded[i].mapped
                 PROVE  /\ IsInjective(cells)
                        /\ \A w \in DOMAIN cells : cells[w][1] < traySize[1] /\ cells[w][2] < traySize[2]
    BY DEF CellsFit
  <2>2. PICK rows \in TrayRows, l \in {embedded, Reverse(embedded)} :
                cells = LayOut(l, rows).cells /\ traySize = LayOut(l, rows).size
    BY <1>6, <1>7, <2>1
  <2>3. l \in Seq(Cell) /\ rows \in Nat \ {0}
    BY <1>1, TrayAssumption, ReverseIs
  <2>4. cells = Cells(l, rows) /\ traySize = <<Columns(Cardinality(Visible(l)), rows), rows>>
    BY <2>2, <2>3, LayOutIs
  <2>5. traySize[1] = Columns(Cardinality(Visible(l)), rows) /\ traySize[2] = rows
    BY <2>4
  <2>6. rows = 1 \/ \A i \in 1..Len(l) : l[i].mapped
    <3>1. CASE l = embedded
      BY <1>1, <2>1, <2>5, <3>1
    <3>2. CASE l = Reverse(embedded)
      <4>1. Len(l) = Len(embedded) /\ \A i \in 1..Len(l) : l[i] = embedded[Len(embedded) - i + 1] /\ Len(embedded) - i + 1 \in 1..Len(embedded)
        BY <1>1, <3>2, ReverseIs
      <4> QED BY <1>1, <2>1, <2>5, <4>1
    <3> QED BY <3>1, <3>2
  <2>7. /\ IsInjective(Cells(l, rows))
        /\ \A w \in DOMAIN Cells(l, rows) :
              /\ Cells(l, rows)[w][1] < Columns(Cardinality(Visible(l)), rows)
              /\ Cells(l, rows)[w][2] < rows
    BY <2>3, <2>6, LayoutFits
  <2> QED BY <2>4, <2>5, <2>7
<1> QED BY <1>1, <1>3, <1>5, <1>8, <1>9 DEF TrayInv

\* Whatever applications do to their windows and whenever, the list that awesome keeps of its icons
\* (globalconf.embedded) is that of the tray once all is heard; the icons are shown as their
\* applications have last asked, each in a cell of its own; and the tray's window is where it was put
\* and survives the drawins that hold it.
THEOREM TrayHoldsItsIcons == TraySpec => []TrayInv
<1>1. TrayInit => TrayIndInv
  BY TrayStarts
<1>2. TrayIndInv /\ [TrayNext]_trayVars => TrayIndInv'
  BY TrayIsKept
<1>3. TrayIndInv => TrayInv
  BY IndInvIsTrayInv
<1> QED BY <1>1, <1>2, <1>3, PTL DEF TraySpec
=============================================================================

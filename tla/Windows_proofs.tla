--------------------------- MODULE Windows_proofs ---------------------------
(***************************************************************************)
(* Proofs about the components that deal with windows and the root window. *)
(*                                                                         *)
(* Layers: a client is in one special layer, unless a signal handler sets  *)
(* a flag that a setter around it has cleared. The invariant has to speak  *)
(* of all the setters that are running: while one of them is clearing,     *)
(* what is set is what it has yet to clear, its own flag, or the flag of   *)
(* the setter it has called for this and that has not come to its          *)
(* assignment; and a setter inside of it sets nothing else.                *)
(*                                                                         *)
(* Takeover: who has taken the selection and not ended forms a line in the *)
(* order of the timestamps, each waiting for the one before it.            *)
(*                                                                         *)
(* Wallpaper: a connection that is open is that of the innermost setting,  *)
(* and the pixmap of one that will keep it is found by ESETROOT_PMAP_ID.   *)
(*                                                                         *)
(* Workarea: a screen whose work area is not what the struts leave of it   *)
(* is one that a function that runs has yet to update. What it has yet to  *)
(* update may depend on where a drawin will be by then, and moving it      *)
(* makes up for what it takes from the others.                             *)
(*                                                                         *)
(* Drawing: whether or not a window or a titlebar is about to get another  *)
(* place, each of its pixels that can be seen shows what was drawn, or an  *)
(* Expose event for it is on its way.                                      *)
(***************************************************************************)
EXTENDS Layers, Takeover, Wallpaper, Workarea, Drawing, FiniteSetTheorems, SequenceTheorems, TLAPS

-----------------------------------------------------------------------------
(* Layers.                                                                 *)

\* The flag of the setter that the i-th one has called to reset it.
Called(i) == IF i + 1 \in DOMAIN calls /\ calls[i + 1].at = "clear" THEN {calls[i + 1].flag} ELSE {}

\* While a setter clears the other flags, what is set is what it has yet to clear, or what
\* it is about to set; and so is what a setter inside of it is about to set.
ClearingInv ==
    \A i \in DOMAIN calls : Setting(calls[i]) =>
        /\ layers \subseteq Range(calls[i].clear) \cup {calls[i].flag} \cup Called(i)
        /\ \A j \in DOMAIN calls :
               j > i /\ Setting(calls[j]) => calls[j].flag \in Range(calls[i].clear) \cup {calls[i].flag}

\* A change of the layers that has not been stacked is announced, or a call of
\* client_set_fullscreen that has still to return will see to it.
WillRestack == \E i \in DOMAIN calls : calls[i].at = "signals" /\ calls[i].flag = "fullscreen"
RestackInv == layers # stacked => restack \/ WillRestack

IInv == LayersTypeOK /\ (~crossed => AtMostOne(layers) /\ ClearingInv) /\ RestackInv

-----------------------------------------------------------------------------

LEMMA OthersFacts ==
    \A f \in Flags : Others[f] \in Seq(Flags) /\ Flags \ {f} \subseteq Range(Others[f])
<1> SUFFICES ASSUME NEW f \in Flags
             PROVE  Others[f] \in Seq(Flags) /\ Flags \ {f} \subseteq Range(Others[f])
  OBVIOUS
<1>1. \A a, b, c \in Flags : <<a, b, c>> \in Seq(Flags) /\ Range(<<a, b, c>>) = {a, b, c}
  BY DEF Range
<1>2. CASE f = "fullscreen"
  BY <1>1, <1>2 DEF Others, Flags
<1>3. CASE f = "above"
  BY <1>1, <1>3 DEF Others, Flags
<1>4. CASE f = "below"
  BY <1>1, <1>4 DEF Others, Flags
<1>5. CASE f = "ontop"
  BY <1>1, <1>5 DEF Others, Flags
<1>6. QED
  BY <1>2, <1>3, <1>4, <1>5 DEF Flags

\* Clearing the first flag of the list: it and the rest make up the list.
LEMMA HeadAndTail ==
    ASSUME NEW s \in Seq(Flags), s # <<>>
    PROVE  /\ Head(s) \in Flags /\ Tail(s) \in Seq(Flags)
           /\ Range(s) \subseteq Range(Tail(s)) \cup {Head(s)}
<1>1. Head(s) \in Flags /\ Tail(s) \in Seq(Flags)
  OBVIOUS
<1>2. ASSUME NEW i \in DOMAIN s, s[i] # Head(s) PROVE s[i] \in Range(Tail(s))
  <2>1. i - 1 \in DOMAIN Tail(s) /\ Tail(s)[i - 1] = s[i]
    BY <1>2
  <2>2. QED
    BY <2>1 DEF Range
<1>3. QED
  BY <1>1, <1>2 DEF Range

\* What follows a setter that is not the innermost one.
LEMMA NextIndex ==
    ASSUME NEW n \in Nat
    PROVE  /\ \A i \in 1..n : i # n => i + 1 \in 1..n /\ i + 1 \in 1..(n + 1) /\ n > i
           /\ \A i \in 1..(n - 1) : i + 1 # n => i + 1 \in 1..(n - 1) /\ i + 1 \in 1..n
  OBVIOUS

\* Pushing, replacing the top, and popping.
LEMMA PushFacts ==
    ASSUME NEW S, NEW s \in Seq(S), NEW e \in S
    PROVE  /\ Append(s, e) \in Seq(S) /\ Len(Append(s, e)) = Len(s) + 1
           /\ Append(s, e)[Len(s) + 1] = e
           /\ \A i \in 1..Len(s) : Append(s, e)[i] = s[i]
  OBVIOUS

LEMMA ReplaceFacts ==
    ASSUME NEW S, NEW s \in Seq(S), s # <<>>, NEW e \in S,
           NEW t, t = [s EXCEPT ![Len(s)] = e]
    PROVE  /\ Len(s) \in Nat \ {0}
           /\ t \in Seq(S) /\ Len(t) = Len(s) /\ DOMAIN t = DOMAIN s
           /\ t[Len(s)] = e
           /\ \A i \in 1..Len(s) : i # Len(s) => t[i] = s[i]
  OBVIOUS

LEMMA PopFacts ==
    ASSUME NEW S, NEW s \in Seq(S), s # <<>>,
           NEW t, t = SubSeq(s, 1, Len(s) - 1)
    PROVE  /\ Len(s) \in Nat \ {0}
           /\ t \in Seq(S) /\ Len(t) = Len(s) - 1
           /\ \A i \in 1..Len(t) : i \in 1..Len(s) /\ t[i] = s[i]
<1>1. Len(s) \in Nat /\ Len(s) # 0 /\ DOMAIN s = 1..Len(s) /\ \A i \in 1..Len(s) : s[i] \in S
  OBVIOUS
<1>2. 1 \in 1..Len(s)+1 /\ Len(s) - 1 \in 0..Len(s)
  BY <1>1
<1>3. t = [i \in 1..(Len(s) - 1) |-> s[i]]
  BY <1>1, <1>2
<1>4. Len(s) - 1 \in Nat /\ \A i \in 1..(Len(s) - 1) : s[i] \in S /\ i \in 1..Len(s)
  BY <1>1
<1>5. t \in Seq(S) /\ Len(t) = Len(s) - 1
  <2>1. t \in [1..(Len(s) - 1) -> S]
    BY <1>3, <1>4
  <2>2. \A n \in Nat : \A u \in [1..n -> S] : u \in Seq(S) /\ Len(u) = n
    OBVIOUS
  <2>3. QED
    BY <1>4, <2>1, <2>2
<1>6. QED
  BY <1>1, <1>3, <1>4, <1>5

LEMMA TopTyped ==
    ASSUME LayersTypeOK, calls # <<>>
    PROVE  /\ Len(calls) \in Nat \ {0} /\ Top \in Frame /\ Len(calls) \in DOMAIN calls
           /\ (Top.at = "signals" \/ ~Top.value => Top.clear = <<>>)
BY DEF LayersTypeOK, Top

-----------------------------------------------------------------------------
(* One lemma per action.                                                   *)

\* A setter is called: from a key binding, or by a handler.
LEMMA CallKeeps ==
    ASSUME IInv, NEW flag \in Flags, NEW value \in BOOLEAN, Call(flag, value)
    PROVE  IInv'
<1> DEFINE frame == [flag |-> flag, value |-> value,
                     clear |-> IF value THEN Others[flag] ELSE <<>>, at |-> "clear"]
<1>1. calls' = Append(calls, frame) /\ (flag \in layers) # value /\ UNCHANGED <<layers, restack, stacked>>
  BY DEF Call, Enter
<1>2. /\ frame \in Frame /\ (~value => frame.clear = <<>>) /\ (value => frame.clear = Others[flag])
      /\ frame.at = "clear" /\ frame.value = value /\ frame.flag = flag
  BY OthersFacts DEF Frame
<1> HIDE DEF frame
<1>3. calls \in Seq(Frame) /\ Len(calls) \in Nat /\ DOMAIN calls = 1..Len(calls)
  BY DEF IInv, LayersTypeOK
<1>4. /\ calls' \in Seq(Frame) /\ DOMAIN calls' = 1..(Len(calls) + 1)
      /\ calls'[Len(calls) + 1] = frame
      /\ \A i \in 1..Len(calls) : calls'[i] = calls[i]
  BY <1>1, <1>2, <1>3, PushFacts
<1>5. crossed' \in BOOLEAN
  BY DEF Call, IInv, LayersTypeOK
<1>6. LayersTypeOK'
  BY <1>1, <1>2, <1>3, <1>4, <1>5 DEF IInv, LayersTypeOK
<1>7. RestackInv'
  BY <1>1, <1>3, <1>4 DEF IInv, RestackInv, WillRestack
<1>8. ASSUME ~crossed' PROVE AtMostOne(layers)' /\ ClearingInv'
  <2>1. AtMostOne(layers)
    BY <1>8 DEF Call, IInv, LayersTypeOK
  <2>2. calls # <<>> => ClearingInv /\ Top.at = "signals"
    BY <1>8 DEF Call, IInv
  <2>3. ASSUME NEW i \in 1..(Len(calls) + 1), Setting(calls'[i])
        PROVE  /\ layers' \subseteq Range(calls'[i].clear) \cup {calls'[i].flag} \cup Called(i)'
               /\ \A j \in 1..(Len(calls) + 1) : j > i /\ Setting(calls'[j]) =>
                      calls'[j].flag \in Range(calls'[i].clear) \cup {calls'[i].flag}
    <3>1. CASE i = Len(calls) + 1
      <4>1. value /\ frame.clear = Others[flag]
        BY <1>2, <1>4, <2>3, <3>1 DEF Setting
      <4>2. layers \subseteq Flags /\ Flags \subseteq Range(Others[flag]) \cup {flag}
        BY OthersFacts DEF IInv, LayersTypeOK
      <4>3. \A j \in 1..(Len(calls) + 1) : ~(j > i)
        BY <1>3, <3>1
      <4>4. QED
        BY <1>1, <1>2, <1>4, <3>1, <4>1, <4>2, <4>3
    <3>2. CASE i \in 1..Len(calls)
      <4>1. calls # <<>> /\ calls'[i] = calls[i] /\ Setting(calls[i])
        BY <1>3, <1>4, <2>3, <3>2
      <4>2. i # Len(calls)
        BY <2>2, <4>1 DEF Setting, Top
      <4>3. i + 1 \in 1..Len(calls) /\ i + 1 \in 1..(Len(calls) + 1)
        BY <1>3, <3>2, <4>2, NextIndex
      <4>4. Called(i)' = Called(i)
        BY <1>3, <1>4, <4>3 DEF Called
      <4>5. layers \subseteq Range(calls[i].clear) \cup {calls[i].flag} \cup Called(i)
        BY <1>3, <2>2, <3>2, <4>1 DEF ClearingInv
      <4>6. ASSUME NEW j \in 1..(Len(calls) + 1), j > i, Setting(calls'[j])
            PROVE  calls'[j].flag \in Range(calls[i].clear) \cup {calls[i].flag}
        <5>1. CASE j \in 1..Len(calls)
          BY <1>3, <1>4, <2>2, <3>2, <4>1, <4>6, <5>1 DEF ClearingInv
        <5>2. CASE j = Len(calls) + 1
          <6>1. value
            BY <1>2, <1>4, <4>6, <5>2 DEF Setting
          <6>2. ~ClearedAlready(calls[i], flag)
            BY <1>3, <1>8, <3>2, <4>1, <6>1 DEF Call
          <6>3. QED
            BY <1>2, <1>4, <4>1, <5>2, <6>2 DEF ClearedAlready
        <5>3. QED
          BY <1>3, <5>1, <5>2
      <4>7. QED
        BY <1>1, <4>1, <4>4, <4>5, <4>6
    <3>3. QED
      BY <1>3, <3>1, <3>2
  <2>4. ClearingInv'
    BY <1>4, <2>3 DEF ClearingInv
  <2>5. QED
    BY <1>1, <2>1, <2>4 DEF AtMostOne
<1>9. QED
  BY <1>6, <1>7, <1>8 DEF IInv

\* A setter clears the next flag: it calls another setter if the flag is set.
LEMMA ClearNextKeeps ==
    ASSUME IInv, ClearNext PROVE IInv'
<1> DEFINE rest == [Top EXCEPT !.clear = Tail(@)]
           next == [flag |-> Head(Top.clear), value |-> FALSE, clear |-> <<>>, at |-> "clear"]
<1>1. /\ calls # <<>> /\ Top.at = "clear" /\ Top.clear # <<>> /\ UNCHANGED <<layers, restack, stacked, crossed>>
      /\ calls' = IF Head(Top.clear) \in layers THEN Append(WithTop(rest), next) ELSE WithTop(rest)
  BY DEF ClearNext, Enter
<1>2. /\ Top \in Frame /\ Len(calls) \in Nat \ {0} /\ calls \in Seq(Frame) /\ DOMAIN calls = 1..Len(calls)
      /\ Top = calls[Len(calls)] /\ Top.value
  BY <1>1, TopTyped DEF IInv, LayersTypeOK, Top
<1>3. /\ Head(Top.clear) \in Flags /\ Tail(Top.clear) \in Seq(Flags)
      /\ Range(Top.clear) \subseteq Range(Tail(Top.clear)) \cup {Head(Top.clear)}
  BY <1>1, <1>2, HeadAndTail DEF Frame
<1>4. rest \in Frame /\ rest.at = "clear" /\ rest.value /\ rest.clear = Tail(Top.clear) /\ rest.flag = Top.flag
  BY <1>1, <1>2, <1>3 DEF Frame
<1>5. next \in Frame /\ next.at = "clear" /\ next.clear = <<>> /\ ~next.value /\ next.flag = Head(Top.clear)
  BY <1>3 DEF Frame
<1> HIDE DEF rest, next
<1>6. PICK s : s = WithTop(rest)
  OBVIOUS
<1>7. /\ s \in Seq(Frame) /\ Len(s) = Len(calls) /\ DOMAIN s = 1..Len(calls)
      /\ s[Len(calls)] = rest
      /\ \A i \in 1..Len(calls) : i # Len(calls) => s[i] = calls[i]
  BY <1>1, <1>2, <1>4, <1>6, ReplaceFacts DEF WithTop
<1>8. /\ \A i \in 1..Len(calls) : s[i].at = "signals" \/ ~s[i].value => s[i].clear = <<>>
      /\ \A i \in 1..Len(calls) : calls[i].at = "signals" => s[i] = calls[i]
      /\ \A i \in 1..Len(calls) : s[i].at = calls[i].at /\ s[i].flag = calls[i].flag /\ (Setting(s[i]) <=> Setting(calls[i]))
  BY <1>1, <1>2, <1>4, <1>7 DEF IInv, LayersTypeOK, Setting
<1>9. CASE Head(Top.clear) \notin layers
  <2>1. calls' = s
    BY <1>1, <1>6, <1>9
  <2>2. LayersTypeOK' /\ RestackInv'
    BY <1>1, <1>2, <1>7, <1>8, <2>1 DEF IInv, RestackInv, LayersTypeOK, WillRestack
  <2>3. ASSUME ~crossed PROVE ClearingInv'
    <3>1. ASSUME NEW i \in 1..Len(calls), Setting(s[i])
          PROVE  /\ layers \subseteq Range(s[i].clear) \cup {s[i].flag} \cup Called(i)'
                 /\ \A j \in 1..Len(calls) : j > i /\ Setting(s[j]) => s[j].flag \in Range(s[i].clear) \cup {s[i].flag}
      <4>1. Setting(calls[i]) /\ ClearingInv
        BY <1>8, <2>3, <3>1 DEF IInv
      <4>2. /\ layers \subseteq Range(calls[i].clear) \cup {calls[i].flag} \cup Called(i)
            /\ \A j \in 1..Len(calls) : j > i /\ Setting(calls[j]) => calls[j].flag \in Range(calls[i].clear) \cup {calls[i].flag}
        BY <1>2, <4>1 DEF ClearingInv
      <4>3. CASE i = Len(calls)
        <5>1. i + 1 \notin 1..Len(calls) /\ \A j \in 1..Len(calls) : ~(j > i)
          BY <1>2, <4>3
        <5>2. Called(i) = {}
          BY <1>2, <5>1 DEF Called
        <5>3. QED
          BY <1>2, <1>3, <1>4, <1>7, <1>9, <4>2, <4>3, <5>1, <5>2
      <4>4. CASE i # Len(calls)
        <5>1. s[i] = calls[i] /\ i + 1 \in 1..Len(calls)
          <6>1. Len(calls) \in Nat
            BY <1>2
          <6>2. QED
            BY <1>7, <3>1, <4>4, <6>1, NextIndex
        <5>2. Called(i)' = Called(i)
          BY <1>2, <1>7, <1>8, <2>1, <5>1 DEF Called
        <5>3. QED
          BY <1>8, <4>2, <5>1, <5>2
      <4>5. QED
        BY <4>3, <4>4
    <3>2. QED
      BY <1>1, <1>7, <2>1, <3>1 DEF ClearingInv
  <2>4. QED
    BY <1>1, <2>2, <2>3 DEF IInv, AtMostOne
<1>10. CASE Head(Top.clear) \in layers
  <2>1. calls' = Append(s, next)
    BY <1>1, <1>6, <1>10
  <2>2. /\ calls' \in Seq(Frame) /\ DOMAIN calls' = 1..(Len(calls) + 1)
        /\ calls'[Len(calls) + 1] = next
        /\ \A i \in 1..Len(calls) : calls'[i] = s[i]
    <3>1. Len(s) \in Nat /\ DOMAIN s = 1..Len(s)
      BY <1>2, <1>7
    <3>2. /\ Append(s, next) \in Seq(Frame) /\ Len(Append(s, next)) = Len(s) + 1
          /\ Append(s, next)[Len(s) + 1] = next
          /\ \A i \in 1..Len(s) : Append(s, next)[i] = s[i]
      <4>1. s \in Seq(Frame) /\ next \in Frame
        BY <1>5, <1>7
      <4>2. QED
        BY ONLY <4>1, PushFacts
    <3>3. DOMAIN Append(s, next) = 1..(Len(s) + 1)
      BY <3>2
    <3>4. QED
      BY <1>2, <1>7, <2>1, <3>2, <3>3
  <2>3. LayersTypeOK'
    BY <1>1, <1>2, <1>5, <1>8, <2>2 DEF IInv, LayersTypeOK
  <2>4. RestackInv'
    BY <1>1, <1>2, <1>8, <2>2 DEF IInv, RestackInv, WillRestack
  <2>5. ASSUME ~crossed PROVE ClearingInv'
    <3>1. ASSUME NEW i \in 1..(Len(calls) + 1), Setting(calls'[i])
          PROVE  /\ layers \subseteq Range(calls'[i].clear) \cup {calls'[i].flag} \cup Called(i)'
                 /\ \A j \in 1..(Len(calls) + 1) : j > i /\ Setting(calls'[j])
                        => calls'[j].flag \in Range(calls'[i].clear) \cup {calls'[i].flag}
      <4>1. i \in 1..Len(calls)
        BY <1>2, <1>5, <2>2, <3>1 DEF Setting
      <4>2. Setting(calls[i]) /\ ClearingInv /\ calls'[i] = s[i]
        BY <1>8, <2>2, <2>5, <3>1, <4>1 DEF IInv
      <4>3. /\ layers \subseteq Range(calls[i].clear) \cup {calls[i].flag} \cup Called(i)
            /\ \A j \in 1..Len(calls) : j > i /\ Setting(calls[j]) => calls[j].flag \in Range(calls[i].clear) \cup {calls[i].flag}
        BY <1>2, <4>1, <4>2 DEF ClearingInv
      <4>4. \A j \in 1..(Len(calls) + 1) : Setting(calls'[j]) =>
                j \in 1..Len(calls) /\ Setting(calls[j]) /\ calls'[j].flag = calls[j].flag
        BY <1>2, <1>5, <1>8, <2>2 DEF Setting
      <4>5. CASE i = Len(calls)
        <5>1. i + 1 \notin 1..Len(calls) /\ i + 1 \in 1..(Len(calls) + 1) /\ \A j \in 1..Len(calls) : ~(j > i)
          BY <1>2, <4>5
        <5>2. Called(i) = {} /\ Called(i)' = {Head(Top.clear)}
          BY <1>2, <1>5, <2>2, <4>5, <5>1 DEF Called
        <5>3. calls'[i].clear = Tail(Top.clear) /\ calls'[i].flag = calls[i].flag
          BY <1>2, <1>4, <1>7, <4>2, <4>5
        <5>4. QED
          BY <1>2, <1>3, <4>3, <4>4, <4>5, <5>1, <5>2, <5>3
      <4>6. CASE i # Len(calls)
        <5>1. s[i] = calls[i] /\ i + 1 \in 1..Len(calls) /\ i + 1 \in 1..(Len(calls) + 1)
          <6>1. Len(calls) \in Nat
            BY <1>2
          <6>2. QED
            BY <1>7, <4>1, <4>6, <6>1, NextIndex
        <5>2. Called(i)' = Called(i)
          BY <1>2, <1>8, <2>2, <5>1 DEF Called
        <5>3. QED
          BY <4>2, <4>3, <4>4, <5>1, <5>2
      <4>7. QED
        BY <4>5, <4>6
    <3>2. QED
      BY <1>1, <2>2, <3>1 DEF ClearingInv
  <2>6. QED
    BY <1>1, <2>3, <2>4, <2>5 DEF IInv, AtMostOne
<1>11. QED
  BY <1>9, <1>10

\* The flag is assigned: of those that are setting one, the others have it yet to clear or
\* are about to set it themselves.
LEMMA AssignKeeps ==
    ASSUME IInv, Assign PROVE IInv'
<1> DEFINE after == [Top EXCEPT !.at = "signals"]
<1>1. /\ calls # <<>> /\ Top.at = "clear" /\ Top.clear = <<>> /\ UNCHANGED <<stacked, crossed>>
      /\ layers' = (IF Top.value THEN layers \cup {Top.flag} ELSE layers \ {Top.flag})
      /\ restack' = (restack \/ Top.flag # "fullscreen")
      /\ calls' = [calls EXCEPT ![Len(calls)] = after]
  BY DEF Assign, WithTop
<1>2. /\ Top \in Frame /\ Len(calls) \in Nat \ {0} /\ calls \in Seq(Frame) /\ DOMAIN calls = 1..Len(calls)
      /\ Top = calls[Len(calls)]
  BY <1>1, TopTyped DEF IInv, LayersTypeOK, Top
<1>3. after \in Frame /\ after.at = "signals" /\ after.clear = <<>> /\ after.flag = Top.flag
  BY <1>1, <1>2 DEF Frame
<1> HIDE DEF after
<1>4. /\ calls' \in Seq(Frame) /\ DOMAIN calls' = 1..Len(calls)
      /\ calls'[Len(calls)] = after
      /\ \A i \in 1..Len(calls) : i # Len(calls) => calls'[i] = calls[i]
  BY <1>1, <1>2, <1>3, ReplaceFacts
<1>5. LayersTypeOK'
  <2>1. Top.flag \in Flags
    BY <1>2 DEF Frame
  <2>2. layers' \subseteq Flags /\ restack' \in BOOLEAN
    BY <1>1, <2>1 DEF IInv, LayersTypeOK
  <2>3. QED
    BY <1>1, <1>2, <1>3, <1>4, <2>2 DEF IInv, LayersTypeOK
<1>6. RestackInv'
  <2>1. CASE Top.flag # "fullscreen"
    BY <1>1, <2>1 DEF RestackInv
  <2>2. CASE Top.flag = "fullscreen"
    <3>1. Len(calls) \in DOMAIN calls'
      <4>1. DOMAIN calls' = 1..Len(calls) /\ Len(calls) \in Nat \ {0}
        BY <1>2, <1>4
      <4>2. QED
        BY ONLY <4>1
    <3>2. QED
      BY <1>3, <1>4, <2>2, <3>1 DEF RestackInv, WillRestack
  <2>3. QED
    BY <2>1, <2>2
<1>7. ASSUME ~crossed PROVE AtMostOne(layers)' /\ ClearingInv'
  <2>1. ClearingInv /\ AtMostOne(layers)
    BY <1>7 DEF IInv
  <2>2. Len(calls) \in 1..Len(calls) /\ Len(calls) + 1 \notin 1..Len(calls)
    BY <1>2
  <2>3. ASSUME Top.value PROVE layers' = {Top.flag}
    <3>1. Setting(calls[Len(calls)])
      BY <1>1, <1>2, <2>3 DEF Setting
    <3>2. Called(Len(calls)) = {} /\ Range(Top.clear) = {}
      BY <1>1, <1>2, <2>2 DEF Called, Range
    <3>3. layers \subseteq {Top.flag}
      BY <1>2, <2>1, <2>2, <3>1, <3>2 DEF ClearingInv
    <3>4. QED
      BY <1>1, <2>3, <3>3
  <2>4. AtMostOne(layers)'
    <3>1. CASE Top.value
      BY <2>3, <3>1 DEF AtMostOne
    <3>2. CASE ~Top.value
      BY <1>1, <2>1, <3>2 DEF AtMostOne
    <3>3. QED
      BY <3>1, <3>2
  <2>5. ASSUME NEW i \in 1..Len(calls), Setting(calls'[i])
        PROVE  /\ layers' \subseteq Range(calls'[i].clear) \cup {calls'[i].flag} \cup Called(i)'
               /\ \A j \in 1..Len(calls) : j > i /\ Setting(calls'[j])
                      => calls'[j].flag \in Range(calls'[i].clear) \cup {calls'[i].flag}
    <3>1. i # Len(calls)
      BY <1>3, <1>4, <2>5 DEF Setting
    <3>2. calls'[i] = calls[i] /\ Setting(calls[i]) /\ i + 1 \in 1..Len(calls) /\ Len(calls) > i
      <4>1. calls'[i] = calls[i] /\ Setting(calls[i])
        BY <1>4, <2>5, <3>1
      <4>2. Len(calls) \in Nat
        BY <1>2
      <4>3. QED
        BY <3>1, <4>1, <4>2, NextIndex
    <3>3. /\ layers \subseteq Range(calls[i].clear) \cup {calls[i].flag} \cup Called(i)
          /\ \A j \in 1..Len(calls) : j > i /\ Setting(calls[j]) => calls[j].flag \in Range(calls[i].clear) \cup {calls[i].flag}
      BY <1>2, <2>1, <3>2 DEF ClearingInv
    <3>4. \A j \in 1..Len(calls) : Setting(calls'[j]) => calls'[j] = calls[j]
      BY <1>3, <1>4 DEF Setting
    <3>5. layers' \subseteq Range(calls[i].clear) \cup {calls[i].flag} \cup Called(i)'
      <4>1. CASE Top.value
        <5>1. Setting(calls[Len(calls)])
          BY <1>1, <1>2, <4>1 DEF Setting
        <5>2. Top.flag \in Range(calls[i].clear) \cup {calls[i].flag}
          BY <1>2, <2>2, <3>2, <3>3, <5>1
        <5>3. QED
          BY <2>3, <4>1, <5>2
      <4>2. CASE ~Top.value /\ i + 1 = Len(calls)
        <5>1. Called(i) = {Top.flag}
          BY <1>1, <1>2, <2>2, <4>2 DEF Called
        <5>2. QED
          BY <1>1, <3>3, <4>2, <5>1
      <4>3. CASE ~Top.value /\ i + 1 # Len(calls)
        <5>1. calls'[i + 1] = calls[i + 1]
          BY <1>4, <3>2, <4>3
        <5>2. Called(i)' = Called(i)
          BY <1>2, <1>4, <3>2, <5>1 DEF Called
        <5>3. QED
          BY <1>1, <3>3, <4>3, <5>2
      <4>4. QED
        BY <4>1, <4>2, <4>3
    <3>6. QED
      BY <3>2, <3>3, <3>4, <3>5
  <2>6. ClearingInv'
    BY <1>4, <2>5 DEF ClearingInv
  <2>7. QED
    BY <2>4, <2>6
<1>8. QED
  BY <1>1, <1>5, <1>6, <1>7 DEF IInv

\* A setter returns after its signals.
LEMMA ReturnKeeps ==
    ASSUME IInv, Return PROVE IInv'
<1>1. /\ calls # <<>> /\ Top.at = "signals" /\ UNCHANGED <<layers, stacked, crossed>>
      /\ calls' = SubSeq(calls, 1, Len(calls) - 1)
      /\ restack' = (restack \/ Top.flag = "fullscreen")
  BY DEF Return
<1>2. /\ Len(calls) \in Nat \ {0} /\ calls \in Seq(Frame) /\ DOMAIN calls = 1..Len(calls)
      /\ Top = calls[Len(calls)]
  BY <1>1, TopTyped DEF IInv, LayersTypeOK, Top
<1>3. /\ calls' \in Seq(Frame) /\ DOMAIN calls' = 1..(Len(calls) - 1)
      /\ \A i \in 1..(Len(calls) - 1) : calls'[i] = calls[i] /\ i \in 1..Len(calls)
  <2>1. \A t : t = SubSeq(calls, 1, Len(calls) - 1) =>
             /\ t \in Seq(Frame) /\ Len(t) = Len(calls) - 1
             /\ \A i \in 1..Len(t) : i \in 1..Len(calls) /\ t[i] = calls[i]
    BY ONLY <1>1, <1>2, PopFacts
  <2>2. QED
    BY <1>1, <2>1
<1>4. LayersTypeOK'
  BY <1>1, <1>2, <1>3 DEF IInv, LayersTypeOK
<1>5. \A i \in 1..Len(calls) : i = Len(calls) \/ i \in 1..(Len(calls) - 1)
  <2>1. Len(calls) \in Nat
    BY <1>2
  <2>2. QED
    BY <2>1
<1>6. RestackInv'
  BY <1>1, <1>2, <1>3, <1>5 DEF IInv, RestackInv, WillRestack
<1>7. ASSUME ~crossed PROVE ClearingInv'
  <2>1. ASSUME NEW i \in 1..(Len(calls) - 1), Setting(calls[i])
        PROVE  /\ layers \subseteq Range(calls[i].clear) \cup {calls[i].flag} \cup Called(i)'
               /\ \A j \in 1..(Len(calls) - 1) : j > i /\ Setting(calls[j])
                      => calls[j].flag \in Range(calls[i].clear) \cup {calls[i].flag}
    <3>1. /\ layers \subseteq Range(calls[i].clear) \cup {calls[i].flag} \cup Called(i)
          /\ \A j \in 1..Len(calls) : j > i /\ Setting(calls[j]) => calls[j].flag \in Range(calls[i].clear) \cup {calls[i].flag}
      BY <1>2, <1>3, <1>7, <2>1 DEF IInv, ClearingInv
    <3>2. Called(i) \subseteq Called(i)'
      <4>1. CASE i + 1 = Len(calls)
        BY <1>1, <1>2, <4>1 DEF Called
      <4>2. CASE i + 1 # Len(calls)
        <5>1. i + 1 \in 1..(Len(calls) - 1) /\ i + 1 \in 1..Len(calls)
          <6>1. Len(calls) \in Nat
            BY <1>2
          <6>2. QED
            BY <4>2, <6>1, NextIndex
        <5>2. QED
          BY <1>2, <1>3, <5>1 DEF Called
      <4>3. QED
        BY <4>1, <4>2
    <3>3. QED
      BY <1>3, <3>1, <3>2
  <2>2. QED
    BY <1>1, <1>3, <2>1 DEF ClearingInv
<1>8. QED
  BY <1>1, <1>4, <1>6, <1>7 DEF IInv, AtMostOne

LEMMA StackRefreshKeeps ==
    ASSUME IInv, StackRefresh PROVE IInv'
BY DEF StackRefresh, IInv, LayersTypeOK, ClearingInv, Called, AtMostOne, RestackInv

-----------------------------------------------------------------------------

LEMMA InitIInv == LayersInit => IInv
<1> SUFFICES ASSUME LayersInit PROVE IInv
  OBVIOUS
<1>1. layers = {} /\ stacked = {} /\ calls = <<>> /\ restack = FALSE /\ crossed = FALSE
  BY DEF LayersInit
<1>2. calls \in Seq(Frame) /\ DOMAIN calls = {}
  BY <1>1
<1>3. QED
  BY <1>1, <1>2 DEF IInv, LayersTypeOK, ClearingInv, AtMostOne, RestackInv

LEMMA NextIInv == IInv /\ [LayersNext]_layersVars => IInv'
<1> SUFFICES ASSUME IInv, [LayersNext]_layersVars PROVE IInv'
  OBVIOUS
<1>1. ASSUME NEW flag \in Flags, NEW value \in BOOLEAN, Call(flag, value) PROVE IInv'
  BY <1>1, CallKeeps
<1>2. CASE UNCHANGED layersVars
  BY <1>2 DEF layersVars, IInv, LayersTypeOK, ClearingInv, Called, AtMostOne, RestackInv, WillRestack
<1>3. QED
  BY <1>1, <1>2, ClearNextKeeps, AssignKeeps, ReturnKeeps, StackRefreshKeeps DEF LayersNext

THEOREM Inductive == LayersSpec => []IInv
<1>1. IInv /\ [LayersNext]_layersVars => IInv'
  BY NextIInv
<1>2. QED
  BY InitIInv, <1>1, PTL DEF LayersSpec

\* client_set_fullscreen, _above, _below and _ontop leave a client in one special layer
\* at most, at rest and for every signal handler, whatever the handlers set or reset and
\* however many setters run inside of one another, unless a handler sets a flag that a
\* setter around it has cleared already.
THEOREM TwoLayersOnlyCrossed == LayersSpec => []OneLayerUnlessCrossed
<1>1. QED BY Inductive, PTL DEF IInv, OneLayerUnlessCrossed

\* A change of the layers is never forgotten by the stacking, whatever the handlers
\* of property::fullscreen and the others call, and although client_set_fullscreen
\* asks for the stacking only after its signals.
THEOREM ChangesAreStacked == LayersSpec => []LayerChangesRestack
<1>1. IInv => LayerChangesRestack
  BY DEF IInv, RestackInv, WillRestack, LayerChangesRestack
<1>2. QED BY <1>1, Inductive, PTL

-----------------------------------------------------------------------------
(* Takeover.                                                               *)

\* Who has taken the selection and not ended since, and the window of such a process.
Takers == {w \in Process : phase[w] \in {"waiting", "managing", "quitting"}}
WindowOf(w) == <<w, started[w]>>

\* Timestamps name instances.
InstancesInv ==
    /\ phase \in [Process -> {"absent", "timestamp", "looked", "waiting", "managing", "quitting"}]
    /\ started \in [Process -> 0..clock] /\ clock \in 0..MaxStarts /\ ownerTime \in 0..clock
    /\ wmOwner \in Process \cup {Nobody} /\ redirect \in Process \cup {Nobody}
    /\ cleared \subseteq Process /\ refused \subseteq Process
    /\ seen \in [Process -> {Nobody} \cup (Process \X (1..clock))]
    /\ \A w \in Process : phase[w] = "absent" <=> started[w] = 0
    /\ \A v, w \in Process : started[v] = started[w] /\ v # w => started[v] = 0
    /\ wmOwner # Nobody => wmOwner \in Takers /\ ownerTime = started[wmOwner]
    /\ \A w \in Process : redirect = w <=> phase[w] \in {"managing", "quitting"}
    /\ raced \in BOOLEAN

\* An owner seen that has been restarted since is younger.
SeenInv ==
    \A w \in Process : phase[w] = "looked" /\ seen[w] # Nobody =>
        LET u == seen[w][1] IN started[u] \in {0, seen[w][2]} \/ started[u] > started[w]

\* They form a line, in the order of their timestamps, each waiting for the one before it:
\* the first may have the redirect, and the last owns the selection.
LineInv ==
    /\ Takers # {} => wmOwner \in Takers /\ \A v \in Takers : started[v] <= started[wmOwner]
    /\ \A w \in Takers :
        \/ \E u \in Takers :
              /\ seen[w] = WindowOf(u) /\ phase[w] = "waiting"
              /\ started[u] < started[w]
              /\ \A v \in Takers : started[v] <= started[u] \/ started[w] <= started[v]
        \/ /\ phase[w] = "waiting" => OldIsGone(w)
           /\ \A v \in Takers : started[w] <= started[v]
    /\ \A w \in Takers : phase[w] # "quitting" => wmOwner = w \/ w \in cleared
    /\ refused = {}

TakeoverIInv == InstancesInv /\ SeenInv /\ (~raced => LineInv)
LEMMA TakeoverInitInv == TakeoverInit => TakeoverIInv
<1> SUFFICES ASSUME TakeoverInit PROVE TakeoverIInv
  OBVIOUS
<1>1. Takers = {}
  BY DEF TakeoverInit, Takers
<1>2. InstancesInv
  <2>1. clock = 0 /\ 0 \in 0..MaxStarts /\ started \in [Process -> 0..clock] /\ ownerTime \in 0..clock
    BY TakeoverAssumption DEF TakeoverInit
  <2>2. \A w \in Process : w # Nobody
    BY TakeoverAssumption
  <2> QED BY <2>1, <2>2 DEF TakeoverInit, InstancesInv
<1>3. SeenInv
  BY DEF TakeoverInit, SeenInv
<1>4. LineInv
  BY <1>1 DEF TakeoverInit, LineInv
<1> QED BY <1>2, <1>3, <1>4 DEF TakeoverIInv

\* A process loses its connection, if it had one: it is gone, or starts with a timestamp of
\* its own.
Closing(w) ==
    \E next \in {"absent", "timestamp"} :
        /\ \/ ConnectionClosed(w, next)
           \/ /\ phase[w] = "absent" /\ phase' = [phase EXCEPT ![w] = next]
              /\ UNCHANGED <<seen, wmOwner, ownerTime, redirect, cleared>>
        /\ started' = [started EXCEPT ![w] = IF next = "absent" THEN 0 ELSE clock + 1]
        /\ clock' = IF next = "absent" THEN clock ELSE clock + 1
        /\ clock' <= MaxStarts

LEMMA ClosingTakers ==
    ASSUME InstancesInv, NEW w \in Process, Closing(w)
    PROVE  /\ Takers' = Takers \ {w}
           /\ started'[w] # started[w] \/ started[w] = 0
           /\ started'[w] = 0 \/ started'[w] > clock
           /\ \A v \in Process \ {w} : started'[v] = started[v] /\ seen'[v] = seen[v] /\ phase'[v] = phase[v]
           /\ clock' \in Nat /\ clock <= clock' /\ started'[w] \in 0..clock'
           /\ wmOwner' = (IF wmOwner = w THEN Nobody ELSE wmOwner)
           /\ redirect' = (IF redirect = w THEN Nobody ELSE redirect) /\ ownerTime' = ownerTime
           /\ cleared \ {w} \subseteq cleared' /\ cleared' \subseteq cleared
           /\ phase'[w] \in {"absent", "timestamp"}
<1>1. PICK next \in {"absent", "timestamp"} :
        /\ \/ ConnectionClosed(w, next)
           \/ /\ phase[w] = "absent" /\ phase' = [phase EXCEPT ![w] = next]
              /\ UNCHANGED <<seen, wmOwner, ownerTime, redirect, cleared>>
        /\ started' = [started EXCEPT ![w] = IF next = "absent" THEN 0 ELSE clock + 1]
        /\ clock' = IF next = "absent" THEN clock ELSE clock + 1
  BY DEF Closing
<1>2. phase' = [phase EXCEPT ![w] = next]
  BY <1>1 DEF ConnectionClosed
<1>3. Takers' = Takers \ {w}
  BY <1>2 DEF InstancesInv, Takers
<1>4. phase[w] = "absent" => wmOwner # w /\ redirect # w
  BY TakeoverAssumption DEF InstancesInv, Takers
<1>5. /\ wmOwner' = (IF wmOwner = w THEN Nobody ELSE wmOwner)
      /\ redirect' = (IF redirect = w THEN Nobody ELSE redirect) /\ ownerTime' = ownerTime
      /\ cleared \ {w} \subseteq cleared' /\ cleared' \subseteq cleared
      /\ \A v \in Process \ {w} : seen'[v] = seen[v]
  BY <1>1, <1>4 DEF ConnectionClosed, InstancesInv
<1> QED BY <1>1, <1>2, <1>3, <1>5 DEF InstancesInv

LEMMA ClosingInstances ==
    ASSUME InstancesInv, NEW w \in Process, Closing(w), refused' \subseteq Process, raced' \in BOOLEAN
    PROVE  InstancesInv'
<1>1. /\ phase' \in [Process -> {"absent", "timestamp", "looked", "waiting", "managing", "quitting"}]
      /\ started' \in [Process -> 0..clock'] /\ clock' \in 0..MaxStarts /\ ownerTime' \in 0..clock'
      /\ wmOwner' \in Process \cup {Nobody} /\ redirect' \in Process \cup {Nobody}
      /\ cleared' \subseteq Process
      /\ \A v \in Process : phase'[v] = "absent" <=> started'[v] = 0
  <2>1. PICK next \in {"absent", "timestamp"} :
          /\ started' = [started EXCEPT ![w] = IF next = "absent" THEN 0 ELSE clock + 1]
          /\ clock' = (IF next = "absent" THEN clock ELSE clock + 1) /\ clock' <= MaxStarts
          /\ phase' = [phase EXCEPT ![w] = next]
    BY DEF Closing, ConnectionClosed
  <2>2. \A v \in Process : phase'[v] = "absent" <=> started'[v] = 0
    BY <2>1 DEF InstancesInv
  <2>3. started' \in [Process -> 0..clock'] /\ clock' \in 0..MaxStarts /\ ownerTime' \in 0..clock'
    BY <2>1, ClosingTakers, TakeoverAssumption DEF InstancesInv
  <2> QED BY <2>1, <2>2, <2>3, ClosingTakers DEF InstancesInv
<1>2. seen' \in [Process -> {Nobody} \cup (Process \X (1..clock'))]
  <2>1. Process \X (1..clock) \subseteq Process \X (1..clock')
    BY ClosingTakers DEF InstancesInv
  <2> QED BY <2>1 DEF InstancesInv, Closing, ConnectionClosed
<1>3. ASSUME NEW u \in Process, NEW v \in Process, started'[u] = started'[v], u # v PROVE started'[u] = 0
  <2>1. started[u] \in 0..clock /\ started[v] \in 0..clock /\ clock \in Nat
    BY DEF InstancesInv
  <2> QED BY <1>3, <2>1, ClosingTakers DEF InstancesInv
<1>4. wmOwner' # Nobody => wmOwner' \in Takers' /\ ownerTime' = started'[wmOwner']
  BY ClosingTakers DEF InstancesInv, Takers
<1>5. ASSUME NEW v \in Process PROVE redirect' = v <=> phase'[v] \in {"managing", "quitting"}
  BY ClosingTakers, TakeoverAssumption DEF InstancesInv
<1> QED BY <1>1, <1>2, <1>3, <1>4, <1>5 DEF InstancesInv

LEMMA ClosingSeen ==
    ASSUME InstancesInv, SeenInv, NEW w \in Process, Closing(w)
    PROVE  SeenInv'
<1> SUFFICES ASSUME NEW v \in Process, phase'[v] = "looked", seen'[v] # Nobody
             PROVE  LET u == seen'[v][1]
                    IN started'[u] \in {0, seen'[v][2]} \/ started'[u] > started'[v]
  BY DEF SeenInv
<1>1. v # w /\ seen'[v] = seen[v] /\ phase[v] = "looked" /\ started'[v] = started[v]
  BY ClosingTakers
<1> DEFINE u == seen[v][1]
<1>2. u \in Process /\ started[v] \in 0..clock /\ clock \in Nat
  BY <1>1 DEF InstancesInv
<1>3. started[u] \in {0, seen[v][2]} \/ started[u] > started[v]
  BY <1>1 DEF SeenInv
<1>4. CASE u = w
  BY <1>1, <1>2, <1>4, ClosingTakers
<1>5. CASE u # w
  BY <1>1, <1>2, <1>3, <1>5, ClosingTakers
<1> QED BY <1>4, <1>5

\* Somebody ends who does not wait: that is the first in line, or it is not in line at all.
LEMMA ClosingLine ==
    ASSUME InstancesInv, LineInv, NEW w \in Process, Closing(w), phase[w] # "waiting", refused' = refused
    PROVE  LineInv'
<1>0. /\ clock \in Nat /\ \A v \in Process : started[v] \in 0..clock
      /\ \A u, v \in Process : started[u] = started[v] /\ u # v => started[u] = 0
      /\ \A u \in Takers : u \in Process /\ started[u] # 0
  BY DEF InstancesInv, Takers
<1>1. w \in Takers => \A v \in Takers : started[w] <= started[v]
  BY DEF LineInv
<1>2. Takers' # {} => wmOwner' \in Takers' /\ \A v \in Takers' : started'[v] <= started'[wmOwner']
  <2> SUFFICES ASSUME NEW x \in Takers'
               PROVE  wmOwner' \in Takers' /\ \A v \in Takers' : started'[v] <= started'[wmOwner']
    OBVIOUS
  <2>1. x \in Takers /\ x # w
    BY ClosingTakers
  <2>2. wmOwner \in Takers /\ \A v \in Takers : started[v] <= started[wmOwner]
    BY <2>1 DEF LineInv
  <2>3. wmOwner # w
    <3>1. ASSUME wmOwner = w PROVE FALSE
      <4>1. started[x] <= started[w] /\ started[w] <= started[x]
        BY <1>1, <2>1, <2>2, <3>1
      <4> QED BY <1>0, <2>1, <4>1
    <3> QED BY <3>1
  <2> QED BY <1>0, <2>2, <2>3, ClosingTakers
<1>3. ASSUME NEW x \in Takers'
      PROVE  \/ \E u \in Takers' :
                  /\ seen'[x] = WindowOf(u)' /\ phase'[x] = "waiting"
                  /\ started'[u] < started'[x]
                  /\ \A v \in Takers' : started'[v] <= started'[u] \/ started'[x] <= started'[v]
             \/ /\ phase'[x] = "waiting" => OldIsGone(x)'
                /\ \A v \in Takers' : started'[x] <= started'[v]
  <2>1. /\ x \in Takers /\ x # w /\ seen'[x] = seen[x] /\ phase'[x] = phase[x] /\ started'[x] = started[x]
        /\ \A v \in Takers' : v \in Takers /\ v # w /\ started'[v] = started[v]
        /\ \A v \in Takers : v # w => v \in Takers'
    BY <1>0, ClosingTakers
  <2>2. CASE \E u \in Takers :
                /\ seen[x] = WindowOf(u) /\ phase[x] = "waiting"
                /\ started[u] < started[x]
                /\ \A v \in Takers : started[v] <= started[u] \/ started[x] <= started[v]
    <3>1. PICK u \in Takers :
                /\ seen[x] = WindowOf(u) /\ phase[x] = "waiting"
                /\ started[u] < started[x]
                /\ \A v \in Takers : started[v] <= started[u] \/ started[x] <= started[v]
      BY <2>2
    <3>2. CASE u # w
      <4>1. u \in Takers' /\ WindowOf(u)' = WindowOf(u) /\ started'[u] = started[u]
        BY <2>1, <3>2 DEF WindowOf
      <4> QED BY <2>1, <3>1, <4>1
    <3>3. CASE u = w
      <4>1. seen'[x] = <<w, started[w]>> /\ seen'[x] # Nobody
        BY <1>0, <2>1, <3>1, <3>3, TakeoverAssumption DEF WindowOf
      <4>2. OldIsGone(x)'
        BY <1>0, <3>3, <4>1, ClosingTakers DEF OldIsGone
      <4>3. ASSUME NEW v \in Takers' PROVE started'[x] <= started'[v]
        <5>1. v \in Takers /\ v # w /\ started[w] <= started[v] /\ started[v] # started[w]
          BY <1>0, <1>1, <2>1, <3>3
        <5>2. started[v] <= started[w] \/ started[x] <= started[v]
          BY <3>1, <3>3, <5>1
        <5> QED BY <1>0, <2>1, <5>1, <5>2
      <4> QED BY <4>2, <4>3
    <3> QED BY <3>2, <3>3
  <2>3. CASE /\ phase[x] = "waiting" => OldIsGone(x)
             /\ \A v \in Takers : started[x] <= started[v]
    <3>1. ASSUME phase[x] = "waiting" PROVE OldIsGone(x)'
      <4>1. OldIsGone(x)
        BY <2>3, <3>1
      <4>2. seen[x] # Nobody => seen[x][1] \in Process /\ seen[x][2] \in 1..clock
        BY <1>0, <2>1 DEF InstancesInv
      <4>3. seen[x] # Nobody => started'[seen[x][1]] # seen[x][2]
        BY <1>0, <4>1, <4>2, ClosingTakers DEF OldIsGone
      <4> QED BY <2>1, <4>3 DEF OldIsGone
    <3> QED BY <2>1, <2>3, <3>1
  <2> QED BY <2>1, <2>2, <2>3 DEF LineInv
<1>4. ASSUME NEW x \in Takers', phase'[x] # "quitting" PROVE wmOwner' = x \/ x \in cleared'
  BY <1>0, <1>4, ClosingTakers DEF LineInv
<1> QED BY <1>2, <1>3, <1>4 DEF LineInv
LEMMA ClosingActions ==
    ASSUME InstancesInv, NEW w \in Process,
           Start(w) \/ (Ends(w) /\ clock' = clock) \/ Restarts(w)
    PROVE  Closing(w)
<1>1. CASE Start(w)
  BY <1>1, TakeoverAssumption DEF Start, Closing, AcquireTimestamp, InstancesInv
<1>2. CASE Ends(w)
  BY <1>2, TakeoverAssumption DEF Ends, Closing, InstancesInv
<1>3. CASE Restarts(w)
  BY <1>3, TakeoverAssumption DEF Restarts, Closing, AcquireTimestamp, InstancesInv
<1> QED BY <1>1, <1>2, <1>3

LEMMA ReadOwnerInv ==
    ASSUME TakeoverIInv, NEW w \in Process, ReadOwner(w) PROVE TakeoverIInv'
<1> USE DEF TakeoverIInv
<1>1. CASE ~MayReplace(w)
  <2>1. Ends(w) /\ clock' = clock /\ refused' = refused /\ raced' = raced /\ phase[w] = "timestamp"
    BY <1>1 DEF ReadOwner, Ends
  <2>2. refused' \subseteq Process /\ raced' \in BOOLEAN
    BY <2>1 DEF InstancesInv
  <2> QED BY <2>1, <2>2, ClosingActions, ClosingInstances, ClosingSeen, ClosingLine
<1>2. CASE MayReplace(w)
  <2> DEFINE s == IF wmOwner = Nobody THEN Nobody ELSE <<wmOwner, started[wmOwner]>>
  <2>1. /\ phase[w] = "timestamp" /\ phase' = [phase EXCEPT ![w] = "looked"]
        /\ seen' = [seen EXCEPT ![w] = s]
        /\ UNCHANGED <<started, wmOwner, ownerTime, redirect, cleared, clock, raced, refused>>
    BY <1>2 DEF ReadOwner
  <2>2. Takers' = Takers /\ w \notin Takers
    BY <2>1 DEF InstancesInv, Takers
  <2>3. s \in {Nobody} \cup (Process \X (1..clock))
    <3>1. wmOwner # Nobody => wmOwner \in Process /\ started[wmOwner] \in 1..clock
      BY TakeoverAssumption DEF InstancesInv, Takers
    <3> QED BY <3>1
  <2>4. InstancesInv'
    BY <2>1, <2>2, <2>3 DEF InstancesInv
  <2>5. SeenInv'
    <3> SUFFICES ASSUME NEW v \in Process, phase'[v] = "looked", seen'[v] # Nobody
                 PROVE  LET u == seen'[v][1]
                        IN started'[u] \in {0, seen'[v][2]} \/ started'[u] > started'[v]
      BY DEF SeenInv
    <3>1. CASE v = w
      <4>1. seen'[v] = <<wmOwner, started[wmOwner]>>
        BY <2>1, <3>1 DEF InstancesInv
      <4> QED BY <2>1, <4>1
    <3>2. CASE v # w
      BY <2>1, <3>2 DEF SeenInv, InstancesInv
    <3> QED BY <3>1, <3>2
  <2>6. ASSUME LineInv PROVE LineInv'
    <3>1. \A x \in Takers : x # w /\ seen'[x] = seen[x] /\ phase'[x] = phase[x] /\ started'[x] = started[x]
      BY <2>1, <2>2 DEF InstancesInv, Takers
    <3>2. \A x \in Takers : WindowOf(x)' = WindowOf(x) /\ OldIsGone(x)' = OldIsGone(x)
      BY <2>1, <3>1 DEF WindowOf, OldIsGone
    <3> QED BY <2>1, <2>2, <2>6, <3>1, <3>2 DEF LineInv
  <2> QED BY <2>1, <2>4, <2>5, <2>6
<1> QED BY <1>1, <1>2

\* Who takes the selection is the last in line, unless it raced.
LEMMA TakeSelectionInv ==
    ASSUME TakeoverIInv, NEW w \in Process, TakeSelection(w) PROVE TakeoverIInv'
<1> USE DEF TakeoverIInv
<1>1. /\ phase[w] = "looked" /\ phase' = [phase EXCEPT ![w] = "waiting"]
      /\ UNCHANGED <<started, seen, redirect, clock, refused>>
      /\ raced' \in BOOLEAN /\ (raced => raced')
  BY DEF TakeSelection, InstancesInv
<1>2. Takers' = Takers \cup {w} /\ w \notin Takers
  BY <1>1 DEF InstancesInv, Takers
<1>3. \/ wmOwner' = w /\ ownerTime' = started[w] /\ cleared' = cleared \cup ({wmOwner} \ {Nobody})
      \/ UNCHANGED <<wmOwner, ownerTime, cleared>>
  BY DEF TakeSelection
<1>4. InstancesInv'
  <2>1. wmOwner' # Nobody => wmOwner' \in Takers' /\ ownerTime' = started'[wmOwner']
    BY <1>1, <1>2, <1>3 DEF InstancesInv
  <2>2. \A v \in Process : redirect' = v <=> phase'[v] \in {"managing", "quitting"}
    BY <1>1 DEF InstancesInv
  <2>3. \A v \in Process : phase'[v] = "absent" <=> started'[v] = 0
    BY <1>1 DEF InstancesInv
  <2>4. /\ wmOwner' \in Process \cup {Nobody} /\ ownerTime' \in 0..clock' /\ cleared' \subseteq Process
        /\ phase' \in [Process -> {"absent", "timestamp", "looked", "waiting", "managing", "quitting"}]
    BY <1>1, <1>3 DEF InstancesInv
  <2> QED BY <1>1, <2>1, <2>2, <2>3, <2>4 DEF InstancesInv
<1>5. SeenInv'
  BY <1>1 DEF SeenInv, InstancesInv
<1>6. ASSUME ~raced' PROVE LineInv'
  <2>1. LineInv
    BY <1>1, <1>6
  <2>2. wmOwner = (IF seen[w] = Nobody THEN Nobody ELSE seen[w][1]) /\ ~(started[w] < ownerTime)
    BY <1>6 DEF TakeSelection, InstancesInv
  <2>3. /\ clock \in Nat /\ \A v \in Process : started[v] \in 0..clock
        /\ ownerTime \in 0..clock
        /\ \A u, v \in Process : started[u] = started[v] /\ u # v => started[u] = 0
        /\ \A u \in Takers : u \in Process /\ started[u] # 0
        /\ started[w] # 0
    BY <1>1 DEF InstancesInv, Takers
  <2>4. wmOwner' = w /\ cleared' = cleared \cup ({wmOwner} \ {Nobody})
    BY <2>2, <2>3 DEF TakeSelection
  <2>5. \A v \in Takers : wmOwner \in Takers /\ started[v] <= started[wmOwner] /\ started[wmOwner] < started[w]
    <3> SUFFICES ASSUME NEW v \in Takers
                 PROVE  wmOwner \in Takers /\ started[v] <= started[wmOwner] /\ started[wmOwner] < started[w]
      OBVIOUS
    <3>1. wmOwner \in Takers /\ started[v] <= started[wmOwner]
      BY <2>1 DEF LineInv
    <3>2. wmOwner # Nobody /\ ownerTime = started[wmOwner]
      BY <2>3, <3>1, TakeoverAssumption DEF InstancesInv
    <3>3. started[wmOwner] # started[w]
      BY <1>2, <2>3, <3>1
    <3> QED BY <2>2, <2>3, <3>1, <3>2, <3>3
  <2>6. /\ \A x \in Takers : x # w /\ seen'[x] = seen[x] /\ phase'[x] = phase[x] /\ started'[x] = started[x]
        /\ started'[w] = started[w] /\ seen'[w] = seen[w] /\ phase'[w] = "waiting"
    BY <1>1, <1>2 DEF InstancesInv, Takers
  <2>7. \A x \in Takers : WindowOf(x)' = WindowOf(x) /\ OldIsGone(x)' = OldIsGone(x)
    BY <1>1, <2>6 DEF WindowOf, OldIsGone
  <2>8. \A v \in Takers' : started'[v] <= started'[wmOwner']
    BY <1>2, <2>3, <2>4, <2>5, <2>6
  <2>9. ASSUME NEW x \in Takers'
        PROVE  \/ \E u \in Takers' :
                    /\ seen'[x] = WindowOf(u)' /\ phase'[x] = "waiting"
                    /\ started'[u] < started'[x]
                    /\ \A v \in Takers' : started'[v] <= started'[u] \/ started'[x] <= started'[v]
               \/ /\ phase'[x] = "waiting" => OldIsGone(x)'
                  /\ \A v \in Takers' : started'[x] <= started'[v]
    <3>1. CASE x \in Takers
      <4>1. started[x] <= started[w]
        BY <2>3, <2>5, <3>1
      <4>2. CASE \E u \in Takers :
                    /\ seen[x] = WindowOf(u) /\ phase[x] = "waiting"
                    /\ started[u] < started[x]
                    /\ \A v \in Takers : started[v] <= started[u] \/ started[x] <= started[v]
        <5>1. PICK u \in Takers :
                    /\ seen[x] = WindowOf(u) /\ phase[x] = "waiting"
                    /\ started[u] < started[x]
                    /\ \A v \in Takers : started[v] <= started[u] \/ started[x] <= started[v]
          BY <4>2
        <5>2. /\ seen'[x] = WindowOf(u)' /\ phase'[x] = "waiting" /\ started'[u] < started'[x]
              /\ u \in Takers'
          BY <1>2, <2>6, <2>7, <3>1, <5>1
        <5>3. \A v \in Takers' : started'[v] <= started'[u] \/ started'[x] <= started'[v]
          BY <1>2, <2>6, <3>1, <4>1, <5>1
        <5> QED BY <5>2, <5>3
      <4>3. CASE /\ phase[x] = "waiting" => OldIsGone(x)
                 /\ \A v \in Takers : started[x] <= started[v]
        <5>1. phase'[x] = "waiting" => OldIsGone(x)'
          BY <2>6, <2>7, <3>1, <4>3
        <5>2. \A v \in Takers' : started'[x] <= started'[v]
          BY <1>2, <2>6, <3>1, <4>1, <4>3
        <5> QED BY <5>1, <5>2
      <4> QED BY <2>1, <3>1, <4>2, <4>3 DEF LineInv
    <3>2. CASE x = w /\ Takers = {}
      <4>1. wmOwner = Nobody
        BY <3>2 DEF InstancesInv
      <4>2. seen[w] = Nobody
        <5>1. seen[w] # Nobody => seen[w][1] \in Process
          BY DEF InstancesInv
        <5> QED BY <2>2, <4>1, <5>1, TakeoverAssumption
      <4>3. OldIsGone(x)'
        BY <2>6, <3>2, <4>2 DEF OldIsGone
      <4>4. \A v \in Takers' : started'[x] <= started'[v]
        BY <1>2, <2>3, <2>6, <3>2
      <4> QED BY <4>3, <4>4
    <3>3. CASE x = w /\ Takers # {}
      <4>0. PICK u \in Takers : u = wmOwner
        BY <2>5, <3>3
      <4>1. u \in Takers /\ u # Nobody /\ u \in Process
        BY <2>3, TakeoverAssumption
      <4>2. seen[w] # Nobody /\ seen[w][1] = u
        BY <2>2, <4>0, <4>1
      <4>3. started[u] \in {0, seen[w][2]} \/ started[u] > started[w]
        BY <1>1, <4>2 DEF SeenInv
      <4>4. started[u] = seen[w][2]
        BY <2>3, <2>5, <4>0, <4>1, <4>3
      <4>5. seen[w] = WindowOf(u)
        <5>1. seen[w] \in Process \X (1..clock)
          BY <4>2 DEF InstancesInv
        <5> QED BY <4>2, <4>4, <5>1 DEF WindowOf
      <4>6. seen'[x] = WindowOf(u)' /\ phase'[x] = "waiting" /\ started'[u] < started'[x] /\ u \in Takers'
        BY <1>2, <2>5, <2>6, <2>7, <3>3, <4>0, <4>1, <4>5
      <4>7. \A v \in Takers' : started'[v] <= started'[u] \/ started'[x] <= started'[v]
        BY <1>2, <2>3, <2>5, <2>6, <3>3, <4>0, <4>1
      <4> QED BY <4>6, <4>7
    <3> QED BY <1>2, <3>1, <3>2, <3>3
  <2>10. ASSUME NEW x \in Takers', phase'[x] # "quitting" PROVE wmOwner' = x \/ x \in cleared'
    <3>1. CASE x = w
      BY <2>4, <3>1
    <3>2. CASE x # w
      <4>1. x \in Takers /\ phase[x] # "quitting"
        BY <1>2, <2>6, <2>10, <3>2
      <4>2. wmOwner = x \/ x \in cleared
        BY <2>1, <4>1 DEF LineInv
      <4> QED BY <2>3, <2>4, <4>1, <4>2, TakeoverAssumption
    <3> QED BY <3>1, <3>2
  <2>11. Takers' # {} => wmOwner' \in Takers'
    BY <1>2, <2>4
  <2> QED BY <1>1, <2>1, <2>8, <2>9, <2>10, <2>11 DEF LineInv
<1> QED BY <1>4, <1>5, <1>6

\* The phases of those in line change.
LEMMA PhaseLine ==
    ASSUME InstancesInv, LineInv, NEW w \in Takers,
           phase' = [phase EXCEPT ![w] = "quitting"] \/ (phase' = [phase EXCEPT ![w] = "managing"] /\ phase[w] = "waiting"),
           phase[w] = "waiting" => OldIsGone(w),
           UNCHANGED <<started, seen, wmOwner, refused>>,
           \A x \in Takers : phase'[x] # "quitting" /\ x \in cleared => x \in cleared'
    PROVE  LineInv'
<1>1. Takers' = Takers
  BY DEF Takers, InstancesInv
<1>2. /\ \A x \in Takers : seen'[x] = seen[x] /\ started'[x] = started[x]
      /\ \A x \in Takers : x # w => phase'[x] = phase[x]
      /\ phase'[w] # "waiting" /\ (phase'[w] # "quitting" => phase[w] # "quitting")
  BY DEF Takers, InstancesInv
<1>3. \A x \in Takers : WindowOf(x)' = WindowOf(x) /\ OldIsGone(x)' = OldIsGone(x)
  BY DEF WindowOf, OldIsGone
<1>4. ~\E u \in Takers : /\ seen[w] = WindowOf(u) /\ phase[w] = "waiting"
  <2> SUFFICES ASSUME NEW u \in Takers, seen[w] = WindowOf(u), phase[w] = "waiting" PROVE FALSE
    OBVIOUS
  <2>1. seen[w] = <<u, started[u]>> /\ u \in Process /\ started[u] \in Nat
    BY DEF WindowOf, Takers, InstancesInv
  <2>2. seen[w] # Nobody
    BY <2>1, TakeoverAssumption
  <2> QED BY <2>1, <2>2 DEF OldIsGone
<1>5. ASSUME NEW x \in Takers
      PROVE  \/ \E u \in Takers :
                  /\ seen'[x] = WindowOf(u)' /\ phase'[x] = "waiting"
                  /\ started'[u] < started'[x]
                  /\ \A v \in Takers : started'[v] <= started'[u] \/ started'[x] <= started'[v]
             \/ /\ phase'[x] = "waiting" => OldIsGone(x)'
                /\ \A v \in Takers : started'[x] <= started'[v]
  BY <1>2, <1>3, <1>4 DEF LineInv
<1>6. \A x \in Takers : phase'[x] # "quitting" => wmOwner' = x \/ x \in cleared'
  BY <1>2 DEF LineInv
<1> QED BY <1>1, <1>2, <1>5, <1>6 DEF LineInv

LEMMA PhaseInstances ==
    ASSUME InstancesInv, SeenInv, NEW w \in Takers, NEW next \in {"managing", "quitting"},
           phase' = [phase EXCEPT ![w] = next],
           redirect' = w, redirect \in {w, Nobody},
           cleared' \subseteq cleared, UNCHANGED <<started, seen, wmOwner, ownerTime, clock, raced, refused>>
    PROVE  InstancesInv' /\ SeenInv'
<1>1. Takers' = Takers /\ w \in Process /\ phase[w] # "absent"
  BY DEF Takers, InstancesInv
<1>2. \A v \in Process : redirect' = v <=> phase'[v] \in {"managing", "quitting"}
  BY <1>1, TakeoverAssumption DEF InstancesInv
<1>3. \A v \in Process : phase'[v] = "absent" <=> started'[v] = 0
  BY <1>1 DEF InstancesInv
<1>4. phase' \in [Process -> {"absent", "timestamp", "looked", "waiting", "managing", "quitting"}]
  BY DEF InstancesInv
<1>5. InstancesInv'
  BY <1>1, <1>2, <1>3, <1>4 DEF InstancesInv
<1>6. SeenInv'
  BY DEF SeenInv, InstancesInv
<1> QED BY <1>5, <1>6

LEMMA SelectRedirectInv ==
    ASSUME TakeoverIInv, NEW w \in Process, SelectRedirect(w) PROVE TakeoverIInv'
<1> USE DEF TakeoverIInv
<1>0. w \in Takers /\ OldIsGone(w) /\ phase[w] = "waiting"
  BY DEF SelectRedirect, Takers
<1>1. CASE redirect = Nobody
  <2>1. /\ phase' = [phase EXCEPT ![w] = "managing"] /\ redirect' = w
        /\ UNCHANGED <<started, seen, wmOwner, ownerTime, cleared, clock, raced, refused>>
    BY <1>1 DEF SelectRedirect
  <2>2. InstancesInv' /\ SeenInv'
    BY <1>0, <1>1, <2>1, PhaseInstances
  <2>3. ~raced' => LineInv'
    BY <1>0, <2>1, PhaseLine
  <2> QED BY <2>2, <2>3
<1>2. CASE redirect # Nobody
  <2>1. Ends(w) /\ clock' = clock /\ raced' = raced /\ refused' = refused \cup {w}
    BY <1>2 DEF SelectRedirect, Ends
  <2>2. InstancesInv' /\ SeenInv'
    <3>1. refused' \subseteq Process /\ raced' \in BOOLEAN
      BY <2>1 DEF InstancesInv
    <3> QED BY <2>1, <3>1, ClosingActions, ClosingInstances, ClosingSeen
  <2>3. raced
    <3> SUFFICES ASSUME LineInv PROVE FALSE
      OBVIOUS
    <3>1. redirect \in Takers /\ redirect # w /\ redirect \in Process /\ phase[redirect] # "waiting"
      BY <1>0, <1>2 DEF InstancesInv, Takers
    <3>2. started[redirect] <= started[w]
      BY <3>1, <1>0 DEF LineInv
    <3>3. started[w] <= started[redirect]
      <4>1. ~\E u \in Takers : seen[w] = WindowOf(u)
        <5> SUFFICES ASSUME NEW u \in Takers, seen[w] = WindowOf(u) PROVE FALSE
          OBVIOUS
        <5>1. seen[w] = <<u, started[u]>> /\ u \in Process /\ started[u] \in Nat
          BY DEF WindowOf, Takers, InstancesInv
        <5>2. seen[w] # Nobody
          BY <5>1, TakeoverAssumption
        <5> QED BY <1>0, <5>1, <5>2 DEF OldIsGone
      <4> QED BY <1>0, <3>1, <4>1 DEF LineInv
    <3>4. started[w] \in Nat /\ started[redirect] \in Nat /\ started[w] # 0
      BY <1>0, <3>1 DEF InstancesInv
    <3> QED BY <3>1, <3>2, <3>3, <3>4 DEF InstancesInv
  <2> QED BY <2>1, <2>2, <2>3 DEF InstancesInv
<1> QED BY <1>1, <1>2

LEMMA QuitInv ==
    ASSUME TakeoverIInv, NEW w \in Process, LostSelection(w) \/ QuitLoop(w) PROVE TakeoverIInv'
<1> USE DEF TakeoverIInv
<1>1. /\ phase[w] = "managing" /\ phase' = [phase EXCEPT ![w] = "quitting"]
      /\ UNCHANGED <<started, seen, wmOwner, ownerTime, redirect, clock, raced, refused>>
      /\ cleared' = cleared \ {w} \/ cleared' = cleared
  BY DEF LostSelection, QuitLoop
<1>2. w \in Takers /\ redirect = w
  BY <1>1 DEF Takers, InstancesInv
<1>3. InstancesInv' /\ SeenInv'
  BY <1>1, <1>2, PhaseInstances
<1>4. phase'[w] = "quitting"
  BY <1>1 DEF InstancesInv
<1>5. ~raced' => LineInv'
  BY <1>1, <1>2, <1>4, PhaseLine
<1> QED BY <1>3, <1>5

LEMMA OtherEndsInv ==
    ASSUME TakeoverIInv, NEW w \in Process, Start(w) \/ ExitMain(w) \/ Restarts(w) \/ ProcessKilled(w)
    PROVE  TakeoverIInv'
<1> USE DEF TakeoverIInv
<1>1. Closing(w) /\ refused' = refused /\ raced' \in BOOLEAN /\ (raced => raced')
      /\ (~raced' => phase[w] # "waiting")
  <2>1. Start(w) \/ (Ends(w) /\ clock' = clock) \/ Restarts(w)
    BY DEF ExitMain, ProcessKilled, Ends
  <2>2. refused' = refused /\ (raced' = raced \/ raced' = (raced \/ phase[w] = "waiting"))
    BY DEF Start, ExitMain, Restarts, ProcessKilled
  <2>3. ~raced' => phase[w] # "waiting"
    BY DEF Start, ExitMain, Restarts, ProcessKilled
  <2> QED BY <2>1, <2>2, <2>3, ClosingActions DEF InstancesInv
<1>2. InstancesInv' /\ SeenInv'
  BY <1>1, ClosingInstances, ClosingSeen DEF InstancesInv
<1>3. ~raced' => LineInv'
  BY <1>1, ClosingLine
<1> QED BY <1>2, <1>3

LEMMA TakeoverNextInv == TakeoverIInv /\ [TakeoverNext]_takeoverVars => TakeoverIInv'
<1>1. ASSUME TakeoverIInv, UNCHANGED takeoverVars PROVE TakeoverIInv'
  <2>1. Takers' = Takers /\ \A w : WindowOf(w)' = WindowOf(w) /\ OldIsGone(w)' = OldIsGone(w)
    BY <1>1 DEF takeoverVars, Takers, WindowOf, OldIsGone
  <2> QED BY <1>1, <2>1 DEF takeoverVars, TakeoverIInv, InstancesInv, SeenInv, LineInv
<1> QED
  BY <1>1, ReadOwnerInv, TakeSelectionInv, SelectRedirectInv, QuitInv, OtherEndsInv DEF TakeoverNext

\* For any number of processes and restarts: unless two of them take the selection at once or one is
\* killed while it waits, window managers follow each other in the order of their
\* timestamps; none is refused by the server, and one that manages windows owns the selection
\* or will read that it has lost it.
THEOREM TakeoversAreOrdered == TakeoverSpec => []TakeoverInv
<1>1. TakeoverIInv => TakeoverInv
  <2> SUFFICES ASSUME TakeoverIInv PROVE TakeoverInv
    OBVIOUS
  <2>1. TakeoverTypeOK
    <3>1. started \in [Process -> 0..MaxStarts] /\ ownerTime \in 0..MaxStarts
      BY TakeoverAssumption DEF TakeoverIInv, InstancesInv
    <3> QED BY <3>1 DEF TakeoverIInv, InstancesInv, TakeoverTypeOK
  <2>2. TakeoverWorks
    BY DEF TakeoverIInv, LineInv, TakeoverWorks, Takers
  <2> QED BY <2>1, <2>2 DEF TakeoverInv
<1> QED BY <1>1, TakeoverInitInv, TakeoverNextInv, PTL DEF TakeoverSpec

-----------------------------------------------------------------------------
(* Wallpaper.                                                              *)

SettingFrame == [at : {"painted", "replaced", "told", "handlers"}, new : Pixmap \cup {NoPixmap}]
TopSetting == beingSet[Len(beingSet)]

SettingsInv ==
    /\ WallpaperTypeOK /\ notify \in Nat /\ programSteps \in Nat
    /\ beingSet \in Seq(SettingFrame)
    /\ \A i \in 1..Len(beingSet) :
          /\ beingSet[i].at # "handlers" => beingSet[i].new \in own
          /\ i < Len(beingSet) => beingSet[i].at \in {"told", "handlers"}

\* A connection that awesome has open is that of a frame, and the pixmap of a connection
\* that will keep it is found by ESETROOT_PMAP_ID, if it was not killed.
ConnectionsInv ==
    /\ \A p \in own : pixmap[p] # "new"
    /\ \A p \in Pixmap \ own : pixmap[p] \in {"new", "retained", "freed"}
    /\ esetroot # NoPixmap => pixmap[esetroot] # "new"
    /\ rootPixmap \in {esetroot, NoPixmap}
    /\ \A p \in Pixmap : pixmap[p] = "open" =>
          Len(beingSet) > 0 /\ TopSetting.new = p /\ TopSetting.at \in {"painted", "replaced"}
    /\ \A p \in Pixmap : pixmap[p] = "keeping" =>
          \E i \in 1..Len(beingSet) : beingSet[i].new = p /\ beingSet[i].at = "told"
    /\ \A p \in own \ survivors : pixmap[p] \in {"keeping", "retained"} => p = esetroot

\* What the innermost frame is about to do.
TopInv ==
    /\ Running = "painted" => pixmap[TopSetting.new] = "open" /\ TopSetting.new # esetroot
    /\ Running = "replaced" =>
          /\ pixmap[TopSetting.new] = "open" => TopSetting.new = esetroot
          /\ notify = 0 => rootPixmap = TopSetting.new /\ pixmap[TopSetting.new] = "open"
    /\ notify = 0 /\ Running # "replaced" => wallpaper = Updated

WallpaperIInv == SettingsInv /\ ConnectionsInv /\ TopInv
LEMMA NoPixmapIsNone == NoPixmap \notin Pixmap
  BY WallpaperAssumption DEF Pixmap

LEMMA SettingFrames ==
    ASSUME SettingsInv
    PROVE  /\ Len(beingSet) \in Nat /\ (beingSet = <<>> <=> Len(beingSet) = 0)
           /\ \A i \in 1..Len(beingSet) : beingSet[i] \in SettingFrame
  BY LenProperties, EmptySeq, ElementOfSeq DEF SettingsInv

LEMMA RunningIsTop ==
    ASSUME SettingsInv, Len(beingSet) > 0
    PROVE  /\ TopSetting \in SettingFrame /\ Running = TopSetting.at
           /\ Len(beingSet) \in 1..Len(beingSet) /\ TopSetting = beingSet[Len(beingSet)]
<1>1. TopSetting \in SettingFrame /\ Len(beingSet) \in 1..Len(beingSet) /\ beingSet # <<>>
  BY SettingFrames DEF TopSetting
<1> QED BY <1>1 DEF Running, TopSetting

LEMMA RunningNothing == SettingsInv /\ Len(beingSet) = 0 => Running = "main loop"
  BY SettingFrames DEF Running

\* A frame is pushed, popped, or makes a step.
LEMMA PushSetting ==
    ASSUME SettingsInv, NEW f \in SettingFrame, beingSet' = Append(beingSet, f)
    PROVE  /\ beingSet' \in Seq(SettingFrame) /\ Len(beingSet') = Len(beingSet) + 1 /\ Len(beingSet) \in Nat
           /\ \A i \in 1..Len(beingSet) : beingSet'[i] = beingSet[i]
           /\ beingSet'[Len(beingSet')] = f /\ TopSetting' = f /\ Running' = f.at
<1>1. /\ beingSet' \in Seq(SettingFrame) /\ Len(beingSet') = Len(beingSet) + 1 /\ beingSet' # <<>>
      /\ \A i \in 1..Len(beingSet) : beingSet'[i] = beingSet[i]
      /\ beingSet'[Len(beingSet) + 1] = f
  BY AppendProperties DEF SettingsInv
<1> QED BY <1>1, LenProperties DEF SettingsInv, TopSetting, Running

LEMMA PopSetting ==
    ASSUME SettingsInv, Len(beingSet) > 0, beingSet' = SubSeq(beingSet, 1, Len(beingSet) - 1)
    PROVE  /\ beingSet' \in Seq(SettingFrame) /\ Len(beingSet') = Len(beingSet) - 1
           /\ \A i \in 1..Len(beingSet) - 1 : beingSet'[i] = beingSet[i]
           /\ Running' = IF Len(beingSet) = 1 THEN "main loop" ELSE beingSet[Len(beingSet) - 1].at
<1>1. Len(beingSet) \in Nat /\ \A i \in 1..Len(beingSet) : beingSet[i] \in SettingFrame
  BY SettingFrames
<1>2. /\ beingSet' \in Seq(SettingFrame) /\ Len(beingSet') = Len(beingSet) - 1
      /\ \A i \in 1..Len(beingSet) - 1 : beingSet'[i] = beingSet[i]
  <2>1. \A i \in 1..Len(beingSet) - 1 : beingSet[i] \in SettingFrame
    BY <1>1
  <2>2. /\ beingSet' \in Seq(SettingFrame)
        /\ Len(beingSet') = IF 1 <= Len(beingSet) - 1 THEN Len(beingSet) - 1 - 1 + 1 ELSE 0
        /\ \A i \in 1..Len(beingSet) - 1 - 1 + 1 : beingSet'[i] = beingSet[1 + i - 1]
    BY <1>1, <2>1, SubSeqProperties, 1 \in Int, Len(beingSet) - 1 \in Int
  <2>3. Len(beingSet) - 1 - 1 + 1 = Len(beingSet) - 1 /\ \A i \in Int : 1 + i - 1 = i
    BY <1>1
  <2> QED BY <1>1, <2>2, <2>3
<1>3. beingSet' = <<>> <=> Len(beingSet') = 0
  BY <1>1, <1>2, EmptySeq
<1>4. Running' = IF Len(beingSet') = 0 THEN "main loop" ELSE beingSet'[Len(beingSet')].at
  BY <1>3 DEF Running
<1>5. CASE Len(beingSet) = 1
  <2>1. Len(beingSet') = 0
    BY <1>2, <1>5
  <2>2. Running' = "main loop"
    BY ONLY <2>1, <1>4
  <2> QED BY <1>2, <1>5, <2>2
<1>6. CASE Len(beingSet) # 1
  <2>1. Len(beingSet') # 0 /\ Len(beingSet) - 1 \in 1..Len(beingSet) - 1
    BY <1>1, <1>2, <1>6
  <2> QED BY <1>2, <1>4, <1>6, <2>1
<1> QED BY <1>5, <1>6

LEMMA StepSetting ==
    ASSUME SettingsInv, Len(beingSet) > 0, NEW step \in {"painted", "replaced", "told", "handlers"},
           SettingAt(step)
    PROVE  /\ beingSet' \in Seq(SettingFrame) /\ Len(beingSet') = Len(beingSet)
           /\ \A i \in 1..Len(beingSet) - 1 : beingSet'[i] = beingSet[i]
           /\ beingSet'[Len(beingSet)] = [at |-> step, new |-> TopSetting.new]
           /\ TopSetting' = [at |-> step, new |-> TopSetting.new] /\ Running' = step
<1> DEFINE f == [at |-> step, new |-> TopSetting.new]
<1>1. TopSetting \in SettingFrame /\ Len(beingSet) \in 1..Len(beingSet) /\ f \in SettingFrame
  BY RunningIsTop DEF SettingFrame
<1>2. beingSet' = [beingSet EXCEPT ![Len(beingSet)] = f]
  <2>1. [TopSetting EXCEPT !.at = step] = f
    BY <1>1 DEF SettingFrame
  <2> QED BY <2>1 DEF SettingAt, TopSetting
<1>3. /\ beingSet' \in Seq(SettingFrame) /\ Len(beingSet') = Len(beingSet)
      /\ \A i \in 1..Len(beingSet) : beingSet'[i] = IF i = Len(beingSet) THEN f ELSE beingSet[i]
  BY <1>1, <1>2, ExceptSeq DEF SettingsInv
<1>4. Len(beingSet) \in Nat
  BY SettingFrames
<1>5. beingSet' # <<>>
  BY <1>3, <1>4, EmptySeq
<1> QED BY <1>1, <1>3, <1>4, <1>5 DEF TopSetting, Running

LEMMA WallpaperInitInv == WallpaperInit => WallpaperIInv
<1> SUFFICES ASSUME WallpaperInit PROVE WallpaperIInv
  OBVIOUS
<1>1. beingSet \in Seq(SettingFrame) /\ Len(beingSet) = 0 /\ Running = "main loop"
  BY EmptySeq DEF WallpaperInit, Running
<1>2. WallpaperTypeOK
  BY DEF WallpaperInit, WallpaperTypeOK
<1>3. SettingsInv
  <2>1. notify \in Nat /\ programSteps \in Nat
    BY WallpaperAssumption DEF WallpaperInit
  <2>2. Len(beingSet) = 0
    BY <1>1
  <2>3. \A i \in 1..0 : FALSE
    OBVIOUS
  <2> QED BY <1>1, <1>2, <2>1, <2>2, <2>3 DEF SettingsInv
<1>4. ConnectionsInv
  BY DEF WallpaperInit, ConnectionsInv
<1>5. TopInv
  BY <1>1 DEF WallpaperInit, TopInv, Updated, Exists
<1> QED BY <1>3, <1>4, <1>5 DEF WallpaperIInv

\* What KillClient makes of the pixmap's state.
LEMMA KilledStates ==
    ASSUME NEW pixmaps \in [Pixmap -> {"new", "open", "keeping", "retained", "freed"}], NEW p \in Pixmap,
           pixmaps[p] # "new"
    PROVE  /\ Killed(pixmaps, p) \in [Pixmap -> {"new", "open", "keeping", "retained", "freed"}]
           /\ \A q \in Pixmap : q # p => Killed(pixmaps, p)[q] = pixmaps[q]
           /\ Killed(pixmaps, p)[p] \in {"retained", "freed"}
           /\ Killed(pixmaps, p)[p] = "retained" => pixmaps[p] = "keeping"
  BY DEF Killed, Closed

LEMMA CreateInv == ASSUME WallpaperIInv, NEW p \in Pixmap, Create(p) PROVE WallpaperIInv'
<1> USE DEF WallpaperIInv
<1> DEFINE f == [at |-> "painted", new |-> p]
<1>1. f \in SettingFrame /\ beingSet' = Append(beingSet, f)
  BY DEF SettingFrame, Create
<1>2. /\ beingSet' \in Seq(SettingFrame) /\ Len(beingSet') = Len(beingSet) + 1 /\ Len(beingSet) \in Nat
      /\ \A i \in 1..Len(beingSet) : beingSet'[i] = beingSet[i]
      /\ beingSet'[Len(beingSet')] = f /\ TopSetting' = f /\ Running' = "painted"
  BY <1>1, PushSetting
<1>3. /\ pixmap[p] = "new" /\ pixmap' = [pixmap EXCEPT ![p] = "open"] /\ own' = own \cup {p}
      /\ UNCHANGED <<rootPixmap, esetroot, wallpaper, notify, survivors, programSteps>>
      /\ Running \in {"main loop", "handlers", "told"}
  BY DEF Create, Fresh, LuaRunning
<1>4. \A q \in Pixmap : pixmap'[q] = IF q = p THEN "open" ELSE pixmap[q]
  BY <1>3 DEF SettingsInv, WallpaperTypeOK
<1>5. WallpaperTypeOK'
  BY <1>3 DEF SettingsInv, WallpaperTypeOK
<1>6. ASSUME NEW i \in 1..Len(beingSet')
      PROVE  /\ beingSet'[i].at # "handlers" => beingSet'[i].new \in own'
             /\ i < Len(beingSet') => beingSet'[i].at \in {"told", "handlers"}
  <2>1. CASE i = Len(beingSet')
    <3>1. beingSet'[i].new = p
      BY <1>2, <2>1
    <3>2. ~(i < Len(beingSet'))
      BY <1>2, <2>1
    <3> QED BY <1>3, <3>1, <3>2
  <2>2. CASE i # Len(beingSet')
    <3>1. i \in 1..Len(beingSet) /\ beingSet'[i] = beingSet[i]
      BY <1>2, <2>2
    <3>2. CASE i < Len(beingSet)
      BY <1>3, <3>1, <3>2 DEF SettingsInv
    <3>3. CASE i = Len(beingSet)
      <4>1. Len(beingSet) > 0
        BY <3>1
      <4>2. Running = beingSet[i].at /\ beingSet[i] \in SettingFrame
        BY <3>3, <4>1, RunningIsTop
      <4>3. beingSet[i].at \in {"told", "handlers"}
        BY <1>3, <4>2 DEF SettingFrame
      <4> QED BY <1>3, <3>1, <4>3 DEF SettingsInv
    <3> QED BY <1>2, <3>1, <3>2, <3>3
  <2> QED BY <2>1, <2>2
<1>7. SettingsInv'
  BY <1>2, <1>3, <1>5, <1>6 DEF SettingsInv
<1>8. ConnectionsInv'
  <2>1. \A q \in Pixmap : pixmap'[q] = "open" => q = p
    <3>1. ASSUME NEW q \in Pixmap, pixmap[q] = "open" PROVE FALSE
      <4>1. Len(beingSet) > 0 /\ TopSetting.at \in {"painted", "replaced"}
        BY <3>1 DEF ConnectionsInv
      <4>2. Running \in {"painted", "replaced"}
        BY <4>1, RunningIsTop
      <4> QED BY <1>3, <4>2
    <3> QED BY <1>4, <3>1
  <2>2. ASSUME NEW q \in Pixmap, pixmap'[q] = "keeping"
        PROVE  \E i \in 1..Len(beingSet') : beingSet'[i].new = q /\ beingSet'[i].at = "told"
    BY <1>2, <1>4, <2>2 DEF ConnectionsInv
  <2>3. p \notin own /\ esetroot # p
    BY <1>3, NoPixmapIsNone, ZenonT(60) DEF ConnectionsInv
  <2>4. /\ \A q \in own' : pixmap'[q] # "new"
        /\ \A q \in Pixmap \ own' : pixmap'[q] \in {"new", "retained", "freed"}
        /\ esetroot' # NoPixmap => pixmap'[esetroot'] # "new"
        /\ rootPixmap' \in {esetroot', NoPixmap}
    <3>1. own \subseteq Pixmap /\ esetroot \in Pixmap \cup {NoPixmap}
      BY DEF SettingsInv, WallpaperTypeOK
    <3>2. ASSUME NEW q \in own' PROVE pixmap'[q] # "new"
      <4>1. q = p \/ (q \in own /\ q # p)
        BY <1>3
      <4> QED BY <1>4, <3>1, <4>1 DEF ConnectionsInv
    <3>3. ASSUME NEW q \in Pixmap \ own' PROVE pixmap'[q] \in {"new", "retained", "freed"}
      <4>1. q # p /\ q \in Pixmap \ own
        BY <1>3
      <4>2. pixmap'[q] = pixmap[q]
        BY <1>4, <4>1
      <4> QED BY <4>1, <4>2 DEF ConnectionsInv
    <3>4. ASSUME esetroot' # NoPixmap PROVE pixmap'[esetroot'] # "new"
      <4>1. esetroot' = esetroot /\ esetroot \in Pixmap /\ esetroot # p /\ esetroot # NoPixmap
        BY <1>3, <2>3, <3>1, <3>4
      <4>2. pixmap'[esetroot] = pixmap[esetroot]
        BY <1>4, <4>1
      <4> QED BY <4>1, <4>2 DEF ConnectionsInv
    <3> QED BY <1>3, <3>2, <3>3, <3>4 DEF ConnectionsInv
  <2>5. \A q \in own' \ survivors' : pixmap'[q] \in {"keeping", "retained"} => q = esetroot'
    <3> SUFFICES ASSUME NEW q \in own' \ survivors', pixmap'[q] \in {"keeping", "retained"}
                 PROVE  q = esetroot'
      OBVIOUS
    <3>1. q \in Pixmap /\ q # p /\ pixmap'[q] = pixmap[q]
      BY <1>3, <1>4 DEF SettingsInv, WallpaperTypeOK
    <3> QED BY <1>3, <3>1 DEF ConnectionsInv
  <2> QED BY <1>2, <2>1, <2>2, <2>4, <2>5 DEF ConnectionsInv
<1>9. TopInv'
  <2>1. p # esetroot
    BY <1>3, NoPixmapIsNone DEF ConnectionsInv
  <2>2. Updated' = Updated
    <3>1. rootPixmap = esetroot \/ rootPixmap = NoPixmap
      BY DEF ConnectionsInv
    <3>2. rootPixmap # p
      BY <2>1, <3>1, NoPixmapIsNone
    <3>3. rootPixmap' = rootPixmap /\ pixmap' = [pixmap EXCEPT ![p] = "open"]
      BY <1>3
    <3>4. pixmap'[rootPixmap] = pixmap[rootPixmap]
      BY <3>2, <3>3 DEF SettingsInv, WallpaperTypeOK
    <3>5. Exists(rootPixmap)' = Exists(rootPixmap)
      BY <3>3, <3>4 DEF Exists
    <3> QED BY <3>3, <3>5 DEF Updated
  <2> QED BY <1>2, <1>3, <1>4, <2>1, <2>2 DEF TopInv
<1> QED BY <1>7, <1>8, <1>9
LEMMA FramesOfConnections ==
    ASSUME SettingsInv, ConnectionsInv
    PROVE  /\ Running \notin {"painted", "replaced"} => \A q \in Pixmap : pixmap[q] # "open"
           /\ own \subseteq Pixmap /\ esetroot \in Pixmap \cup {NoPixmap} /\ rootPixmap \in Pixmap \cup {NoPixmap}
           /\ pixmap \in [Pixmap -> {"new", "open", "keeping", "retained", "freed"}]
<1>1. ASSUME NEW q \in Pixmap, pixmap[q] = "open" PROVE Running \in {"painted", "replaced"}
  <2>1. Len(beingSet) > 0 /\ TopSetting.at \in {"painted", "replaced"}
    BY <1>1 DEF ConnectionsInv
  <2> QED BY <2>1, RunningIsTop
<1> QED BY <1>1 DEF SettingsInv, WallpaperTypeOK

LEMMA TopFrame ==
    ASSUME SettingsInv, Running \in {"painted", "replaced", "told", "handlers"}
    PROVE  /\ Len(beingSet) > 0 /\ Len(beingSet) \in Nat /\ TopSetting.at = Running
           /\ Running # "handlers" => TopSetting.new \in own
           /\ TopSetting = beingSet[Len(beingSet)]
<1>1. Len(beingSet) > 0
  <2>1. Len(beingSet) # 0
    BY RunningNothing
  <2> QED BY <2>1, SettingFrames
<1> QED BY <1>1, RunningIsTop, SettingFrames DEF SettingsInv

\* Who replaces the wallpaper leaves no pixmap of awesome that is to stay.
LEMMA ReplacingFrees ==
    ASSUME SettingsInv, ConnectionsInv, NEW K, NEW V,
           K = (IF esetroot = NoPixmap THEN pixmap ELSE Killed(pixmap, esetroot)),
           V = (IF esetroot # NoPixmap /\ pixmap[esetroot] = "keeping" THEN survivors \cup {esetroot}
                ELSE survivors)
    PROVE  /\ K \in [Pixmap -> {"new", "open", "keeping", "retained", "freed"}]
           /\ \A q \in Pixmap : q # esetroot => K[q] = pixmap[q]
           /\ \A q \in Pixmap : q = esetroot => K[q] \in {"retained", "freed"}
           /\ \A q \in own \ V : K[q] \notin {"keeping", "retained"}
           /\ V \subseteq Pixmap
<1>0. /\ own \subseteq Pixmap /\ esetroot \in Pixmap \cup {NoPixmap} /\ survivors \subseteq Pixmap
      /\ pixmap \in [Pixmap -> {"new", "open", "keeping", "retained", "freed"}]
  BY DEF SettingsInv, WallpaperTypeOK
<1>1. CASE esetroot = NoPixmap
  <2>1. K = pixmap /\ V = survivors
    BY <1>1
  <2>2. ASSUME NEW q \in own \ V PROVE K[q] \notin {"keeping", "retained"}
    BY <1>0, <1>1, <2>1, NoPixmapIsNone DEF ConnectionsInv
  <2> QED BY <1>0, <1>1, <2>1, <2>2, NoPixmapIsNone
<1>2. CASE esetroot # NoPixmap
  <2>1. esetroot \in Pixmap /\ pixmap[esetroot] # "new" /\ K = Killed(pixmap, esetroot)
    BY <1>0, <1>2 DEF ConnectionsInv
  <2>2. /\ K \in [Pixmap -> {"new", "open", "keeping", "retained", "freed"}]
        /\ \A q \in Pixmap : q # esetroot => K[q] = pixmap[q]
        /\ K[esetroot] \in {"retained", "freed"}
        /\ K[esetroot] = "retained" => pixmap[esetroot] = "keeping"
    BY <1>0, <2>1, KilledStates
  <2>3. ASSUME NEW q \in own \ V PROVE K[q] \notin {"keeping", "retained"}
    <3>1. CASE q = esetroot
      BY <1>2, <2>2, <2>3, <3>1
    <3>2. CASE q # esetroot
      <4>1. q \in own \ survivors /\ K[q] = pixmap[q]
        BY <1>0, <2>2, <2>3, <3>2
      <4> QED BY <3>2, <4>1 DEF ConnectionsInv
    <3> QED BY <3>1, <3>2
  <2>4. V \subseteq Pixmap
    BY <1>0, <2>1
  <2> QED BY <2>2, <2>3, <2>4
<1> QED BY <1>1, <1>2

\* The frames, when the innermost makes a step or returns.
LEMMA FramesStep ==
    ASSUME SettingsInv, Len(beingSet) > 0, NEW step \in {"replaced", "told"}, SettingAt(step),
           Running # "handlers", WallpaperTypeOK', UNCHANGED <<own, notify, programSteps>>
    PROVE  SettingsInv'
<1>1. /\ beingSet' \in Seq(SettingFrame) /\ Len(beingSet') = Len(beingSet) /\ Len(beingSet) \in Nat
      /\ \A i \in 1..Len(beingSet) - 1 : beingSet'[i] = beingSet[i]
      /\ beingSet'[Len(beingSet)] = [at |-> step, new |-> TopSetting.new]
  BY StepSetting, SettingFrames
<1>2. TopSetting.new \in own
  BY TopFrame, RunningIsTop DEF SettingFrame
<1>3. ASSUME NEW i \in 1..Len(beingSet')
      PROVE  /\ beingSet'[i].at # "handlers" => beingSet'[i].new \in own'
             /\ i < Len(beingSet') => beingSet'[i].at \in {"told", "handlers"}
  <2>1. CASE i = Len(beingSet)
    <3>1. beingSet'[i].new = TopSetting.new /\ ~(i < Len(beingSet'))
      BY <1>1, <2>1
    <3> QED BY <1>2, <3>1
  <2>2. CASE i # Len(beingSet)
    <3>1. i \in 1..Len(beingSet) /\ i < Len(beingSet) /\ beingSet'[i] = beingSet[i]
      BY <1>1, <2>2
    <3> QED BY <3>1 DEF SettingsInv
  <2> QED BY <2>1, <2>2
<1> QED BY <1>1, <1>3 DEF SettingsInv

LEMMA FramesPop ==
    ASSUME SettingsInv, Len(beingSet) > 0, beingSet' = SubSeq(beingSet, 1, Len(beingSet) - 1),
           WallpaperTypeOK', UNCHANGED <<own, notify, programSteps>>
    PROVE  SettingsInv' /\ Running' \in {"main loop", "told", "handlers"}
<1>1. /\ beingSet' \in Seq(SettingFrame) /\ Len(beingSet') = Len(beingSet) - 1 /\ Len(beingSet) \in Nat
      /\ \A i \in 1..Len(beingSet) - 1 : beingSet'[i] = beingSet[i]
  BY PopSetting, SettingFrames
<1>2. ASSUME NEW i \in 1..Len(beingSet')
      PROVE  /\ beingSet'[i].at # "handlers" => beingSet'[i].new \in own'
             /\ beingSet'[i].at \in {"told", "handlers"}
  <2>1. i \in 1..Len(beingSet) /\ i < Len(beingSet) /\ beingSet'[i] = beingSet[i]
    BY <1>1
  <2> QED BY <2>1 DEF SettingsInv
<1>3. SettingsInv'
  BY <1>1, <1>2 DEF SettingsInv
<1>4. Running' \in {"main loop", "told", "handlers"}
  <2>1. CASE Len(beingSet) = 1
    BY <2>1, PopSetting
  <2>2. CASE Len(beingSet) # 1
    <3>1. Running' = beingSet[Len(beingSet) - 1].at
      BY <2>2, PopSetting
    <3>2. Len(beingSet) - 1 \in 1..Len(beingSet) /\ Len(beingSet) - 1 < Len(beingSet)
      BY <1>1, <2>2
    <3> QED BY <3>1, <3>2 DEF SettingsInv
  <2> QED BY <2>1, <2>2
<1> QED BY <1>3, <1>4

LEMMA ReplaceInv == WallpaperIInv /\ Replace => WallpaperIInv'
<1> SUFFICES ASSUME WallpaperIInv, Replace PROVE WallpaperIInv'
  OBVIOUS
<1> USE DEF WallpaperIInv
<1>0. /\ Running = "painted" /\ Len(beingSet) > 0 /\ Len(beingSet) \in Nat
      /\ TopSetting = beingSet[Len(beingSet)] /\ TopSetting.new \in own
  BY TopFrame DEF Replace
<1>1. PICK n \in own : n = TopSetting.new
  BY <1>0
<1>2. n \in Pixmap /\ n # NoPixmap /\ n # esetroot /\ pixmap[n] = "open"
  BY <1>0, <1>1, FramesOfConnections, NoPixmapIsNone DEF TopInv
<1>3. /\ pixmap' = (IF esetroot = NoPixmap THEN pixmap ELSE Killed(pixmap, esetroot))
      /\ survivors' = (IF esetroot # NoPixmap /\ pixmap[esetroot] = "keeping" THEN survivors \cup {esetroot}
                       ELSE survivors)
      /\ rootPixmap' = n /\ esetroot' = n /\ SettingAt("replaced")
      /\ UNCHANGED <<wallpaper, notify, own, programSteps>>
  BY <1>0, <1>1 DEF Replace, Freed, Old
<1>4. /\ pixmap' \in [Pixmap -> {"new", "open", "keeping", "retained", "freed"}]
      /\ \A q \in Pixmap : q # esetroot => pixmap'[q] = pixmap[q]
      /\ \A q \in Pixmap : q = esetroot => pixmap'[q] \in {"retained", "freed"}
      /\ \A q \in own \ survivors' : pixmap'[q] \notin {"keeping", "retained"}
      /\ survivors' \subseteq Pixmap
  BY <1>3, ReplacingFrees
<1>5. WallpaperTypeOK'
  BY <1>2, <1>3, <1>4 DEF SettingsInv, WallpaperTypeOK
<1>6. SettingsInv'
  BY <1>0, <1>3, <1>5, FramesStep
<1>7. /\ Len(beingSet') = Len(beingSet) /\ \A i \in 1..Len(beingSet) - 1 : beingSet'[i] = beingSet[i]
      /\ TopSetting' = [at |-> "replaced", new |-> n] /\ Running' = "replaced"
  BY <1>0, <1>1, <1>3, StepSetting
<1>8. pixmap'[n] = "open"
  BY <1>2, <1>4
<1>9. ConnectionsInv'
  <2>1. ASSUME NEW q \in own' PROVE pixmap'[q] # "new"
    <3>1. q \in Pixmap /\ pixmap[q] # "new"
      BY <1>3, FramesOfConnections DEF ConnectionsInv
    <3> QED BY <1>4, <3>1
  <2>2. ASSUME NEW q \in Pixmap \ own' PROVE pixmap'[q] \in {"new", "retained", "freed"}
    <3>1. pixmap[q] \in {"new", "retained", "freed"}
      BY <1>3 DEF ConnectionsInv
    <3> QED BY <1>4, <3>1
  <2>3. ASSUME NEW q \in Pixmap, pixmap'[q] = "open"
        PROVE  Len(beingSet') > 0 /\ TopSetting'.new = q /\ TopSetting'.at \in {"painted", "replaced"}
    <3>1. pixmap[q] = "open"
      BY <1>4, <2>3
    <3>2. q = n
      BY <1>1, <3>1 DEF ConnectionsInv
    <3> QED BY <1>0, <1>7, <3>2
  <2>4. ASSUME NEW q \in Pixmap, pixmap'[q] = "keeping"
        PROVE  \E i \in 1..Len(beingSet') : beingSet'[i].new = q /\ beingSet'[i].at = "told"
    <3>1. pixmap[q] = "keeping"
      BY <1>4, <2>4
    <3>2. PICK i \in 1..Len(beingSet) : beingSet[i].new = q /\ beingSet[i].at = "told"
      BY <3>1 DEF ConnectionsInv
    <3>3. i # Len(beingSet)
      <4>1. TopSetting.at = "painted"
        BY <1>0, RunningIsTop
      <4> QED BY <1>0, <3>2, <4>1
    <3>4. i \in 1..Len(beingSet) - 1 /\ i \in 1..Len(beingSet')
      BY <1>0, <1>7, <3>3
    <3> QED BY <1>7, <3>2, <3>4
  <2> QED BY <1>2, <1>3, <1>4, <1>8, <2>1, <2>2, <2>3, <2>4 DEF ConnectionsInv
<1>10. TopInv'
  BY <1>3, <1>7, <1>8 DEF TopInv
<1> QED BY <1>6, <1>9, <1>10

LEMMA RetainInv == WallpaperIInv /\ Retain => WallpaperIInv'
<1> SUFFICES ASSUME WallpaperIInv, Retain PROVE WallpaperIInv'
  OBVIOUS
<1> USE DEF WallpaperIInv
<1>0. /\ Running = "replaced" /\ Len(beingSet) > 0 /\ Len(beingSet) \in Nat
      /\ TopSetting = beingSet[Len(beingSet)] /\ TopSetting.new \in own
  BY TopFrame DEF Retain
<1>1. PICK n \in own : n = TopSetting.new
  BY <1>0
<1>2. n \in Pixmap /\ n # NoPixmap /\ (pixmap[n] = "open" => n = esetroot)
  BY <1>0, <1>1, FramesOfConnections, NoPixmapIsNone DEF TopInv
<1>3. /\ pixmap' = [pixmap EXCEPT ![n] = IF @ = "open" THEN "keeping" ELSE @]
      /\ wallpaper' = n /\ SettingAt("told")
      /\ UNCHANGED <<rootPixmap, esetroot, notify, own, survivors, programSteps>>
  BY <1>0, <1>1 DEF Retain
<1>4. /\ pixmap' \in [Pixmap -> {"new", "open", "keeping", "retained", "freed"}]
      /\ \A q \in Pixmap : q # n => pixmap'[q] = pixmap[q]
      /\ pixmap'[n] = IF pixmap[n] = "open" THEN "keeping" ELSE pixmap[n]
  BY <1>2, <1>3, FramesOfConnections
<1>5. WallpaperTypeOK'
  BY <1>2, <1>3, <1>4 DEF SettingsInv, WallpaperTypeOK
<1>6. SettingsInv'
  BY <1>0, <1>3, <1>5, FramesStep
<1>7. /\ Len(beingSet') = Len(beingSet) /\ \A i \in 1..Len(beingSet) - 1 : beingSet'[i] = beingSet[i]
      /\ beingSet'[Len(beingSet)] = [at |-> "told", new |-> n] /\ Running' = "told"
  BY <1>0, <1>1, <1>3, StepSetting
<1>8. ConnectionsInv'
  <2>1. ASSUME NEW q \in own' PROVE pixmap'[q] # "new"
    <3>1. q \in Pixmap /\ pixmap[q] # "new"
      BY <1>3, FramesOfConnections DEF ConnectionsInv
    <3> QED BY <1>4, <3>1
  <2>2. ASSUME NEW q \in Pixmap \ own' PROVE pixmap'[q] \in {"new", "retained", "freed"}
    <3>1. pixmap[q] \in {"new", "retained", "freed"} /\ q # n
      BY <1>3 DEF ConnectionsInv
    <3> QED BY <1>4, <3>1
  <2>3. ASSUME NEW q \in Pixmap, pixmap'[q] = "open" PROVE FALSE
    <3>1. pixmap[q] = "open" /\ q # n
      BY <1>4, <2>3
    <3>2. q = n
      BY <1>1, <3>1 DEF ConnectionsInv
    <3> QED BY <3>1, <3>2
  <2>4. ASSUME NEW q \in Pixmap, pixmap'[q] = "keeping"
        PROVE  \E i \in 1..Len(beingSet') : beingSet'[i].new = q /\ beingSet'[i].at = "told"
    <3>1. CASE q = n
      <4>1. Len(beingSet) \in 1..Len(beingSet')
        BY <1>0, <1>7
      <4> QED BY <1>7, <3>1, <4>1
    <3>2. CASE q # n
      <4>1. pixmap[q] = "keeping"
        BY <1>4, <2>4, <3>2
      <4>2. PICK i \in 1..Len(beingSet) : beingSet[i].new = q /\ beingSet[i].at = "told"
        BY <4>1 DEF ConnectionsInv
      <4>3. i # Len(beingSet)
        BY <1>0, <1>1, <3>2, <4>2
      <4>4. i \in 1..Len(beingSet) - 1 /\ i \in 1..Len(beingSet')
        BY <1>0, <1>7, <4>3
      <4> QED BY <1>7, <4>2, <4>4
    <3> QED BY <3>1, <3>2
  <2>5. ASSUME NEW q \in own' \ survivors', pixmap'[q] \in {"keeping", "retained"} PROVE q = esetroot'
    <3>1. q \in own \ survivors /\ q \in Pixmap
      BY <1>3, FramesOfConnections
    <3>2. CASE pixmap[q] \in {"keeping", "retained"}
      BY <1>3, <3>1, <3>2 DEF ConnectionsInv
    <3>3. CASE pixmap[q] \notin {"keeping", "retained"}
      <4>1. q = n /\ pixmap[n] = "open"
        BY <1>4, <2>5, <3>1, <3>3
      <4> QED BY <1>2, <1>3, <4>1
    <3> QED BY <3>2, <3>3
  <2>6. esetroot' # NoPixmap => pixmap'[esetroot'] # "new"
    <3> SUFFICES ASSUME esetroot # NoPixmap PROVE pixmap'[esetroot] # "new"
      BY <1>3
    <3>1. esetroot \in Pixmap /\ pixmap[esetroot] # "new"
      BY FramesOfConnections DEF ConnectionsInv
    <3> QED BY <1>4, <3>1
  <2>7. rootPixmap' \in {esetroot', NoPixmap}
    BY <1>3 DEF ConnectionsInv
  <2> QED BY <2>1, <2>2, <2>3, <2>4, <2>5, <2>6, <2>7 DEF ConnectionsInv
<1>9. TopInv'
  <2>1. ASSUME notify = 0 PROVE wallpaper' = Updated'
    <3>1. rootPixmap = n /\ pixmap[n] = "open"
      BY <1>0, <1>1, <2>1 DEF TopInv
    <3>2. rootPixmap' = n /\ pixmap'[n] = "keeping"
      BY <1>3, <1>4, <3>1
    <3> QED BY <1>2, <1>3, <3>2 DEF Updated, Exists
  <2> QED BY <1>3, <1>7, <2>1 DEF TopInv
<1> QED BY <1>6, <1>8, <1>9
LEMMA CloseConnectionInv == WallpaperIInv /\ (CloseConnection \/ HandlersDone) => WallpaperIInv'
<1> SUFFICES ASSUME WallpaperIInv, CloseConnection \/ HandlersDone PROVE WallpaperIInv'
  OBVIOUS
<1> USE DEF WallpaperIInv
<1>0. /\ Running \in {"told", "handlers"} /\ Len(beingSet) > 0 /\ Len(beingSet) \in Nat
      /\ TopSetting = beingSet[Len(beingSet)] /\ TopSetting.at = Running
      /\ Running = "told" => TopSetting.new \in own
      /\ beingSet' = SubSeq(beingSet, 1, Len(beingSet) - 1)
      /\ UNCHANGED <<rootPixmap, esetroot, wallpaper, notify, own, survivors, programSteps>>
  BY TopFrame DEF CloseConnection, HandlersDone
\* Of the pixmaps, at most the frame's own changes, from keeping to retained.
<1>1. /\ pixmap' \in [Pixmap -> {"new", "open", "keeping", "retained", "freed"}]
      /\ \A q \in Pixmap : \/ pixmap'[q] = pixmap[q]
                           \/ pixmap[q] = "keeping" /\ pixmap'[q] = "retained"
      /\ \A q \in Pixmap : pixmap'[q] = "keeping" => Running = "handlers" \/ q # TopSetting.new
  <2>1. CASE HandlersDone
    <3>1. pixmap' = pixmap /\ Running = "handlers"
      BY <2>1 DEF HandlersDone
    <3> QED BY <3>1, FramesOfConnections
  <2>2. CASE CloseConnection
    <3>1. PICK n \in own : n = TopSetting.new
      BY <1>0, <2>2 DEF CloseConnection
    <3>2. pixmap' = [pixmap EXCEPT ![n] = Closed(@)]
      BY <1>0, <2>2, <3>1 DEF CloseConnection
    <3>3. \A q \in Pixmap : pixmap[q] # "open"
      BY <1>0, FramesOfConnections
    <3>4. n \in Pixmap /\ pixmap \in [Pixmap -> {"new", "open", "keeping", "retained", "freed"}]
      BY FramesOfConnections
    <3>5. Closed(pixmap[n]) = IF pixmap[n] = "keeping" THEN "retained" ELSE pixmap[n]
      BY <3>3, <3>4 DEF Closed
    <3> QED BY <3>1, <3>2, <3>4, <3>5
  <2> QED BY <2>1, <2>2
<1>2. WallpaperTypeOK'
  BY <1>0, <1>1 DEF SettingsInv, WallpaperTypeOK
<1>3. SettingsInv' /\ Running' \in {"main loop", "told", "handlers"}
  BY <1>0, <1>2, FramesPop
<1>4. /\ Len(beingSet') = Len(beingSet) - 1 /\ \A i \in 1..Len(beingSet) - 1 : beingSet'[i] = beingSet[i]
  BY <1>0, PopSetting
<1>5. \A q \in Pixmap : pixmap[q] # "open"
  BY <1>0, FramesOfConnections
<1>6. ConnectionsInv'
  <2>1. ASSUME NEW q \in own' PROVE pixmap'[q] # "new"
    <3>1. q \in Pixmap /\ pixmap[q] # "new"
      BY <1>0, FramesOfConnections DEF ConnectionsInv
    <3> QED BY <1>1, <3>1
  <2>2. ASSUME NEW q \in Pixmap \ own' PROVE pixmap'[q] \in {"new", "retained", "freed"}
    <3>1. pixmap[q] \in {"new", "retained", "freed"}
      BY <1>0 DEF ConnectionsInv
    <3> QED BY <1>1, <3>1
  <2>3. \A q \in Pixmap : pixmap'[q] # "open"
    BY <1>1, <1>5
  <2>4. ASSUME NEW q \in Pixmap, pixmap'[q] = "keeping"
        PROVE  \E i \in 1..Len(beingSet') : beingSet'[i].new = q /\ beingSet'[i].at = "told"
    <3>1. pixmap[q] = "keeping"
      BY <1>1, <2>4
    <3>2. PICK i \in 1..Len(beingSet) : beingSet[i].new = q /\ beingSet[i].at = "told"
      BY <3>1 DEF ConnectionsInv
    <3>3. i # Len(beingSet)
      <4> SUFFICES ASSUME i = Len(beingSet) PROVE FALSE
        OBVIOUS
      <4>1. TopSetting.new = q /\ TopSetting.at = "told"
        BY <1>0, <3>2
      <4> QED BY <1>0, <1>1, <2>4, <4>1
    <3>4. i \in 1..Len(beingSet) - 1 /\ i \in 1..Len(beingSet')
      BY <1>0, <1>4, <3>3
    <3> QED BY <1>4, <3>2, <3>4
  <2>5. ASSUME NEW q \in own' \ survivors', pixmap'[q] \in {"keeping", "retained"} PROVE q = esetroot'
    <3>1. q \in own \ survivors /\ q \in Pixmap
      BY <1>0, FramesOfConnections
    <3>2. pixmap[q] \in {"keeping", "retained"}
      BY <1>1, <2>5, <3>1
    <3> QED BY <1>0, <3>1, <3>2 DEF ConnectionsInv
  <2>6. esetroot' # NoPixmap => pixmap'[esetroot'] # "new"
    <3> SUFFICES ASSUME esetroot # NoPixmap PROVE pixmap'[esetroot] # "new"
      BY <1>0
    <3>1. esetroot \in Pixmap /\ pixmap[esetroot] # "new"
      BY FramesOfConnections DEF ConnectionsInv
    <3> QED BY <1>1, <3>1
  <2>7. rootPixmap' \in {esetroot', NoPixmap}
    BY <1>0 DEF ConnectionsInv
  <2> QED BY <2>1, <2>2, <2>3, <2>4, <2>5, <2>6, <2>7 DEF ConnectionsInv
<1>7. TopInv'
  <2>1. Updated' = Updated
    <3>1. \A q \in Pixmap : pixmap'[q] \in {"open", "keeping", "retained"} <=> pixmap[q] \in {"open", "keeping", "retained"}
      BY <1>1
    <3>2. Exists(rootPixmap)' = Exists(rootPixmap)
      <4>1. rootPixmap # NoPixmap => rootPixmap \in Pixmap
        BY FramesOfConnections
      <4> QED BY <1>0, <3>1, <4>1 DEF Exists
    <3> QED BY <1>0, <3>2 DEF Updated
  <2> QED BY <1>0, <1>3, <2>1 DEF TopInv
<1> QED BY <1>3, <1>6, <1>7

LEMMA PropertyNotifyInv == WallpaperIInv /\ PropertyNotify => WallpaperIInv'
<1> SUFFICES ASSUME WallpaperIInv, PropertyNotify PROVE WallpaperIInv'
  OBVIOUS
<1> USE DEF WallpaperIInv
<1> DEFINE f == [at |-> "handlers", new |-> NoPixmap]
<1>1. /\ Running = "main loop" /\ notify' \in Nat /\ wallpaper' = Updated /\ beingSet' = <<f>>
      /\ UNCHANGED <<pixmap, rootPixmap, esetroot, own, survivors, programSteps>>
  <2>1. notify \in Nat /\ notify > 0 /\ notify' = notify - 1
    BY DEF PropertyNotify, SettingsInv
  <2>2. notify' \in Nat
    BY <2>1
  <2> QED BY <2>2 DEF PropertyNotify
<1>2. f \in SettingFrame /\ f.at = "handlers"
  BY DEF SettingFrame
<1> HIDE DEF f
<1>3. /\ beingSet' \in Seq(SettingFrame) /\ Len(beingSet') = 1 /\ beingSet'[1] = f
  <2>1. <<f>> \in Seq(SettingFrame)
    BY ONLY <1>2
  <2>2. Len(<<f>>) = 1 /\ <<f>>[1] = f
    OBVIOUS
  <2> QED BY ONLY <1>1, <2>1, <2>2
<1>4. Len(beingSet) = 0
  <2> SUFFICES ASSUME Len(beingSet) > 0 PROVE FALSE
    BY SettingFrames
  <2>1. TopSetting \in SettingFrame /\ Running = TopSetting.at
    BY RunningIsTop
  <2> QED BY <1>1, <2>1 DEF SettingFrame
<1>5. Running' = "handlers"
  BY <1>1, <1>2, <1>3 DEF Running
<1>6. Updated \in Pixmap \cup {NoPixmap} /\ Updated' = Updated
  BY <1>1, FramesOfConnections DEF Updated, Exists
<1>7. WallpaperTypeOK'
  BY <1>1, <1>6 DEF SettingsInv, WallpaperTypeOK
<1>8. SettingsInv'
  <2>1. \A i \in 1..Len(beingSet') : beingSet'[i] = f /\ ~(i < Len(beingSet'))
    BY <1>3
  <2>2. \A i \in 1..Len(beingSet') : beingSet'[i].at = "handlers"
    BY <1>2, <2>1
  <2> QED BY <1>1, <1>3, <1>7, <2>1, <2>2 DEF SettingsInv
<1>9. ConnectionsInv'
  <2>1. \A q \in Pixmap : pixmap[q] # "open" /\ pixmap[q] # "keeping"
    <3>1. \A i \in 1..Len(beingSet) : FALSE
      BY <1>4
    <3> QED BY <1>1, <3>1, FramesOfConnections DEF ConnectionsInv
  <2> QED BY <1>1, <2>1 DEF ConnectionsInv
<1>10. TopInv'
  BY <1>1, <1>5, <1>6 DEF TopInv
<1> QED BY <1>8, <1>9, <1>10

LEMMA OtherReplacesInv == ASSUME WallpaperIInv, NEW p \in Pixmap, OtherReplaces(p) PROVE WallpaperIInv'
<1> USE DEF WallpaperIInv
<1> DEFINE K == IF esetroot = NoPixmap THEN pixmap ELSE Killed(pixmap, esetroot)
<1>1. /\ pixmap[p] = "new" /\ pixmap' = [K EXCEPT ![p] = "retained"]
      /\ survivors' = (IF esetroot # NoPixmap /\ pixmap[esetroot] = "keeping" THEN survivors \cup {esetroot}
                       ELSE survivors)
      /\ rootPixmap' = p /\ esetroot' = p /\ notify' = notify + 1 /\ programSteps' \in Nat
      /\ UNCHANGED <<wallpaper, beingSet, own>>
  BY DEF OtherReplaces, Fresh, SettingsInv
<1>2. /\ K \in [Pixmap -> {"new", "open", "keeping", "retained", "freed"}]
      /\ \A q \in Pixmap : q # esetroot => K[q] = pixmap[q]
      /\ \A q \in Pixmap : q = esetroot => K[q] \in {"retained", "freed"}
      /\ \A q \in own \ survivors' : K[q] \notin {"keeping", "retained"}
      /\ survivors' \subseteq Pixmap
  BY <1>1, ReplacingFrees
<1> HIDE DEF K
<1>3. /\ pixmap' \in [Pixmap -> {"new", "open", "keeping", "retained", "freed"}]
      /\ pixmap'[p] = "retained" /\ \A q \in Pixmap : q # p => pixmap'[q] = K[q]
  BY <1>1, <1>2
<1>4. p # NoPixmap /\ p # esetroot /\ p \notin own
  BY <1>1, NoPixmapIsNone DEF ConnectionsInv
<1>5. WallpaperTypeOK'
  BY <1>1, <1>2, <1>3 DEF SettingsInv, WallpaperTypeOK
<1>6. SettingsInv'
  BY <1>1, <1>5 DEF SettingsInv
<1>7. Running' = Running /\ TopSetting' = TopSetting
  BY <1>1 DEF Running, TopSetting
<1>8. ConnectionsInv'
  <2>1. ASSUME NEW q \in own' PROVE pixmap'[q] # "new"
    <3>1. q \in Pixmap /\ pixmap[q] # "new" /\ q # p
      BY <1>1, FramesOfConnections DEF ConnectionsInv
    <3> QED BY <1>2, <1>3, <3>1
  <2>2. ASSUME NEW q \in Pixmap \ own' PROVE pixmap'[q] \in {"new", "retained", "freed"}
    <3>1. pixmap[q] \in {"new", "retained", "freed"}
      BY <1>1 DEF ConnectionsInv
    <3> QED BY <1>2, <1>3, <3>1
  <2>3. ASSUME NEW q \in Pixmap, pixmap'[q] = "open"
        PROVE  Len(beingSet') > 0 /\ TopSetting'.new = q /\ TopSetting'.at \in {"painted", "replaced"}
    <3>1. pixmap[q] = "open"
      BY <1>2, <1>3, <2>3
    <3> QED BY <1>1, <1>7, <3>1 DEF ConnectionsInv
  <2>4. ASSUME NEW q \in Pixmap, pixmap'[q] = "keeping"
        PROVE  \E i \in 1..Len(beingSet') : beingSet'[i].new = q /\ beingSet'[i].at = "told"
    <3>1. pixmap[q] = "keeping"
      BY <1>2, <1>3, <2>4
    <3> QED BY <1>1, <3>1 DEF ConnectionsInv
  <2>5. ASSUME NEW q \in own' \ survivors', pixmap'[q] \in {"keeping", "retained"} PROVE q = esetroot'
    <3>1. q \in own \ survivors' /\ q \in Pixmap /\ q # p
      BY <1>1, <1>4, FramesOfConnections
    <3> QED BY <1>2, <1>3, <2>5, <3>1
  <2> QED BY <1>1, <1>3, <2>1, <2>2, <2>3, <2>4, <2>5 DEF ConnectionsInv
<1>9. TopInv'
  <2>1. notify' # 0 /\ rootPixmap' = p
    BY <1>1 DEF SettingsInv
  <2>2. ASSUME Running = "painted" PROVE pixmap'[TopSetting.new] = "open" /\ TopSetting.new # p
    <3>1. TopSetting.new \in Pixmap /\ TopSetting.new # esetroot /\ pixmap[TopSetting.new] = "open"
      BY <2>2, TopFrame, FramesOfConnections DEF TopInv
    <3> QED BY <1>1, <1>2, <1>3, <3>1
  <2>3. ASSUME Running = "replaced", pixmap'[TopSetting.new] = "open" PROVE FALSE
    <3>1. TopSetting.new \in Pixmap /\ (pixmap[TopSetting.new] = "open" => TopSetting.new = esetroot)
      BY <2>3, TopFrame, FramesOfConnections DEF TopInv
    <3> QED BY <1>2, <1>3, <2>3, <3>1
  <2> QED BY <1>1, <1>7, <2>1, <2>2, <2>3 DEF TopInv
<1> QED BY <1>6, <1>8, <1>9

LEMMA OtherClearsInv == WallpaperIInv /\ OtherClears => WallpaperIInv'
<1> SUFFICES ASSUME WallpaperIInv, OtherClears PROVE WallpaperIInv'
  OBVIOUS
<1> USE DEF WallpaperIInv
<1>1. /\ rootPixmap' = NoPixmap /\ notify' = notify + 1 /\ notify \in Nat /\ programSteps' \in Nat
      /\ UNCHANGED <<pixmap, esetroot, wallpaper, beingSet, own, survivors>>
  BY DEF OtherClears, SettingsInv
<1>2. Running' = Running /\ TopSetting' = TopSetting
  BY <1>1 DEF Running, TopSetting
<1>3. SettingsInv'
  BY <1>1 DEF SettingsInv, WallpaperTypeOK
<1>4. ConnectionsInv'
  BY <1>1, <1>2 DEF ConnectionsInv
<1>5. notify' # 0
  BY <1>1
<1>6. TopInv'
  BY <1>1, <1>2, <1>5 DEF TopInv
<1> QED BY <1>3, <1>4, <1>6

LEMMA RestartInv == WallpaperIInv /\ Restart => WallpaperIInv'
<1> SUFFICES ASSUME WallpaperIInv, Restart PROVE WallpaperIInv'
  OBVIOUS
<1> USE DEF WallpaperIInv
<1>1. /\ pixmap' = [p \in Pixmap |-> Closed(pixmap[p])] /\ programSteps' \in Nat
      /\ wallpaper' = (IF rootPixmap # NoPixmap /\ Closed(pixmap[rootPixmap]) = "retained" THEN rootPixmap
                       ELSE NoPixmap)
      /\ notify' = 0 /\ beingSet' = <<>> /\ UNCHANGED <<rootPixmap, esetroot, own, survivors>>
  BY DEF Restart, SettingsInv
<1>2. /\ pixmap' \in [Pixmap -> {"new", "open", "keeping", "retained", "freed"}]
      /\ \A q \in Pixmap : pixmap'[q] \in {"new", "retained", "freed"}
      /\ \A q \in Pixmap : pixmap'[q] = "new" => pixmap[q] = "new"
      /\ \A q \in Pixmap : pixmap'[q] = "retained" => pixmap[q] \in {"keeping", "retained"}
      /\ \A q \in Pixmap : pixmap'[q] = Closed(pixmap[q])
  BY <1>1, FramesOfConnections DEF Closed
<1>3. beingSet' \in Seq(SettingFrame) /\ Len(beingSet') = 0
  BY <1>1, EmptySeq
<1>4. Running' = "main loop"
  BY <1>1 DEF Running
<1>5. WallpaperTypeOK'
  BY <1>1, <1>2 DEF SettingsInv, WallpaperTypeOK
<1>6. SettingsInv'
  <2>1. \A i \in 1..0 : FALSE
    OBVIOUS
  <2> QED BY <1>1, <1>3, <1>5, <2>1 DEF SettingsInv
<1>7. ConnectionsInv'
  <2>1. \A q \in own' : pixmap'[q] # "new"
    BY <1>1, <1>2, FramesOfConnections DEF ConnectionsInv
  <2>2. \A q \in own' \ survivors' : pixmap'[q] \in {"keeping", "retained"} => q = esetroot'
    <3> SUFFICES ASSUME NEW q \in own \ survivors, pixmap'[q] \in {"keeping", "retained"} PROVE q = esetroot
      BY <1>1
    <3>1. q \in Pixmap /\ pixmap[q] \in {"keeping", "retained"}
      BY <1>2, FramesOfConnections
    <3> QED BY <3>1 DEF ConnectionsInv
  <2>3. esetroot' # NoPixmap => pixmap'[esetroot'] # "new"
    <3> SUFFICES ASSUME esetroot # NoPixmap PROVE pixmap'[esetroot] # "new"
      BY <1>1
    <3>1. esetroot \in Pixmap /\ pixmap[esetroot] # "new"
      BY FramesOfConnections DEF ConnectionsInv
    <3> QED BY <1>2, <3>1
  <2>4. rootPixmap' \in {esetroot', NoPixmap}
    BY <1>1 DEF ConnectionsInv
  <2>5. \A q \in Pixmap : pixmap'[q] \notin {"open", "keeping"}
    BY <1>2
  <2> QED BY <1>2, <2>1, <2>2, <2>3, <2>4, <2>5 DEF ConnectionsInv
<1>8. TopInv'
  <2>1. wallpaper' = Updated'
    <3>1. CASE rootPixmap = NoPixmap
      BY <1>1, <3>1 DEF Updated, Exists
    <3>2. CASE rootPixmap # NoPixmap
      <4>1. rootPixmap \in Pixmap
        BY <3>2, FramesOfConnections
      <4>2. pixmap'[rootPixmap] = Closed(pixmap[rootPixmap])
            /\ pixmap'[rootPixmap] \in {"new", "retained", "freed"}
        BY <1>2, <4>1
      <4>3. Exists(rootPixmap)' <=> pixmap'[rootPixmap] = "retained"
        BY <1>1, <3>2, <4>2 DEF Exists
      <4> QED BY <1>1, <3>2, <4>2, <4>3 DEF Updated
    <3> QED BY <3>1, <3>2
  <2> QED BY <1>4, <2>1 DEF TopInv
<1> QED BY <1>6, <1>7, <1>8

LEMMA WallpaperNextInv == WallpaperIInv /\ [WallpaperNext]_wallpaperVars => WallpaperIInv'
<1>1. ASSUME WallpaperIInv, UNCHANGED wallpaperVars PROVE WallpaperIInv'
  <2>1. Running' = Running /\ TopSetting' = TopSetting /\ Updated' = Updated
    BY <1>1 DEF wallpaperVars, Running, TopSetting, Updated, Exists
  <2> QED BY <1>1, <2>1 DEF wallpaperVars, WallpaperIInv, SettingsInv, WallpaperTypeOK, ConnectionsInv, TopInv
<1> QED
  BY <1>1, CreateInv, ReplaceInv, RetainInv, CloseConnectionInv, PropertyNotifyInv, OtherReplacesInv,
     OtherClearsInv, RestartInv DEF WallpaperNext

\* For any number of wallpapers, nested settings and steps of other programs: at rest
\* globalconf.wallpaper is the pixmap of the root window's property, and every pixmap of awesome that is
\* still there can be freed by the program that sets the next wallpaper.
THEOREM WallpapersAreKept == WallpaperSpec => []WallpaperInv
<1>1. WallpaperIInv => WallpaperInv
  <2> SUFFICES ASSUME WallpaperIInv PROVE WallpaperInv
    OBVIOUS
  <2> USE DEF WallpaperIInv
  <2>1. ASSUME beingSet = <<>> PROVE Len(beingSet) = 0 /\ Running = "main loop"
    BY <2>1, SettingFrames, RunningNothing
  <2>2. WallpaperIsCurrent
    BY <2>1 DEF TopInv, WallpaperIsCurrent
  <2>3. ASSUME beingSet = <<>>, NEW p \in own \ survivors, Exists(p) PROVE p = esetroot
    <3>1. p \in Pixmap /\ pixmap[p] # "open"
      BY <2>1, <2>3, FramesOfConnections
    <3>2. pixmap[p] \in {"keeping", "retained"}
      BY <2>3, <3>1 DEF Exists
    <3> QED BY <3>2 DEF ConnectionsInv
  <2> QED BY <2>2, <2>3 DEF WallpaperInv, NoWallpaperIsLeft, SettingsInv
<1> QED BY <1>1, WallpaperInitInv, WallpaperNextInv, PTL DEF WallpaperSpec

-----------------------------------------------------------------------------
(* Workarea.                                                               *)

UpdateStep == [do : {"update"}, screen : AreaScreen]
EmitStep == [do : {"emit"}]
LateStep == [do : {"late"}, drawin : AreaDrawin, old : AreaScreen \cup {0}]
AreaStep == UpdateStep \cup EmitStep \cup LateStep

\* The steps that update screen s, or will, as drawins are now.
Covers(step, s) ==
    \/ step.do = "update" /\ step.screen = s
    \/ /\ step.do = "late" /\ strut[step.drawin] # NoStrut
       /\ IF step.old = 0 THEN s = screen[step.drawin]
          ELSE step.old # screen[step.drawin] /\ s \in {step.old, screen[step.drawin]}

TodoCovers(todo, s) == \E j \in 1..Len(todo) : Covers(todo[j], s)
IsCovered(s) == \E i \in 1..Len(running) : TodoCovers(running[i].todo, s)

\* A late step is the last one.
TodoOK(todo) ==
    /\ todo \in Seq(AreaStep)
    /\ \A j \in 1..Len(todo) : todo[j].do = "late" => j = Len(todo)

FramesInv ==
    /\ running \in Seq([todo : Seq(AreaStep), calling : BOOLEAN])
    /\ Len(running) <= MaxNesting
    /\ \A i \in 1..Len(running) : TodoOK(running[i].todo)

AreaTypeInv ==
    /\ managed \subseteq AreaClient /\ taggedWith \subseteq AreaClient /\ shown \subseteq AreaDrawin
    /\ screen \in [Object -> AreaScreen] /\ strut \in [Object -> Strut]
    /\ flags \in [AreaClient -> SUBSET Flag]
    /\ DOMAIN workarea = AreaScreen /\ overlooked \subseteq AreaScreen

\* The work area of a screen is right, or to be updated by a function that runs, or overlooked.
IsFollowed(s) == s \in overlooked \/ workarea[s] = Computed(s) \/ IsCovered(s)

WorkareaIInv == AreaTypeInv /\ FramesInv /\ \A s \in AreaScreen : IsFollowed(s)
-----------------------------------------------------------------------------
(* Sequences of steps.                                                     *)

\* What SetToSeq returns.
LEMMA SetToSeqFacts ==
    ASSUME NEW S, IsFiniteSet(S)
    PROVE  /\ SetToSeq(S) \in Seq(S)
           /\ \A x \in S : \E i \in 1..Len(SetToSeq(S)) : SetToSeq(S)[i] = x
<1> DEFINE n == Cardinality(S)
           q == SetToSeq(S)
<1>1. n \in Nat /\ ExistsBijection(1..n, S)
  BY FS_CardinalityType
<1>2. \E f \in [1..n -> S] : IsInjective(f)
  BY <1>1 DEF ExistsBijection, Bijection, Injection
<1>3. q \in [1..n -> S] /\ IsInjective(q)
  BY <1>2 DEF SetToSeq
<1> HIDE DEF q
<1>4. q \in Seq(S)
  BY <1>1, <1>3, SeqDef
<1>5. DOMAIN q = 1..Len(q) /\ DOMAIN q = 1..n
  BY <1>3, <1>4, LenProperties
<1>6. q \in Injection(1..n, S)
  BY <1>3 DEF Injection
<1>7. IsFiniteSet(1..n) /\ Cardinality(1..n) = n
  BY <1>1, FS_Interval
<1>8. q \in Surjection(1..n, S)
  BY <1>6, <1>7, FS_Injection
<1>9. \A x \in S : \E i \in 1..Len(q) : q[i] = x
  BY <1>5, <1>8 DEF Surjection
<1> QED BY <1>4, <1>9 DEF q

LEMMA StepKinds ==
    /\ \A s \in AreaScreen : Update(s) \in UpdateStep /\ Update(s).do = "update" /\ Update(s).screen = s
    /\ Emit \in EmitStep /\ Emit.do = "emit"
    /\ \A d \in AreaDrawin, old \in AreaScreen \cup {0} :
          /\ Late(d, old) \in LateStep /\ Late(d, old).do = "late"
          /\ Late(d, old).drawin = d /\ Late(d, old).old = old
    /\ \A x \in UpdateStep : x.do = "update" /\ x.screen \in AreaScreen
    /\ \A x \in EmitStep : x.do = "emit"
    /\ \A x \in LateStep : x.do = "late" /\ x.drawin \in AreaDrawin /\ x.old \in AreaScreen \cup {0}
  BY DEF Update, Emit, Late, UpdateStep, EmitStep, LateStep

IsPlain(todo) == todo \in Seq(UpdateStep \cup EmitStep)

LEMMA PlainOK == ASSUME NEW todo, IsPlain(todo) PROVE todo \in Seq(AreaStep) /\ TodoOK(todo)
<1>1. todo \in Seq(AreaStep)
  <2>1. UpdateStep \cup EmitStep \subseteq AreaStep
    BY DEF AreaStep
  <2> QED BY <2>1, SeqMonotonic DEF IsPlain
<1>2. ASSUME NEW j \in 1..Len(todo) PROVE todo[j].do # "late"
  <2>1. todo[j] \in UpdateStep \cup EmitStep
    BY ElementOfSeq DEF IsPlain
  <2> QED BY <2>1, StepKinds
<1> QED BY <1>1, <1>2 DEF TodoOK

LEMMA CoversConcat ==
    ASSUME NEW a \in Seq(AreaStep), NEW b \in Seq(AreaStep), NEW s
    PROVE  /\ TodoCovers(a, s) => TodoCovers(a \o b, s)
           /\ TodoCovers(b, s) => TodoCovers(a \o b, s)
<1>1. /\ Len(a) \in Nat /\ Len(b) \in Nat /\ Len(a \o b) = Len(a) + Len(b)
      /\ \A j \in 1..Len(a) : (a \o b)[j] = a[j] /\ j \in 1..Len(a \o b)
      /\ \A j \in 1..Len(b) : (a \o b)[Len(a) + j] = b[j] /\ Len(a) + j \in 1..Len(a \o b)
  BY ConcatProperties, LenProperties
<1>2. ASSUME NEW j \in 1..Len(a), Covers(a[j], s) PROVE TodoCovers(a \o b, s)
  BY <1>1, <1>2 DEF TodoCovers
<1>3. ASSUME NEW j \in 1..Len(b), Covers(b[j], s) PROVE TodoCovers(a \o b, s)
  BY <1>1, <1>3 DEF TodoCovers
<1> QED BY <1>2, <1>3 DEF TodoCovers

LEMMA UpdateCovers ==
    ASSUME NEW s \in AreaScreen PROVE Covers(Update(s), s)
  BY StepKinds DEF Covers

LEMMA UpdateAllFacts ==
    /\ IsPlain(UpdateAll)
    /\ \A s \in AreaScreen : \E j \in 1..Len(UpdateAll) : UpdateAll[j] = Update(s)
<1> DEFINE S == {Update(s) : s \in AreaScreen}
           f == [s \in AreaScreen |-> Update(s)]
<1>1. f \in Surjection(AreaScreen, S)
  BY DEF Surjection
<1>2. IsFiniteSet(S)
  BY <1>1, FS_Surjection, WorkareaAssumption
<1>3. /\ UpdateAll \in Seq(S)
      /\ \A x \in S : \E j \in 1..Len(UpdateAll) : UpdateAll[j] = x
  BY <1>2, SetToSeqFacts DEF UpdateAll
<1>4. S \subseteq UpdateStep \cup EmitStep
  BY StepKinds
<1>5. IsPlain(UpdateAll)
  BY <1>3, <1>4, SeqMonotonic DEF IsPlain
<1> QED BY <1>3, <1>5

LEMMA PlainTodos ==
    ASSUME NEW s \in AreaScreen
    PROVE  /\ IsPlain(<<>>) /\ IsPlain(<<Emit>>)
           /\ IsPlain(<<Update(s)>>) /\ IsPlain(<<Update(s), Emit>>)
           /\ \A t \in AreaScreen : IsPlain(<<Update(t), Update(s)>>)
<1> DEFINE P == UpdateStep \cup EmitStep
<1>1. Emit \in P /\ \A t \in AreaScreen : Update(t) \in P
  BY StepKinds
<1> HIDE DEF P
<1>2. <<>> \in Seq(P) /\ \A x, y \in P : <<x>> \in Seq(P) /\ <<x, y>> \in Seq(P)
  OBVIOUS
<1> QED BY <1>1, <1>2 DEF P, IsPlain

LEMMA PlainEmit == IsPlain(<<Emit>>)
<1> DEFINE P == UpdateStep \cup EmitStep
<1>1. Emit \in P
  BY StepKinds
<1> HIDE DEF P
<1>2. <<Emit>> \in Seq(P)
  BY <1>1
<1> QED BY <1>2 DEF P, IsPlain

LEMMA PlainConcat ==
    ASSUME NEW a, NEW b, IsPlain(a), IsPlain(b) PROVE IsPlain(a \o b)
  BY ConcatProperties DEF IsPlain

-----------------------------------------------------------------------------
(* The area.                                                               *)

\* What counts for a screen: a strut that is none leaves all of it.
Contributes(o, s) == o \in Counted(s) /\ strut[o] # NoStrut

LEMMA SameComputed ==
    ASSUME NEW s,
           \A o \in Object : /\ Contributes(o, s)' <=> Contributes(o, s)
                             /\ Contributes(o, s) => strut'[o] = strut[o]
    PROVE  Computed(s)' = Computed(s)
<1> DEFINE L == {strut[o].left : o \in Counted(s)} \cup {0}
           R == {strut[o].right : o \in Counted(s)} \cup {0}
           C == {o \in Object : Contributes(o, s)}
           LC == {strut[o].left : o \in C} \cup {0}
           RC == {strut[o].right : o \in C} \cup {0}
<1>1. Counted(s) \subseteq Object /\ (Counted(s) \subseteq Object)'
  BY DEF Counted
<1>2. L = LC /\ R = RC
  BY <1>1, WorkareaAssumption DEF Contributes
<1>3. L' = LC' /\ R' = RC'
  BY <1>1, WorkareaAssumption DEF Contributes
<1>4. C' = C /\ \A o \in C : strut'[o] = strut[o]
  OBVIOUS
<1> HIDE DEF C
<1>5. LC' = LC /\ RC' = RC
  BY <1>4
<1>6. L' = L /\ R' = R
  BY <1>2, <1>3, <1>5
<1>7. /\ Computed(s) = [left |-> Max(L), width |-> ScreenWidth - Min({ScreenWidth, Max(L) + Max(R)})]
      /\ Computed(s)' = [left |-> Max(L'), width |-> ScreenWidth - Min({ScreenWidth, Max(L') + Max(R')})]
  BY DEF Computed
<1> QED BY <1>6, <1>7
-----------------------------------------------------------------------------
(* Calls and returns.                                                      *)

\* A call whose steps see to every screen that it changes keeps the invariant.
LEMMA CallFollows ==
    ASSUME WorkareaIInv, NEW todo, AreaCall(todo), TodoOK(todo), AreaTypeInv',
           overlooked \subseteq overlooked',
           \A s \in AreaScreen :
              \/ TodoCovers(todo, s)' \/ s \in overlooked'
              \/ /\ Computed(s)' = Computed(s)
                 /\ \A step \in AreaStep : Covers(step, s) => Covers(step, s)' \/ TodoCovers(todo, s)'
    PROVE  WorkareaIInv'
<1> DEFINE F == [todo : Seq(AreaStep), calling : BOOLEAN]
           fr == [todo |-> todo, calling |-> FALSE]
<1> PICK n : n = Len(running)
  OBVIOUS
<1>1. /\ n = Len(running)
      /\ running' = Append(running, fr) /\ n < MaxNesting /\ workarea' = workarea
      /\ running \in Seq(F) /\ n \in Nat /\ fr \in F /\ MaxNesting \in Nat
  BY LenProperties, WorkareaAssumption DEF WorkareaIInv, FramesInv, AreaCall, MayCall, TodoOK
<1>2. /\ running' \in Seq(F) /\ Len(running') = n + 1
      /\ running'[n + 1] = fr /\ \A i \in 1..n : running'[i] = running[i]
  <2> HIDE DEF F, fr
  <2> QED BY <1>1, AppendProperties
<1>3. \A i \in 1..n + 1 : i = n + 1 \/ i \in 1..n
  BY <1>1
<1>4. \A i \in 1..n + 1 : TodoOK(running'[i].todo)
  BY <1>1, <1>2, <1>3 DEF WorkareaIInv, FramesInv
<1>5. FramesInv'
  <2>1. n + 1 <= MaxNesting
    BY <1>1
  <2> QED BY <1>2, <1>4, <2>1 DEF FramesInv, TodoOK
<1>6. ASSUME NEW s, TodoCovers(todo, s)' PROVE IsCovered(s)'
  <2>1. n + 1 \in 1..Len(running')
    BY <1>1, <1>2
  <2>2. TodoCovers(running[n + 1].todo, s)'
    BY <1>1, <1>2, <1>6 DEF TodoCovers
  <2> QED BY <1>1, <1>2, <2>1, <2>2 DEF IsCovered
<1>7. ASSUME NEW s \in AreaScreen PROVE IsFollowed(s)'
  <2>1. CASE TodoCovers(todo, s)'
    BY <2>1, <1>6 DEF IsFollowed
  <2>2. CASE s \in overlooked'
    BY <2>2 DEF IsFollowed
  <2>3. CASE /\ Computed(s)' = Computed(s)
             /\ \A step \in AreaStep : Covers(step, s) => Covers(step, s)' \/ TodoCovers(todo, s)'
    <3>1. CASE s \in overlooked
      BY <3>1 DEF IsFollowed
    <3>2. CASE workarea[s] = Computed(s)
      BY <3>2, <2>3, <1>1 DEF IsFollowed
    <3>3. CASE IsCovered(s)
      <4>1. PICK i \in 1..n : TodoCovers(running[i].todo, s)
        BY <3>3 DEF IsCovered
      <4>2. PICK j \in 1..Len(running[i].todo) : Covers(running[i].todo[j], s)
        BY <4>1 DEF TodoCovers
      <4>3. running[i].todo \in Seq(AreaStep)
        <5>1. running[i] \in F
          <6> HIDE DEF F
          <6> QED BY <1>1, <4>1, ElementOfSeq
        <5> QED BY <5>1
      <4>4. running[i].todo[j] \in AreaStep
        BY <4>3, ElementOfSeq
      <4>5. PICK td \in Seq(AreaStep) : td = running[i].todo
        BY <4>3
      <4>6. PICK st \in AreaStep : st = td[j]
        BY <4>4, <4>5
      <4>7. Covers(st, s)' \/ TodoCovers(todo, s)'
        BY <2>3, <4>2, <4>5, <4>6
      <4>8. ASSUME Covers(st, s)' PROVE IsCovered(s)'
        <5>1. TodoCovers(td, s)'
          BY <4>2, <4>5, <4>6, <4>8 DEF TodoCovers
        <5>2. running'[i].todo = td /\ i \in 1..Len(running')
          BY <1>1, <1>2, <4>5
        <5>3. TodoCovers(running[i].todo, s)'
          BY <5>1, <5>2 DEF TodoCovers
        <5> QED BY <5>2, <5>3 DEF IsCovered
      <4> QED BY <4>7, <4>8, <1>6 DEF IsFollowed
    <3> QED BY <3>1, <3>2, <3>3, <2>3 DEF WorkareaIInv, IsFollowed
  <2> QED BY <2>1, <2>2, <2>3
<1> QED BY <1>5, <1>7 DEF WorkareaIInv

\* Running on with rest: whatever the frames below or rest see to is still seen to.
LEMMA GoesKeeps ==
    ASSUME FramesInv, running # <<>>, NEW rest, NEW calling \in BOOLEAN, TodoOK(rest),
           Goes(rest, calling), UNCHANGED <<screen, strut>>
    PROVE  /\ FramesInv'
           /\ \A s : \A i \in 1..Len(running) - 1 : TodoCovers(running[i].todo, s) => IsCovered(s)'
           /\ \A s : TodoCovers(rest, s) => IsCovered(s)'
<1> DEFINE F == [todo : Seq(AreaStep), calling : BOOLEAN]
           n == Len(running)
           below == SubSeq(running, 1, n - 1)
           fr == [todo |-> rest, calling |-> calling]
<1>1. running \in Seq(F) /\ n \in Nat /\ n >= 1 /\ MaxNesting \in Nat /\ n <= MaxNesting
  BY LenProperties, EmptySeq, WorkareaAssumption DEF FramesInv
<1>2. below \in Seq(F) /\ Len(below) = n - 1 /\ \A i \in 1..n - 1 : below[i] = running[i]
  <2> HIDE DEF F
  <2>1. \A i \in 1..n - 1 : running[i] \in F
    BY <1>1, ElementOfSeq
  <2>2. n - 1 \in Int /\ 1 \in Int
    BY <1>1
  <2>3. /\ below \in Seq(F) /\ Len(below) = IF 1 <= n - 1 THEN n - 1 - 1 + 1 ELSE 0
        /\ \A i \in 1..n - 1 - 1 + 1 : below[i] = running[1 + i - 1]
    BY <2>1, <2>2, SubSeqProperties
  <2>4. \A k \in Nat : k >= 1 =>
           /\ k - 1 - 1 + 1 = k - 1 /\ (IF 1 <= k - 1 THEN k - 1 - 1 + 1 ELSE 0) = k - 1
           /\ \A i \in 1..k - 1 : 1 + i - 1 = i
    OBVIOUS
  <2>5. n \in Nat /\ n >= 1
    BY <1>1
  <2>6. /\ n - 1 - 1 + 1 = n - 1 /\ (IF 1 <= n - 1 THEN n - 1 - 1 + 1 ELSE 0) = n - 1
        /\ \A i \in 1..n - 1 : 1 + i - 1 = i
    <3> HIDE DEF n
    <3> QED BY <2>4, <2>5
  <2> HIDE DEF below
  <2> QED BY <2>3, <2>6
<1>3. fr \in F /\ fr.todo = rest
  BY DEF TodoOK
<1>4. \/ running' = below \o <<>> /\ rest = <<>>
      \/ running' = below \o <<fr>>
  BY DEF Goes
<1>5. \A s, t : Covers(t, s)' <=> Covers(t, s)
  BY DEF Covers
<1>6. \A i \in 1..n - 1 : TodoOK(running[i].todo)
  BY <1>1 DEF FramesInv
<1>7. CASE running' = below \o <<>> /\ rest = <<>>
  <2>1. running' = below
    <3> HIDE DEF F, below
    <3> QED BY <1>2, <1>7
  <2>2. FramesInv'
    <3>1. \A i \in 1..n - 1 : TodoOK(running'[i].todo)
      BY <1>2, <1>6, <2>1
    <3>2. n - 1 <= MaxNesting
      BY <1>1
    <3> QED BY <1>2, <2>1, <3>1, <3>2 DEF FramesInv, TodoOK
  <2>3. ASSUME NEW s, NEW i \in 1..n - 1, TodoCovers(running[i].todo, s) PROVE IsCovered(s)'
    <3>1. running'[i] = running[i] /\ i \in 1..Len(running')
      BY <1>2, <2>1
    <3> QED BY <1>5, <2>3, <3>1 DEF IsCovered, TodoCovers
  <2>4. \A s : ~TodoCovers(rest, s)
    BY <1>7, EmptySeq DEF TodoCovers
  <2> QED BY <2>2, <2>3, <2>4
<1>8. CASE running' = below \o <<fr>>
  <2>1. /\ running' \in Seq(F) /\ Len(running') = n /\ running'[n] = fr
        /\ \A i \in 1..n - 1 : running'[i] = running[i]
    <3> HIDE DEF F, fr, below
    <3>1. <<fr>> \in Seq(F) /\ Len(<<fr>>) = 1 /\ <<fr>>[1] = fr
      BY <1>3
    <3>2. /\ below \o <<fr>> \in Seq(F) /\ Len(below \o <<fr>>) = Len(below) + 1
          /\ \A i \in 1..Len(below) : (below \o <<fr>>)[i] = below[i]
          /\ (below \o <<fr>>)[Len(below) + 1] = fr
      <4>1. Len(below) \in Nat /\ below \in Seq(F)
        BY <1>1, <1>2
      <4> HIDE DEF below, fr
      <4> QED BY <4>1, <3>1, ConcatProperties
    <3>3. n - 1 + 1 = n
      BY <1>1
    <3> QED BY <1>2, <1>8, <3>2, <3>3
  <2>2. FramesInv'
    <3>1. \A i \in 1..n : i = n \/ i \in 1..n - 1
      BY <1>1
    <3>2. \A i \in 1..n : TodoOK(running'[i].todo)
      BY <1>3, <1>6, <2>1, <3>1
    <3> QED BY <1>1, <2>1, <3>2 DEF FramesInv, TodoOK
  <2>3. ASSUME NEW s, NEW i \in 1..n - 1, TodoCovers(running[i].todo, s) PROVE IsCovered(s)'
    <3>1. running'[i] = running[i] /\ i \in 1..Len(running')
      BY <1>1, <2>1
    <3> QED BY <1>5, <2>3, <3>1 DEF IsCovered, TodoCovers
  <2>4. ASSUME NEW s, TodoCovers(rest, s) PROVE IsCovered(s)'
    <3>1. running'[n].todo = rest /\ n \in 1..Len(running')
      BY <1>1, <1>3, <2>1
    <3> QED BY <1>5, <2>4, <3>1 DEF IsCovered, TodoCovers
  <2> QED BY <2>2, <2>3, <2>4
<1> QED BY <1>4, <1>7, <1>8
\* Late steps look at drawins.
LEMMA CoversSame ==
    ASSUME \A d \in AreaDrawin : screen'[d] = screen[d] /\ strut'[d] = strut[d],
           NEW step \in AreaStep, NEW s, Covers(step, s)
    PROVE  Covers(step, s)'
<1>1. CASE step.do = "update"
  BY <1>1 DEF Covers
<1>2. CASE step.do # "update"
  <2>1. step \in LateStep
    BY <1>2, StepKinds DEF Covers, AreaStep
  <2>2. step.drawin \in AreaDrawin
    BY <2>1, StepKinds
  <2> QED BY <2>2 DEF Covers
<1> QED BY <1>1, <1>2

\* A change of clients, as far as it changes only what one of them contributes to screens
\* that the call updates.
LEMMA ClientCallFollows ==
    ASSUME WorkareaIInv, NEW todo, AreaCall(todo), IsPlain(todo), AreaTypeInv',
           overlooked \subseteq overlooked', shown' = shown,
           NEW c \in AreaClient,
           \A o \in Object \ {c} : /\ screen'[o] = screen[o] /\ strut'[o] = strut[o]
                                   /\ o \in AreaClient => (IsVisible(o)' <=> IsVisible(o)),
           \A s \in AreaScreen :
              \/ \E j \in 1..Len(todo) : todo[j] = Update(s)
              \/ s \in overlooked'
              \/ Computed(s)' = Computed(s)
              \/ /\ Contributes(c, s)' <=> Contributes(c, s)
                 /\ Contributes(c, s) => strut'[c] = strut[c]
    PROVE  WorkareaIInv'
<1>1. TodoOK(todo)
  BY PlainOK
<1>2. \A d \in AreaDrawin : d \in Object \ {c}
  BY WorkareaAssumption DEF Object
<1>3. ASSUME NEW step \in AreaStep, NEW s, Covers(step, s) PROVE Covers(step, s)'
  BY <1>2, <1>3, CoversSame
<1>4. ASSUME NEW s \in AreaScreen
      PROVE  \/ TodoCovers(todo, s)' \/ s \in overlooked'
             \/ Computed(s)' = Computed(s)
  <2>1. CASE \E j \in 1..Len(todo) : todo[j] = Update(s)
    <3>1. Covers(Update(s), s)'
      BY StepKinds DEF Covers
    <3> QED BY <2>1, <3>1 DEF TodoCovers
  <2>2. CASE /\ Contributes(c, s)' <=> Contributes(c, s)
             /\ Contributes(c, s) => strut'[c] = strut[c]
    <3>1. ASSUME NEW o \in Object \ {c}
          PROVE  /\ Contributes(o, s)' <=> Contributes(o, s)
                 /\ Contributes(o, s) => strut'[o] = strut[o]
      BY DEF Contributes, Counted
    <3>2. \A o \in Object : /\ Contributes(o, s)' <=> Contributes(o, s)
                            /\ Contributes(o, s) => strut'[o] = strut[o]
      BY <2>2, <3>1
    <3> QED BY <3>2, SameComputed
  <2> QED BY <2>1, <2>2
<1> QED BY <1>1, <1>3, <1>4, CallFollows

LEMMA UnnoticedFacts ==
    ASSUME AreaTypeInv, Unnoticed
    PROVE  /\ overlooked \subseteq overlooked' /\ (overlooked \subseteq AreaScreen)'
           /\ \A s \in AreaScreen : s \in overlooked' \/ Computed(s)' = Computed(s)
  BY DEF Unnoticed, AreaTypeInv

-----------------------------------------------------------------------------
(* Each call.                                                              *)

LEMMA ManageClientKeeps ==
    ASSUME WorkareaIInv, NEW c \in AreaClient, NEW s0 \in AreaScreen, NEW v \in Strut,
           NEW isSticky \in BOOLEAN, ManageClient(c, s0, v, isSticky)
    PROVE  WorkareaIInv'
<1> DEFINE todo == IF isSticky /\ v # NoStrut THEN <<Update(s0), Emit>> ELSE <<Emit>>
<1>1. AreaTypeInv'
  BY DEF WorkareaIInv, AreaTypeInv, ManageClient, Noticed, AreaCall, Flag
<1>2. IsPlain(todo)
  BY PlainTodos
<1>3. /\ overlooked' = overlooked /\ shown' = shown /\ AreaCall(todo)
      /\ \A o \in Object \ {c} : screen'[o] = screen[o] /\ strut'[o] = strut[o]
  BY DEF ManageClient, Noticed, WorkareaIInv, AreaTypeInv
<1>4. ASSUME NEW o \in AreaClient, o # c PROVE IsVisible(o)' <=> IsVisible(o)
  BY <1>4 DEF ManageClient, IsVisible, WorkareaIInv, AreaTypeInv
<1>5. ASSUME NEW s \in AreaScreen
      PROVE  \/ \E j \in 1..Len(todo) : todo[j] = Update(s)
             \/ /\ Contributes(c, s)' <=> Contributes(c, s)
                /\ Contributes(c, s) => strut'[c] = strut[c]
  <2>1. ~Contributes(c, s)
    BY DEF Contributes, Counted, IsVisible, ManageClient
  <2>2. CASE s = s0 /\ isSticky /\ v # NoStrut
    <3>1. todo[1] = Update(s) /\ 1 \in 1..Len(todo)
      BY <2>2
    <3> QED BY <3>1
  <2>3. CASE ~(s = s0 /\ isSticky /\ v # NoStrut)
    <3>1. /\ screen'[c] = s0 /\ strut'[c] = v /\ flags'[c] = IF isSticky THEN {"sticky"} ELSE {}
          /\ c \notin taggedWith' /\ c \in Object
      BY DEF ManageClient, WorkareaIInv, AreaTypeInv, Object
    <3>2. ~Contributes(c, s)'
      BY <2>3, <3>1 DEF Contributes, Counted, IsVisible
    <3> QED BY <2>1, <3>2
  <2> QED BY <2>2, <2>3
<1> HIDE DEF todo
<1> QED BY <1>1, <1>2, <1>3, <1>4, <1>5, ClientCallFollows

LEMMA UnmanageClientKeeps ==
    ASSUME WorkareaIInv, NEW c \in AreaClient, UnmanageClient(c)
    PROVE  WorkareaIInv'
<1>1. screen[c] \in AreaScreen /\ c \in Object
  BY DEF WorkareaIInv, AreaTypeInv, Object
<1> PICK s0 \in AreaScreen : s0 = screen[c]
  BY <1>1
<1> PICK first : first = (IF c \in taggedWith \ taggedWith' THEN <<Update(s0), Emit>> ELSE <<>>)
  OBVIOUS
<1> PICK last : last = IfStrut(c, <<Update(s0)>>)
  OBVIOUS
<1> DEFINE todo == first \o <<Emit>> \o last
<1>2. AreaTypeInv'
  BY DEF WorkareaIInv, AreaTypeInv, UnmanageClient, Noticed, AreaCall
<1>3. IsPlain(first) /\ IsPlain(last) /\ IsPlain(<<Emit>>)
  BY PlainTodos DEF IfStrut
<1>4. IsPlain(first \o <<Emit>>) /\ IsPlain(todo)
  BY <1>3, PlainConcat
<1>5. /\ overlooked' = overlooked /\ shown' = shown /\ AreaCall(todo)
      /\ screen' = screen /\ strut' = strut
  BY DEF UnmanageClient, Noticed
<1>6. ASSUME NEW o \in AreaClient, o # c PROVE IsVisible(o)' <=> IsVisible(o)
  BY <1>6 DEF UnmanageClient, IsVisible
<1>7. ASSUME NEW s \in AreaScreen
      PROVE  \/ \E j \in 1..Len(todo) : todo[j] = Update(s)
             \/ /\ Contributes(c, s)' <=> Contributes(c, s)
                /\ Contributes(c, s) => strut'[c] = strut[c]
  <2>1. ~Contributes(c, s)'
    BY DEF Contributes, Counted, IsVisible, UnmanageClient
  <2>2. CASE s = s0 /\ strut[c] # NoStrut
    <3>1. last = <<Update(s)>>
      BY <2>2 DEF IfStrut, StrutHasValue
    <3>2. last[1] = Update(s) /\ Len(last) = 1
      BY <3>1
    <3>3. /\ Len(todo) = Len(first \o <<Emit>>) + 1 /\ todo[Len(first \o <<Emit>>) + 1] = last[1]
          /\ Len(first \o <<Emit>>) \in Nat
      BY <1>3, <1>4, <3>2, ConcatProperties, LenProperties DEF IsPlain
    <3>4. Len(first \o <<Emit>>) + 1 \in 1..Len(todo)
      BY <3>3
    <3> QED BY <3>2, <3>3, <3>4
  <2>3. CASE ~(s = s0 /\ strut[c] # NoStrut)
    BY <2>1, <2>3 DEF Contributes, Counted
  <2> QED BY <2>2, <2>3
<1> HIDE DEF todo
<1> QED BY <1>2, <1>4, <1>5, <1>6, <1>7, ClientCallFollows

LEMMA SetFlagKeeps ==
    ASSUME WorkareaIInv, NEW c \in AreaClient, NEW f \in Flag, SetFlag(c, f)
    PROVE  WorkareaIInv'
<1>1. screen[c] \in AreaScreen /\ c \in Object
  BY DEF WorkareaIInv, AreaTypeInv, Object
<1> PICK s0 \in AreaScreen : s0 = screen[c]
  BY <1>1
<1> PICK first : first = IfStrut(c, <<Update(s0)>>)
  OBVIOUS
<1> DEFINE todo == first \o <<Emit>>
<1>2. AreaTypeInv'
  BY DEF WorkareaIInv, AreaTypeInv, SetFlag, Noticed, AreaCall, SymDiff
<1>3. IsPlain(first) /\ IsPlain(<<Emit>>) /\ IsPlain(todo)
  BY PlainTodos, PlainConcat DEF IfStrut
<1>4. /\ overlooked' = overlooked /\ shown' = shown /\ AreaCall(todo)
      /\ screen' = screen /\ strut' = strut
  BY DEF SetFlag, Noticed
<1>5. ASSUME NEW o \in AreaClient, o # c PROVE IsVisible(o)' <=> IsVisible(o)
  BY <1>5 DEF SetFlag, IsVisible, WorkareaIInv, AreaTypeInv
<1>6. ASSUME NEW s \in AreaScreen
      PROVE  \/ \E j \in 1..Len(todo) : todo[j] = Update(s)
             \/ /\ Contributes(c, s)' <=> Contributes(c, s)
                /\ Contributes(c, s) => strut'[c] = strut[c]
  <2>1. CASE s = s0 /\ strut[c] # NoStrut
    <3>1. first = <<Update(s)>>
      BY <2>1 DEF IfStrut, StrutHasValue
    <3>2. first[1] = Update(s) /\ Len(first) = 1
      BY <3>1
    <3>3. todo[1] = first[1] /\ Len(todo) = 1 + Len(<<Emit>>)
      BY <1>3, <3>2, ConcatProperties DEF IsPlain
    <3>4. 1 \in 1..Len(todo)
      BY <3>3
    <3> QED BY <3>2, <3>3, <3>4
  <2>2. CASE ~(s = s0 /\ strut[c] # NoStrut)
    BY <1>4, <2>2 DEF Contributes, Counted
  <2> QED BY <2>1, <2>2
<1> HIDE DEF todo
<1> QED BY <1>2, <1>3, <1>4, <1>5, <1>6, ClientCallFollows

LEMMA TagClientKeeps ==
    ASSUME WorkareaIInv, NEW c \in AreaClient, TagClient(c)
    PROVE  WorkareaIInv'
<1>1. screen[c] \in AreaScreen /\ c \in Object
  BY DEF WorkareaIInv, AreaTypeInv, Object
<1> PICK s0 \in AreaScreen : s0 = screen[c]
  BY <1>1
<1> DEFINE todo == <<Update(s0), Emit>>
<1>2. AreaTypeInv'
  BY DEF WorkareaIInv, AreaTypeInv, TagClient, Noticed, AreaCall, SymDiff
<1>3. IsPlain(todo)
  BY PlainTodos
<1>4. /\ overlooked' = overlooked /\ shown' = shown /\ AreaCall(todo)
      /\ screen' = screen /\ strut' = strut
  BY DEF TagClient, Noticed
<1>5. ASSUME NEW o \in AreaClient, o # c PROVE IsVisible(o)' <=> IsVisible(o)
  BY <1>5 DEF TagClient, IsVisible, SymDiff
<1>6. ASSUME NEW s \in AreaScreen
      PROVE  \/ \E j \in 1..Len(todo) : todo[j] = Update(s)
             \/ /\ Contributes(c, s)' <=> Contributes(c, s)
                /\ Contributes(c, s) => strut'[c] = strut[c]
  <2>1. CASE s = s0
    <3>1. todo[1] = Update(s) /\ 1 \in 1..Len(todo)
      BY <2>1
    <3> QED BY <3>1
  <2>2. CASE s # s0
    BY <1>4, <2>2 DEF Contributes, Counted
  <2> QED BY <2>1, <2>2
<1> HIDE DEF todo
<1> QED BY <1>2, <1>3, <1>4, <1>5, <1>6, ClientCallFollows

LEMMA TagViewKeeps ==
    ASSUME WorkareaIInv, TagView
    PROVE  WorkareaIInv'
<1> PICK todo : todo = UpdateAll \o <<Emit>>
  OBVIOUS
<1>1. AreaTypeInv'
  BY DEF WorkareaIInv, AreaTypeInv, TagView, Noticed, AreaCall
<1>2. IsPlain(UpdateAll) /\ IsPlain(<<Emit>>) /\ IsPlain(todo) /\ TodoOK(todo)
  <2>1. IsPlain(UpdateAll) /\ IsPlain(<<Emit>>)
    BY UpdateAllFacts, PlainEmit
  <2>2. IsPlain(todo)
    BY <2>1, PlainConcat
  <2> QED BY <2>1, <2>2, PlainOK
<1>3. overlooked' = overlooked /\ AreaCall(todo)
  BY DEF TagView, Noticed
<1>4. ASSUME NEW s \in AreaScreen PROVE TodoCovers(todo, s)'
  <2>1. PICK j \in 1..Len(UpdateAll) : UpdateAll[j] = Update(s)
    BY UpdateAllFacts
  <2>2. todo[j] = Update(s) /\ j \in 1..Len(todo)
    BY <1>2, <2>1, ConcatProperties, LenProperties DEF IsPlain
  <2>3. Covers(Update(s), s)'
    BY StepKinds DEF Covers
  <2> QED BY <2>2, <2>3 DEF TodoCovers
<1> QED BY <1>1, <1>2, <1>3, <1>4, CallFollows
LEMMA SetActivatedKeeps ==
    ASSUME WorkareaIInv, SetActivated
    PROVE  WorkareaIInv'
<1> PICK todo : todo = <<Emit>>
  OBVIOUS
<1>1. AreaTypeInv /\ Unnoticed /\ AreaCall(todo)
  BY DEF SetActivated, WorkareaIInv
<1>2. AreaTypeInv'
  BY <1>1, UnnoticedFacts DEF AreaTypeInv, SetActivated, AreaCall
<1>3. \A d \in AreaDrawin : screen'[d] = screen[d] /\ strut'[d] = strut[d]
  BY DEF SetActivated
<1>4. ASSUME NEW step \in AreaStep, NEW s, Covers(step, s) PROVE Covers(step, s)'
  BY <1>3, <1>4, CoversSame
<1>5. TodoOK(todo)
  BY PlainEmit, PlainOK
<1> QED BY <1>1, <1>2, <1>4, <1>5, UnnoticedFacts, CallFollows

LEMMA MoveClientToKeeps ==
    ASSUME WorkareaIInv, NEW c \in AreaClient, NEW s0 \in AreaScreen, MoveClientTo(c, s0)
    PROVE  WorkareaIInv'
<1> PICK todo : todo = <<Emit>>
  OBVIOUS
<1>1. AreaTypeInv /\ Unnoticed /\ AreaCall(todo)
  BY DEF MoveClientTo, WorkareaIInv
<1>2. AreaTypeInv'
  BY <1>1, UnnoticedFacts DEF AreaTypeInv, MoveClientTo, AreaCall
<1>3. \A d \in AreaDrawin : screen'[d] = screen[d] /\ strut'[d] = strut[d]
  BY <1>1, WorkareaAssumption DEF MoveClientTo, AreaTypeInv, Object
<1>4. ASSUME NEW step \in AreaStep, NEW s, Covers(step, s) PROVE Covers(step, s)'
  BY <1>3, <1>4, CoversSame
<1>5. TodoOK(todo)
  BY PlainEmit, PlainOK
<1> QED BY <1>1, <1>2, <1>4, <1>5, UnnoticedFacts, CallFollows

LEMMA ClientChangesStrutKeeps ==
    ASSUME WorkareaIInv, NEW c \in AreaClient, NEW v \in Strut, ClientChangesStrut(c, v)
    PROVE  WorkareaIInv'
<1> PICK todo : todo = <<Emit>>
  OBVIOUS
<1>1. AreaTypeInv /\ Unnoticed /\ AreaCall(todo)
  BY DEF ClientChangesStrut, WorkareaIInv
<1>2. AreaTypeInv'
  BY <1>1, UnnoticedFacts DEF AreaTypeInv, ClientChangesStrut, AreaCall
<1>3. \A d \in AreaDrawin : screen'[d] = screen[d] /\ strut'[d] = strut[d]
  BY <1>1, WorkareaAssumption DEF ClientChangesStrut, AreaTypeInv, Object
<1>4. ASSUME NEW step \in AreaStep, NEW s, Covers(step, s) PROVE Covers(step, s)'
  BY <1>3, <1>4, CoversSame
<1>5. TodoOK(todo)
  BY PlainEmit, PlainOK
<1> QED BY <1>1, <1>2, <1>4, <1>5, UnnoticedFacts, CallFollows

LEMMA WindowStrutsKeeps ==
    ASSUME WorkareaIInv, NEW o \in Object, NEW v \in Strut, WindowStruts(o, v)
    PROVE  WorkareaIInv'
<1> PICK todo : todo = <<Emit>> \o UpdateAll
  OBVIOUS
<1>1. AreaTypeInv'
  BY DEF WorkareaIInv, AreaTypeInv, WindowStruts, Noticed, AreaCall
<1>2. IsPlain(UpdateAll) /\ IsPlain(<<Emit>>) /\ TodoOK(todo)
  <2>1. IsPlain(UpdateAll) /\ IsPlain(<<Emit>>)
    BY UpdateAllFacts, PlainEmit
  <2>2. IsPlain(todo)
    BY <2>1, PlainConcat
  <2> QED BY <2>1, <2>2, PlainOK
<1>3. overlooked' = overlooked /\ AreaCall(todo)
  BY DEF WindowStruts, Noticed
<1>4. ASSUME NEW s \in AreaScreen PROVE TodoCovers(todo, s)'
  <2>1. PICK j \in 1..Len(UpdateAll) : UpdateAll[j] = Update(s)
    BY UpdateAllFacts
  <2>2. /\ todo[Len(<<Emit>>) + j] = UpdateAll[j] /\ Len(todo) = Len(<<Emit>>) + Len(UpdateAll)
        /\ Len(<<Emit>>) \in Nat /\ Len(UpdateAll) \in Nat
    BY <1>2, ConcatProperties, LenProperties DEF IsPlain
  <2>3. Len(<<Emit>>) + j \in 1..Len(todo)
    BY <2>2
  <2>4. Covers(Update(s), s)'
    BY StepKinds DEF Covers
  <2> QED BY <2>1, <2>2, <2>3, <2>4 DEF TodoCovers
<1> QED BY <1>1, <1>2, <1>3, <1>4, CallFollows

\* The steps of a drawin's calls.
LEMMA EmitLate ==
    ASSUME NEW d \in AreaDrawin, NEW old \in AreaScreen \cup {0}, NEW todo,
           todo = <<Emit, Late(d, old)>>
    PROVE  TodoOK(todo) /\ Len(todo) = 2 /\ todo[2] = Late(d, old)
<1>1. Emit \in AreaStep /\ Late(d, old) \in AreaStep /\ Emit.do # "late"
  BY StepKinds DEF AreaStep
<1>2. \A x, y \in AreaStep : <<x, y>> \in Seq(AreaStep) /\ Len(<<x, y>>) = 2
  OBVIOUS
<1>3. todo \in Seq(AreaStep) /\ Len(todo) = 2 /\ todo[1] = Emit /\ todo[2] = Late(d, old)
  BY <1>1, <1>2
<1>4. \A j \in 1..2 : j = 1 \/ j = 2
  OBVIOUS
<1> QED BY <1>1, <1>3, <1>4 DEF TodoOK

LEMMA MoveDrawinKeeps ==
    ASSUME WorkareaIInv, NEW d \in AreaDrawin, NEW s0 \in AreaScreen, MoveDrawin(d, s0)
    PROVE  WorkareaIInv'
<1>1. screen[d] \in AreaScreen /\ d \in Object
  BY DEF WorkareaIInv, AreaTypeInv, Object
<1> PICK old \in AreaScreen : old = screen[d]
  BY <1>1
<1> PICK todo : todo = <<Emit, Late(d, old)>>
  OBVIOUS
<1>2. AreaTypeInv'
  BY DEF WorkareaIInv, AreaTypeInv, MoveDrawin, Noticed, AreaCall
<1>3. /\ overlooked' = overlooked /\ AreaCall(todo) /\ screen'[d] = s0 /\ strut' = strut
      /\ \A o \in Object \ {d} : screen'[o] = screen[o]
      /\ s0 # old /\ UNCHANGED <<managed, flags, taggedWith, tag, shown>>
  BY <1>1 DEF MoveDrawin, Noticed, WorkareaIInv, AreaTypeInv
<1>4. TodoOK(todo) /\ Len(todo) = 2 /\ todo[2] = Late(d, old)
  BY EmitLate
<1>5. ASSUME NEW s \in {old, s0}, strut[d] # NoStrut PROVE TodoCovers(todo, s)'
  <2>1. Covers(Late(d, old), s)'
    BY <1>3, <1>5, StepKinds, WorkareaAssumption DEF Covers
  <2> QED BY <1>4, <2>1 DEF TodoCovers
<1>6. ASSUME NEW s \in AreaScreen PROVE TodoCovers(todo, s)' \/ Computed(s)' = Computed(s)
  <2>1. CASE s \in {old, s0} /\ strut[d] # NoStrut
    BY <2>1, <1>5
  <2>2. CASE ~(s \in {old, s0} /\ strut[d] # NoStrut)
    <3>1. ASSUME NEW o \in Object
          PROVE  /\ Contributes(o, s)' <=> Contributes(o, s)
                 /\ Contributes(o, s) => strut'[o] = strut[o]
      <4>1. CASE o = d
        BY <4>1, <2>2, <1>3, WorkareaAssumption DEF Contributes, Counted
      <4>2. CASE o # d
        BY <4>2, <1>3 DEF Contributes, Counted, IsVisible
      <4> QED BY <4>1, <4>2
    <3> QED BY <3>1, SameComputed
  <2> QED BY <2>1, <2>2
<1>7. ASSUME NEW step \in AreaStep, NEW s \in AreaScreen, Covers(step, s)
      PROVE  Covers(step, s)' \/ TodoCovers(todo, s)'
  <2>1. CASE step.do = "update"
    BY <2>1, <1>7 DEF Covers
  <2>2. CASE step.do # "update"
    <3>1. step \in LateStep /\ step.do = "late" /\ strut[step.drawin] # NoStrut
      BY <1>7, <2>2, StepKinds DEF Covers, AreaStep
    <3>2. step.drawin \in AreaDrawin /\ step.drawin \in Object
      BY <3>1, StepKinds DEF Object
    <3>3. CASE step.drawin # d
      BY <3>1, <3>2, <3>3, <1>3, <1>7 DEF Covers
    <3>4. CASE step.drawin = d
      <4>1. CASE s \in {old, s0}
        BY <4>1, <3>1, <3>4, <1>5
      <4>2. CASE s \notin {old, s0}
        BY <4>2, <3>1, <3>4, <1>3, <1>7 DEF Covers
      <4> QED BY <4>1, <4>2
    <3> QED BY <3>3, <3>4
  <2> QED BY <2>1, <2>2
<1> QED BY <1>2, <1>3, <1>4, <1>6, <1>7, CallFollows

LEMMA SetVisibleKeeps ==
    ASSUME WorkareaIInv, NEW d \in AreaDrawin, SetVisible(d)
    PROVE  WorkareaIInv'
<1>1. screen[d] \in AreaScreen /\ d \in Object
  BY DEF WorkareaIInv, AreaTypeInv, Object
<1> PICK s0 \in AreaScreen : s0 = screen[d]
  BY <1>1
<1> PICK todo : todo = <<Emit, Late(d, 0)>>
  OBVIOUS
<1>2. AreaTypeInv'
  BY DEF WorkareaIInv, AreaTypeInv, SetVisible, Noticed, AreaCall, SymDiff
<1>3. /\ overlooked' = overlooked /\ AreaCall(todo) /\ shown' = SymDiff(shown, {d})
      /\ UNCHANGED <<managed, screen, strut, flags, taggedWith, tag>>
  BY DEF SetVisible, Noticed
<1>4. TodoOK(todo) /\ Len(todo) = 2 /\ todo[2] = Late(d, 0)
  BY EmitLate
<1>5. ASSUME NEW s \in AreaScreen PROVE TodoCovers(todo, s)' \/ Computed(s)' = Computed(s)
  <2>1. CASE s = s0 /\ strut[d] # NoStrut
    <3>1. Covers(Late(d, 0), s)'
      BY <1>3, <2>1, StepKinds DEF Covers
    <3> QED BY <1>4, <3>1 DEF TodoCovers
  <2>2. CASE ~(s = s0 /\ strut[d] # NoStrut)
    <3>1. ASSUME NEW o \in Object
          PROVE  /\ Contributes(o, s)' <=> Contributes(o, s)
                 /\ Contributes(o, s) => strut'[o] = strut[o]
      <4>1. CASE o = d
        BY <4>1, <2>2, <1>3 DEF Contributes, Counted
      <4>2. CASE o # d
        BY <4>2, <1>3 DEF Contributes, Counted, IsVisible, SymDiff
      <4> QED BY <4>1, <4>2
    <3> QED BY <3>1, SameComputed
  <2> QED BY <2>1, <2>2
<1>6. \A step \in AreaStep : \A s : Covers(step, s) => Covers(step, s)'
  BY <1>3 DEF Covers
<1> QED BY <1>2, <1>3, <1>4, <1>5, <1>6, CallFollows
-----------------------------------------------------------------------------
(* What a function that runs does next.                                    *)

LEMMA RunningTop ==
    ASSUME FramesInv, running # <<>>, NEW todo, todo = running[Len(running)].todo, todo # <<>>
    PROVE  /\ todo \in Seq(AreaStep) /\ todo[1] \in AreaStep
           /\ TodoOK(todo) /\ TodoOK(Tail(todo))
           /\ todo[1].do = "late" => Len(todo) = 1
           /\ \A s : IsCovered(s) =>
                 \/ \E i \in 1..Len(running) - 1 : TodoCovers(running[i].todo, s)
                 \/ Covers(todo[1], s)
                 \/ TodoCovers(Tail(todo), s)
<1>1. Len(running) \in Nat /\ Len(running) \in 1..Len(running)
  BY LenProperties, EmptySeq DEF FramesInv
<1>2. TodoOK(todo) /\ todo \in Seq(AreaStep)
  BY <1>1 DEF FramesInv, TodoOK
<1>3. Len(todo) \in Nat /\ Len(todo) >= 1
  BY <1>2, LenProperties, EmptySeq
<1>4. /\ Tail(todo) \in Seq(AreaStep) /\ Len(Tail(todo)) = Len(todo) - 1
      /\ \A j \in 1..Len(Tail(todo)) : Tail(todo)[j] = todo[j + 1]
  BY <1>2, <1>3, HeadTailProperties
<1>5. todo[1] \in AreaStep
  <2>1. 1 \in 1..Len(todo)
    BY <1>3
  <2> QED BY <1>2, <2>1, ElementOfSeq
<1>6. ASSUME NEW j \in 1..Len(Tail(todo)), Tail(todo)[j].do = "late" PROVE j = Len(Tail(todo))
  <2>1. j + 1 \in 1..Len(todo) /\ todo[j + 1].do = "late"
    BY <1>3, <1>4, <1>6
  <2>2. j + 1 = Len(todo)
    BY <1>2, <2>1 DEF TodoOK
  <2> QED BY <1>3, <1>4, <2>2
<1>7. TodoOK(Tail(todo))
  BY <1>4, <1>6 DEF TodoOK
<1>8. todo[1].do = "late" => Len(todo) = 1
  <2>1. 1 \in 1..Len(todo)
    BY <1>3
  <2> QED BY <1>2, <2>1 DEF TodoOK
<1>9. ASSUME NEW s, IsCovered(s)
      PROVE  \/ \E i \in 1..Len(running) - 1 : TodoCovers(running[i].todo, s)
             \/ Covers(todo[1], s)
             \/ TodoCovers(Tail(todo), s)
  <2>1. PICK i \in 1..Len(running) : TodoCovers(running[i].todo, s)
    BY <1>9 DEF IsCovered
  <2>2. CASE i \in 1..Len(running) - 1
    BY <2>1, <2>2
  <2>3. CASE i = Len(running)
    <3>1. PICK j \in 1..Len(todo) : Covers(todo[j], s)
      BY <2>1, <2>3 DEF TodoCovers
    <3>2. CASE j = 1
      BY <3>1, <3>2
    <3>3. CASE j # 1
      <4>1. j - 1 \in 1..Len(Tail(todo)) /\ Tail(todo)[j - 1] = todo[j]
        BY <1>3, <1>4, <3>3
      <4> QED BY <3>1, <4>1 DEF TodoCovers
    <3> QED BY <3>2, <3>3
  <2> QED BY <1>1, <2>2, <2>3
<1> QED BY <1>2, <1>5, <1>7, <1>8, <1>9

LEMMA UnchangedComputed ==
    ASSUME UNCHANGED <<managed, screen, strut, flags, taggedWith, tag, shown>>, NEW s
    PROVE  Computed(s)' = Computed(s)
<1>1. ASSUME NEW o \in Object
      PROVE  /\ Contributes(o, s)' <=> Contributes(o, s)
             /\ Contributes(o, s) => strut'[o] = strut[o]
  BY DEF Contributes, Counted, IsVisible
<1> QED BY <1>1, SameComputed

LEMMA DoUpdateKeeps ==
    ASSUME WorkareaIInv, DoUpdate
    PROVE  WorkareaIInv'
<1> PICK todo : todo = running[Len(running)].todo
  OBVIOUS
<1> PICK s0 : s0 = todo[1].screen
  OBVIOUS
<1>1. FramesInv /\ running # <<>> /\ todo # <<>> /\ todo[1].do = "update"
  BY DEF DoUpdate, WorkareaIInv
<1>2. /\ workarea' = [workarea EXCEPT ![s0] = Computed(s0)] /\ overlooked' = overlooked \ {s0}
      /\ UNCHANGED <<managed, screen, strut, flags, taggedWith, tag, shown>>
      /\ Goes(Tail(todo), workarea' # workarea)
  BY DEF DoUpdate
<1> PICK rest : rest = Tail(todo)
  OBVIOUS
<1>3. TodoOK(rest) /\ Goes(rest, workarea' # workarea) /\ (workarea' # workarea) \in BOOLEAN
  BY <1>1, <1>2, RunningTop
<1>4. PICK calling \in BOOLEAN : Goes(rest, calling)
  BY <1>3
<1>5. /\ FramesInv'
      /\ \A s : \A i \in 1..Len(running) - 1 : TodoCovers(running[i].todo, s) => IsCovered(s)'
      /\ \A s : TodoCovers(rest, s) => IsCovered(s)'
  BY <1>1, <1>2, <1>3, <1>4, GoesKeeps
<1>6. AreaTypeInv'
  BY <1>2 DEF WorkareaIInv, AreaTypeInv
<1>7. ASSUME NEW s \in AreaScreen PROVE IsFollowed(s)'
  <2>1. Computed(s)' = Computed(s)
    BY <1>2, UnchangedComputed
  <2>2. CASE s = s0
    <3>1. workarea'[s] = Computed(s)
      BY <1>2, <2>2 DEF WorkareaIInv, AreaTypeInv
    <3> QED BY <2>1, <3>1 DEF IsFollowed
  <2>3. CASE s # s0
    <3>1. workarea'[s] = workarea[s] /\ (s \in overlooked => s \in overlooked')
      BY <1>2, <2>3 DEF WorkareaIInv, AreaTypeInv
    <3>2. ~Covers(todo[1], s)
      BY <1>1, <2>3 DEF Covers
    <3>3. CASE IsCovered(s)
      BY <1>1, <1>5, <3>2, <3>3, RunningTop DEF IsFollowed
    <3>4. CASE ~IsCovered(s)
      BY <2>1, <3>1, <3>4 DEF IsFollowed, WorkareaIInv
    <3> QED BY <3>3, <3>4
  <2> QED BY <2>2, <2>3
<1> QED BY <1>5, <1>6, <1>7 DEF WorkareaIInv

\* A step that only runs on.
LEMMA RunningOn ==
    ASSUME WorkareaIInv, FramesInv',
           UNCHANGED <<managed, screen, strut, flags, taggedWith, tag, shown, workarea, overlooked>>,
           \A s \in AreaScreen : IsCovered(s) => IsCovered(s)'
    PROVE  WorkareaIInv'
<1>1. AreaTypeInv'
  BY DEF WorkareaIInv, AreaTypeInv
<1>2. ASSUME NEW s \in AreaScreen PROVE IsFollowed(s)'
  <2>1. Computed(s)' = Computed(s)
    BY UnchangedComputed
  <2> QED BY <2>1 DEF IsFollowed, WorkareaIInv
<1> QED BY <1>1, <1>2 DEF WorkareaIInv

LEMMA DoEmitKeeps ==
    ASSUME WorkareaIInv, DoEmit
    PROVE  WorkareaIInv'
<1> PICK todo : todo = running[Len(running)].todo
  OBVIOUS
<1>1. /\ FramesInv /\ running # <<>> /\ todo # <<>> /\ todo[1].do = "emit"
      /\ Goes(Tail(todo), TRUE) /\ UNCHANGED <<screen, strut>>
  BY DEF DoEmit, WorkareaIInv
<1> PICK rest : rest = Tail(todo)
  OBVIOUS
<1>2. TodoOK(rest) /\ Goes(rest, TRUE)
  BY <1>1, RunningTop
<1>3. /\ FramesInv'
      /\ \A s : \A i \in 1..Len(running) - 1 : TodoCovers(running[i].todo, s) => IsCovered(s)'
      /\ \A s : TodoCovers(rest, s) => IsCovered(s)'
  BY <1>1, <1>2, GoesKeeps
<1>4. \A s : ~Covers(todo[1], s)
  BY <1>1 DEF Covers
<1>5. ASSUME NEW s \in AreaScreen, IsCovered(s) PROVE IsCovered(s)'
  BY <1>1, <1>3, <1>4, <1>5, RunningTop
<1> QED BY <1>3, <1>5, RunningOn DEF DoEmit

LEMMA DoLateKeeps ==
    ASSUME WorkareaIInv, DoLate
    PROVE  WorkareaIInv'
<1> PICK todo : todo = running[Len(running)].todo
  OBVIOUS
<1> PICK d : d = todo[1].drawin
  OBVIOUS
<1> PICK old : old = todo[1].old
  OBVIOUS
<1> PICK rest : rest = LateTodo(d, old)
  OBVIOUS
<1>1. /\ FramesInv /\ running # <<>> /\ todo # <<>> /\ todo[1].do = "late"
      /\ Goes(rest, FALSE) /\ UNCHANGED <<screen, strut>>
  BY DEF DoLate, WorkareaIInv
<1>2. /\ todo[1] \in AreaStep /\ Len(todo) = 1 /\ todo \in Seq(AreaStep)
  BY <1>1, RunningTop
<1>3. d \in AreaDrawin /\ d \in Object /\ old \in AreaScreen \cup {0}
  BY <1>1, <1>2, StepKinds DEF AreaStep, Object
<1>4. screen[d] \in AreaScreen
  BY <1>3 DEF WorkareaIInv, AreaTypeInv
<1>5. IsPlain(rest)
  BY <1>3, <1>4, PlainTodos DEF LateTodo, IfStrut
<1>6. TodoOK(rest)
  BY <1>5, PlainOK
<1>7. /\ FramesInv'
      /\ \A s : \A i \in 1..Len(running) - 1 : TodoCovers(running[i].todo, s) => IsCovered(s)'
      /\ \A s : TodoCovers(rest, s) => IsCovered(s)'
  BY <1>1, <1>6, GoesKeeps
<1>8. \A s : ~TodoCovers(Tail(todo), s)
  <2>1. Len(Tail(todo)) = 0
    BY <1>1, <1>2, HeadTailProperties
  <2> QED BY <2>1 DEF TodoCovers
<1>9. ASSUME NEW s, Covers(todo[1], s) PROVE TodoCovers(rest, s)
  <2>1. strut[d] # NoStrut
    BY <1>1, <1>9 DEF Covers
  <2>2. CASE old = 0
    <3>1. rest = <<Update(screen[d])>> /\ s = screen[d]
      <4>1. s = screen[d] /\ old # screen[d]
        BY <1>1, <1>4, <1>9, <2>2, WorkareaAssumption DEF Covers
      <4>2. LateTodo(d, old) = <<Update(screen[d])>>
        BY <2>1, <2>2, <4>1 DEF LateTodo, IfStrut, StrutHasValue
      <4> QED BY <4>1, <4>2
    <3>2. rest[1] = Update(s) /\ 1 \in 1..Len(rest)
      BY <3>1
    <3> QED BY <1>4, <3>1, <3>2, UpdateCovers DEF TodoCovers
  <2>3. CASE old # 0
    <3>1. old # screen[d] /\ s \in {old, screen[d]}
      BY <1>1, <1>9, <2>3 DEF Covers
    <3>2. rest = <<Update(old), Update(screen[d])>>
      BY <2>1, <2>3, <3>1 DEF LateTodo, IfStrut, StrutHasValue
    <3>3. \A x, y : <<x, y>>[1] = x /\ <<x, y>>[2] = y /\ Len(<<x, y>>) = 2
      OBVIOUS
    <3>4. rest[1] = Update(old) /\ rest[2] = Update(screen[d]) /\ Len(rest) = 2
      BY <3>2, <3>3
    <3>5. s \in AreaScreen /\ 1 \in 1..Len(rest) /\ 2 \in 1..Len(rest)
      BY <1>3, <1>4, <2>3, <3>1, <3>4
    <3>6. CASE s = old
      BY <3>4, <3>5, <3>6, UpdateCovers DEF TodoCovers
    <3>7. CASE s = screen[d]
      BY <3>4, <3>5, <3>7, UpdateCovers DEF TodoCovers
    <3> QED BY <3>1, <3>6, <3>7
  <2> QED BY <2>2, <2>3
<1>10. ASSUME NEW s \in AreaScreen, IsCovered(s) PROVE IsCovered(s)'
  BY <1>1, <1>7, <1>8, <1>9, <1>10, RunningTop
<1> QED BY <1>7, <1>10, RunningOn DEF DoLate

LEMMA ReturnsKeeps ==
    ASSUME WorkareaIInv, Returns
    PROVE  WorkareaIInv'
<1>1. /\ FramesInv /\ running # <<>> /\ running[Len(running)].todo = <<>>
      /\ running' = SubSeq(running, 1, Len(running) - 1) /\ UNCHANGED <<screen, strut>>
  BY DEF Returns, WorkareaIInv
<1> PICK rest : rest = <<>>
  OBVIOUS
<1>2. TodoOK(rest)
  BY DEF TodoOK
<1>3. Goes(rest, FALSE)
  <2> DEFINE F == [todo : Seq(AreaStep), calling : BOOLEAN]
  <2>1. \A i \in 1..Len(running) - 1 : running[i] \in F
    <3> HIDE DEF F
    <3>1. running \in Seq(F) /\ Len(running) \in Nat
      BY <1>1, LenProperties DEF FramesInv, F
    <3>2. \A i \in 1..Len(running) - 1 : i \in 1..Len(running)
      BY <3>1
    <3> QED BY <3>1, <3>2, ElementOfSeq
  <2>2. Len(running) - 1 \in Int /\ 1 \in Int
    BY <1>1, LenProperties DEF FramesInv
  <2>3. SubSeq(running, 1, Len(running) - 1) \in Seq(F)
    BY <2>1, <2>2, SubSeqProperties
  <2> HIDE DEF F
  <2>4. running' \in Seq(F)
    BY <1>1, <2>3
  <2>5. running' \o <<>> = running'
    BY <2>4
  <2> QED BY <1>1, <2>5 DEF Goes
<1>4. /\ FramesInv'
      /\ \A s : \A i \in 1..Len(running) - 1 : TodoCovers(running[i].todo, s) => IsCovered(s)'
  BY <1>1, <1>2, <1>3, GoesKeeps
<1>5. ASSUME NEW s \in AreaScreen, IsCovered(s) PROVE IsCovered(s)'
  <2>1. PICK i \in 1..Len(running) : TodoCovers(running[i].todo, s)
    BY <1>5 DEF IsCovered
  <2>2. i # Len(running)
    BY <1>1, <2>1, EmptySeq DEF TodoCovers
  <2>3. i \in 1..Len(running) - 1
    BY <2>2, <1>1, LenProperties DEF FramesInv
  <2> QED BY <1>4, <2>1, <2>3
<1> QED BY <1>4, <1>5, RunningOn DEF Returns

-----------------------------------------------------------------------------
LEMMA WorkareaStart == ASSUME WorkareaInit PROVE WorkareaIInv
<1>1. AreaTypeInv
  BY WorkareaAssumption DEF WorkareaInit, AreaTypeInv
<1>2. FramesInv
  BY WorkareaAssumption, EmptySeq DEF WorkareaInit, FramesInv
<1>3. ASSUME NEW s \in AreaScreen PROVE workarea[s] = Computed(s)
  <2>1. Counted(s) = {}
    BY DEF WorkareaInit, Counted, IsVisible
  <2>2. Computed(s) = [left |-> Max({0}), width |-> ScreenWidth - Min({ScreenWidth, Max({0}) + Max({0})})]
    BY <2>1 DEF Computed
  <2>3. Max({0}) = 0 /\ ScreenWidth \in Nat
    BY WorkareaAssumption DEF Max
  <2>4. Min({ScreenWidth, 0}) = 0
    <3>1. 0 \in {ScreenWidth, 0} /\ \A y \in {ScreenWidth, 0} : 0 <= y
      BY <2>3
    <3>2. \A x \in {ScreenWidth, 0} : (\A y \in {ScreenWidth, 0} : x <= y) => x = 0
      BY <2>3
    <3> QED BY <3>1, <3>2 DEF Min
  <2>5. Computed(s) = [left |-> 0, width |-> ScreenWidth]
    BY <2>2, <2>3, <2>4
  <2> QED BY <2>5 DEF WorkareaInit
<1> QED BY <1>1, <1>2, <1>3 DEF WorkareaIInv, IsFollowed

LEMMA WorkareaStep == ASSUME WorkareaIInv, [WorkareaNext]_areaVars PROVE WorkareaIInv'
<1>1. CASE UNCHANGED areaVars
  <2>1. \A s \in AreaScreen : Computed(s)' = Computed(s)
    BY <1>1, UnchangedComputed DEF areaVars
  <2>2. \A s : IsCovered(s)' <=> IsCovered(s)
    BY <1>1 DEF areaVars, IsCovered, TodoCovers, Covers
  <2> QED BY <1>1, <2>1, <2>2 DEF areaVars, WorkareaIInv, AreaTypeInv, FramesInv, TodoOK, IsFollowed
<1>2. CASE DoUpdate \/ DoEmit \/ DoLate \/ Returns \/ TagView \/ SetActivated
  BY <1>2, DoUpdateKeeps, DoEmitKeeps, DoLateKeeps, ReturnsKeeps, TagViewKeeps, SetActivatedKeeps
<1>3. CASE \E c \in AreaClient : \/ UnmanageClient(c) \/ TagClient(c)
                                 \/ \E f \in Flag : SetFlag(c, f)
  BY <1>3, UnmanageClientKeeps, TagClientKeeps, SetFlagKeeps
<1>4. CASE \E c \in AreaClient : \/ \E s \in AreaScreen : MoveClientTo(c, s)
                                 \/ \E v \in Strut : ClientChangesStrut(c, v)
  BY <1>4, MoveClientToKeeps, ClientChangesStrutKeeps
<1>5. CASE \E c \in AreaClient, s \in AreaScreen, v \in Strut, isSticky \in BOOLEAN :
              ManageClient(c, s, v, isSticky)
  BY <1>5, ManageClientKeeps
<1>6. CASE \E o \in Object, v \in Strut : WindowStruts(o, v)
  BY <1>6, WindowStrutsKeeps
<1>7. CASE \E d \in AreaDrawin : SetVisible(d) \/ \E s \in AreaScreen : MoveDrawin(d, s)
  BY <1>7, SetVisibleKeeps, MoveDrawinKeeps
<1> QED BY <1>1, <1>2, <1>3, <1>4, <1>5, <1>6, <1>7 DEF WorkareaNext

\* When awesome is done with a call, every update that its changes asked for has been made.
LEMMA WorkareaDone == ASSUME WorkareaIInv PROVE WorkareaInv
<1>1. WorkareaTypeOK
  BY DEF WorkareaIInv, AreaTypeInv, FramesInv, WorkareaTypeOK
<1>2. ASSUME running = <<>>, NEW s \in AreaScreen \ overlooked PROVE workarea[s] = Computed(s)
  <2>1. ~IsCovered(s)
    BY <1>2, EmptySeq DEF IsCovered
  <2> QED BY <2>1 DEF WorkareaIInv, IsFollowed
<1> QED BY <1>1, <1>2 DEF WorkareaInv, WorkareaIsCurrent

\* screen_update_workarea (objects/screen.c) and its callers: whenever a call is done, with
\* the calls that the handlers of its signals have made, the work area of each screen is what
\* the visible struts leave of it, except for the changes that the code never follows.
THEOREM WorkareasAreFollowed == WorkareaSpec => []WorkareaInv
<1>1. WorkareaInit => WorkareaIInv
  BY WorkareaStart
<1>2. WorkareaIInv /\ [WorkareaNext]_areaVars => WorkareaIInv'
  BY WorkareaStep
<1>3. WorkareaIInv => WorkareaInv
  BY WorkareaDone
<1> QED BY <1>1, <1>2, <1>3, PTL DEF WorkareaSpec

-----------------------------------------------------------------------------
(* Drawing: windows and what they show.                                    *)

ADrawable == [exists : BOOLEAN, x : Int, width : Int, pixmap : Content \cup {"none"}, refreshed : BOOLEAN]
AWindow == [mapped : BOOLEAN, width : Pixel, child : SUBSET Pixel, content : [Pixel -> Content],
            expose : SUBSET Pixel]
Shows == {"drawin", "frame"}

DrawnTypeInv ==
    /\ drawable \in [Bar \cup {"drawin"} -> ADrawable] /\ visible \in BOOLEAN
    /\ place \in [Shows -> [x : Int, width : Pixel]] /\ dirty \in [Shows -> BOOLEAN]
    /\ size \in [Bar -> 0..MaxBar] /\ fullscreen \in BOOLEAN
    /\ window \in [Shows -> AWindow] /\ moved \subseteq Bar

Drawn == {"white", "black"}

\* A pixmap into which nothing has been drawn is never copied, and a titlebar's is as wide as it.
PixmapInv ==
    /\ drawable["drawin"].exists
    /\ \A d \in Bar \cup {"drawin"} : /\ drawable[d].refreshed <=> drawable[d].pixmap \in Drawn
                                      /\ drawable[d].pixmap # "none" => drawable[d].exists
    /\ \A b \in Bar : drawable[b].pixmap # "none" => drawable[b].width > 0 /\ drawable[b].width = size[b]

\* What is drawn, and the pixels that show it: all of the window, or the titlebar's.
Holds(w, paint, pixels) ==
    \A p \in pixels \cap Shown(w) : w.content[p] = paint \/ p \in w.expose

\* Whether or not its place is to be changed, a window shows the pixmap or will.
DrawinDrawn ==
    /\ window["drawin"].mapped = visible /\ window["drawin"].child = {}
    /\ ~dirty["drawin"] => window["drawin"].width = place["drawin"].width
    /\ drawable["drawin"].refreshed => Holds(window["drawin"], drawable["drawin"].pixmap, Pixel)

\* The titlebars have room.
FrameDrawn ==
    /\ place["frame"].width >= size["left"] + size["right"]
    /\ \A b \in Bar \ moved : drawable[b].refreshed => Holds(window["frame"], drawable[b].pixmap, Area(b))

DrawingIInv ==
    DrawnTypeInv /\ PixmapInv /\ UndrawnIsNeverShown /\ DrawinDrawn /\ FrameDrawn
-----------------------------------------------------------------------------
(* Windows.                                                                *)

Clean(w) == \A p \in Pixel : w.content[p] # "undrawn"

\* A window r is as well drawn as w.
AsDrawn(w, r) ==
    /\ r \in AWindow
    /\ Clean(w) => Clean(r)
    /\ \A paint, pixels : Holds(w, paint, pixels) => Holds(r, paint, pixels)

LEMMA ShownPixels == ASSUME NEW w \in AWindow PROVE Shown(w) \subseteq Pixel
  BY DrawingAssumption DEF Shown, AWindow, Pixel

\* A request of awesome's gives a window the geometry of new.
Becomes(w, new, r) ==
    AsDrawn(w, r) /\ r.mapped = new.mapped /\ r.width = new.width /\ r.child = new.child

LEMMA ChangedIs ==
    ASSUME NEW w \in AWindow, NEW new \in AWindow PROVE Becomes(w, new, Changed(w, new))
<1> PICK r : r = Changed(w, new)
  OBVIOUS
<1>1. /\ r.mapped = new.mapped /\ r.width = new.width /\ r.child = new.child
      /\ r.content = [p \in Pixel |-> IF p \in Shown(w) \cap Shown(new) THEN w.content[p] ELSE "lost"]
      /\ r.expose = w.expose \cup (Shown(new) \ Shown(w))
      /\ r = [mapped |-> new.mapped, width |-> new.width, child |-> new.child, content |-> r.content,
              expose |-> r.expose]
  BY DEF Changed, AWindow
<1>2. Shown(r) = Shown(new)
  BY <1>1 DEF Shown
<1>3. r \in AWindow
  <2>1. r.expose \in SUBSET Pixel
    BY <1>1, ShownPixels DEF AWindow
  <2>2. r.content \in [Pixel -> Content]
    BY <1>1 DEF AWindow, Content
  <2>3. r.mapped \in BOOLEAN /\ r.width \in Pixel /\ r.child \in SUBSET Pixel
    BY <1>1 DEF AWindow
  <2> QED BY <1>1, <2>1, <2>2, <2>3 DEF AWindow
<1>4. Clean(w) => Clean(r)
  BY <1>1 DEF Clean
<1>5. ASSUME NEW paint, NEW pixels, Holds(w, paint, pixels) PROVE Holds(r, paint, pixels)
  <2>1. SUFFICES ASSUME NEW p \in pixels \cap Shown(r), p \notin r.expose PROVE r.content[p] = paint
    BY DEF Holds
  <2>2. p \in Pixel /\ p \in Shown(w) /\ p \notin w.expose
    BY <1>1, <1>2, <1>3, <2>1, ShownPixels
  <2>3. w.content[p] = paint
    BY <1>5, <2>1, <2>2 DEF Holds
  <2> QED BY <1>1, <1>2, <2>1, <2>2, <2>3
<1> QED BY <1>1, <1>3, <1>4, <1>5 DEF AsDrawn, Becomes

LEMMA WidthIs ==
    ASSUME NEW w \in AWindow, NEW width \in Pixel
    PROVE  /\ [w EXCEPT !.width = width] \in AWindow
           /\ [w EXCEPT !.width = width].mapped = w.mapped /\ [w EXCEPT !.width = width].child = w.child
           /\ [w EXCEPT !.width = width].width = width
  BY DEF AWindow

\* The pixmap is copied to pixels; copying elsewhere does not matter.
WellCopied(w, paint, pixels, r) ==
    /\ r \in AWindow /\ (Clean(w) => Clean(r))
    /\ r.mapped = w.mapped /\ r.width = w.width /\ r.child = w.child
    /\ Holds(r, paint, pixels)
    /\ \A area : Holds(w, paint, area) => Holds(r, paint, area)
    /\ \A other, area : area \cap pixels = {} /\ Holds(w, other, area) => Holds(r, other, area)

LEMMA CopiedIs ==
    ASSUME NEW w \in AWindow, NEW paint \in Drawn, NEW pixels
    PROVE  WellCopied(w, paint, pixels, Copied(w, paint, pixels))
<1> PICK r : r = Copied(w, paint, pixels)
  OBVIOUS
<1>1. /\ r.mapped = w.mapped /\ r.width = w.width /\ r.child = w.child /\ r.expose = w.expose
      /\ r.content = [p \in Pixel |-> IF p \in pixels \cap Shown(w) THEN paint ELSE w.content[p]]
      /\ r = [mapped |-> w.mapped, width |-> w.width, child |-> w.child, content |-> r.content,
              expose |-> w.expose]
  BY DEF Copied, AWindow
<1>2. Shown(r) = Shown(w) /\ Shown(w) \subseteq Pixel
  BY <1>1, ShownPixels DEF Shown
<1>3. r \in AWindow
  <2>1. r.content \in [Pixel -> Content]
    BY <1>1 DEF AWindow, Content, Drawn
  <2> QED BY <1>1, <2>1 DEF AWindow
<1>4. Clean(w) => Clean(r)
  BY <1>1 DEF Clean, Drawn
<1>5. Holds(r, paint, pixels)
  BY <1>1, <1>2 DEF Holds
<1>6. \A area : Holds(w, paint, area) => Holds(r, paint, area)
  BY <1>1, <1>2 DEF Holds
<1>7. \A other, area : area \cap pixels = {} /\ Holds(w, other, area) => Holds(r, other, area)
  BY <1>1, <1>2 DEF Holds
<1> QED BY <1>1, <1>3, <1>4, <1>5, <1>6, <1>7 DEF WellCopied

\* The events for pixels that are copied again are handled.
LEMMA HandledIs ==
    ASSUME NEW w \in AWindow, NEW pixels \in SUBSET Pixel
    PROVE  /\ [w EXCEPT !.expose = @ \ pixels] \in AWindow
           /\ [w EXCEPT !.expose = @ \ pixels].mapped = w.mapped
           /\ [w EXCEPT !.expose = @ \ pixels].width = w.width
           /\ [w EXCEPT !.expose = @ \ pixels].child = w.child
           /\ [w EXCEPT !.expose = @ \ pixels].content = w.content
           /\ [w EXCEPT !.expose = @ \ pixels].expose = w.expose \ pixels
  BY DEF AWindow

\* The drawin's window gets its place.
LEMMA MoveResizeIs ==
    ASSUME DrawnTypeInv, NEW w \in AWindow, NEW r, r = ApplyMoveResize(w),
           ~dirty["drawin"] => w.width = place["drawin"].width
    PROVE  /\ AsDrawn(w, r) /\ r.mapped = w.mapped /\ r.child = w.child
           /\ r.width = place["drawin"].width
<1>1. place["drawin"].width \in Pixel /\ dirty["drawin"] \in BOOLEAN
  BY DEF DrawnTypeInv, Shows
<1>2. CASE dirty["drawin"]
  <2> PICK new : new = [w EXCEPT !.width = place["drawin"].width]
    OBVIOUS
  <2>1. new \in AWindow /\ new.mapped = w.mapped /\ new.child = w.child /\ new.width = place["drawin"].width
    BY <1>1, WidthIs
  <2>2. r = Changed(w, new)
    BY <1>2 DEF ApplyMoveResize
  <2>3. Becomes(w, new, r)
    BY <2>1, <2>2, ChangedIs
  <2> QED BY <2>1, <2>3 DEF Becomes
<1>3. CASE ~dirty["drawin"]
  <2>1. r = w
    BY <1>3 DEF ApplyMoveResize
  <2> QED BY <1>3, <2>1 DEF AsDrawn
<1> QED BY <1>2, <1>3

\* The titlebars do not overlap.
LEMMA Apart ==
    ASSUME DrawnTypeInv, FrameDrawn
    PROVE  Area("left") \cap Area("right") = {}
  BY DEF DrawnTypeInv, FrameDrawn, Area, BarPosition, First, Bar, Shows, Pixel

\* A drawable with another width, or the same as before.
IsSet(d, width, r) ==
    /\ r \in ADrawable /\ r.exists = d.exists /\ r.width = width
    /\ r.refreshed <=> r.pixmap \in Drawn
    /\ r.refreshed => r = d
    /\ r.pixmap # "none" => (r = d /\ d.pixmap # "none") \/ width > 0

LEMMA SetGeometryIs ==
    ASSUME NEW d \in ADrawable, NEW x \in Int, NEW width \in Int, d.refreshed <=> d.pixmap \in Drawn
    PROVE  IsSet(d, width, SetGeometry(d, x, width))
<1> PICK r : r = SetGeometry(d, x, width)
  OBVIOUS
<1>1. CASE d.x = x /\ d.width = width
  BY <1>1 DEF SetGeometry, ADrawable, IsSet
<1>2. CASE ~(d.x = x /\ d.width = width)
  <2>1. r = [exists |-> d.exists, x |-> x, width |-> width,
             pixmap |-> IF width > 0 THEN "undrawn" ELSE "none", refreshed |-> FALSE]
    BY <1>2 DEF SetGeometry, ADrawable
  <2> QED BY <2>1 DEF ADrawable, Drawn, Content, IsSet
<1> QED BY <1>1, <1>2

LEMMA SameDrawn == ASSUME NEW w \in AWindow PROVE AsDrawn(w, w)
  BY DEF AsDrawn

LEMMA CleanIs == UndrawnIsNeverShown <=> Clean(window["drawin"]) /\ Clean(window["frame"])
  BY DEF UndrawnIsNeverShown, Clean

-----------------------------------------------------------------------------
(* The two windows have nothing to do with each other.                     *)

LEMMA FrameStays ==
    ASSUME FrameDrawn, AsDrawn(window["frame"], window'["frame"]),
           place'["frame"] = place["frame"], size' = size, moved' = moved,
           \A b \in Bar : drawable'[b] = drawable[b]
    PROVE  FrameDrawn'
<1>1. \A b \in Bar : Area(b)' = Area(b)
  BY DEF Area, BarPosition
<1>2. ASSUME NEW b \in Bar \ moved', drawable'[b].refreshed
      PROVE  Holds(window'["frame"], drawable'[b].pixmap, Area(b)')
  BY <1>1, <1>2 DEF FrameDrawn, AsDrawn
<1> QED BY <1>2 DEF FrameDrawn, Holds, Shown

\* What the actions need to know of a state.
LEMMA DrawnTypes ==
    ASSUME DrawnTypeInv
    PROVE  /\ \A d \in Bar \cup {"drawin"} : drawable[d] \in ADrawable
           /\ \A w \in Shows : /\ window[w] \in AWindow /\ place[w] \in [x : Int, width : Pixel]
                               /\ dirty[w] \in BOOLEAN
           /\ \A b \in Bar : size[b] \in 0..MaxBar
  BY DEF DrawnTypeInv

-----------------------------------------------------------------------------
(* The drawin.                                                             *)

\* The drawin's window changes, and perhaps its drawable.
LEMMA DrawinBecomes ==
    ASSUME DrawingIInv, NEW r \in AWindow, Clean(window["drawin"]) => Clean(r),
           window' = [window EXCEPT !["drawin"] = r],
           NEW d \in ADrawable, drawable' = [drawable EXCEPT !["drawin"] = d],
           d.exists, d.refreshed <=> d.pixmap \in Drawn, d.refreshed => Holds(r, d.pixmap, Pixel),
           NEW at \in [x : Int, width : Pixel], place' = [place EXCEPT !["drawin"] = at],
           NEW late \in BOOLEAN, dirty' = [dirty EXCEPT !["drawin"] = late],
           visible' \in BOOLEAN, UNCHANGED <<size, fullscreen, moved>>,
           r.mapped = visible', r.child = {}, ~late => r.width = at.width
    PROVE  DrawingIInv'
<1>1. DrawnTypeInv /\ PixmapInv /\ UndrawnIsNeverShown /\ DrawinDrawn /\ FrameDrawn
  BY DEF DrawingIInv
<1>3. /\ window'["drawin"] = r /\ window'["frame"] = window["frame"]
      /\ drawable'["drawin"] = d /\ \A b \in Bar : drawable'[b] = drawable[b]
      /\ place'["drawin"] = at /\ place'["frame"] = place["frame"]
      /\ dirty'["drawin"] = late
  BY <1>1 DEF DrawnTypeInv, Shows, Bar
<1>4. DrawnTypeInv'
  <2>1. window' \in [Shows -> AWindow] /\ place' \in [Shows -> [x : Int, width : Pixel]]
        /\ dirty' \in [Shows -> BOOLEAN]
    BY <1>1 DEF DrawnTypeInv, Shows
  <2>2. drawable' \in [Bar \cup {"drawin"} -> ADrawable]
    BY <1>1 DEF DrawnTypeInv, Bar
  <2> QED BY <1>1, <2>1, <2>2 DEF DrawnTypeInv
<1>5. PixmapInv'
  BY <1>1, <1>3 DEF PixmapInv
<1>6. UndrawnIsNeverShown'
  <2>1. Clean(r) /\ Clean(window["frame"])
    BY <1>1, CleanIs
  <2> QED BY <1>3, <2>1 DEF UndrawnIsNeverShown, Clean
<1>7. DrawinDrawn'
  BY <1>1, <1>3 DEF DrawinDrawn, Holds, Shown
<1>8. FrameDrawn'
  <2>1. AsDrawn(window["frame"], window'["frame"])
    BY <1>1, <1>3, DrawnTypes, SameDrawn DEF Shows
  <2> QED BY <1>1, <1>3, <2>1, FrameStays
<1> QED BY <1>4, <1>5, <1>6, <1>7, <1>8 DEF DrawingIInv

\* It is as well drawn as before, and perhaps its drawable gets a new pixmap.
LEMMA DrawinChanges ==
    ASSUME DrawingIInv, NEW r, AsDrawn(window["drawin"], r), window' = [window EXCEPT !["drawin"] = r],
           NEW d \in ADrawable, drawable' = [drawable EXCEPT !["drawin"] = d],
           d.exists, d.refreshed <=> d.pixmap \in Drawn, d.refreshed => d = drawable["drawin"],
           NEW at \in [x : Int, width : Pixel], place' = [place EXCEPT !["drawin"] = at],
           NEW late \in BOOLEAN, dirty' = [dirty EXCEPT !["drawin"] = late],
           visible' \in BOOLEAN, UNCHANGED <<size, fullscreen, moved>>,
           r.mapped = visible', r.child = {}, ~late => r.width = at.width
    PROVE  DrawingIInv'
<1>1. r \in AWindow /\ (Clean(window["drawin"]) => Clean(r))
  BY DEF AsDrawn
<1>2. d.refreshed => Holds(r, d.pixmap, Pixel)
  BY DEF AsDrawn, DrawingIInv, DrawinDrawn
<1> QED BY <1>1, <1>2, DrawinBecomes

LEMMA DrawinMoveResizeKeeps ==
    ASSUME DrawingIInv, NEW x \in Int, NEW width \in Pixel, DrawinMoveResize(x, width) PROVE DrawingIInv'
<1>1. DrawnTypeInv /\ PixmapInv /\ DrawinDrawn
  BY DEF DrawingIInv
<1> PICK d : d = SetGeometry(drawable["drawin"], x, width)
  OBVIOUS
<1> PICK at : at = [x |-> x, width |-> width]
  OBVIOUS
<1>2. /\ place' = [place EXCEPT !["drawin"] = at] /\ dirty' = [dirty EXCEPT !["drawin"] = TRUE]
      /\ drawable' = [drawable EXCEPT !["drawin"] = d]
      /\ UNCHANGED <<visible, size, fullscreen, window, moved>>
  BY DEF DrawinMoveResize
<1>3. /\ d \in ADrawable /\ d.exists /\ (d.refreshed <=> d.pixmap \in Drawn)
      /\ d.refreshed => d = drawable["drawin"]
  <2>1. width \in Int /\ drawable["drawin"] \in ADrawable
    BY <1>1, DrawnTypes DEF Pixel
  <2>2. drawable["drawin"].refreshed <=> drawable["drawin"].pixmap \in Drawn
    BY <1>1 DEF PixmapInv
  <2>3. IsSet(drawable["drawin"], width, d)
    BY <2>1, <2>2, SetGeometryIs
  <2> QED BY <1>1, <2>3 DEF IsSet, PixmapInv
<1>4. at \in [x : Int, width : Pixel]
  OBVIOUS
<1>5. AsDrawn(window["drawin"], window["drawin"])
  BY <1>1, DrawnTypes, SameDrawn DEF Shows
<1>6. window' = [window EXCEPT !["drawin"] = window["drawin"]]
  BY <1>1, <1>2 DEF DrawnTypeInv
<1>7. window["drawin"].mapped = visible' /\ window["drawin"].child = {} /\ visible' \in BOOLEAN
  BY <1>1, <1>2 DEF DrawinDrawn, DrawnTypeInv
<1> QED BY <1>2, <1>3, <1>4, <1>5, <1>6, <1>7, DrawinChanges

LEMMA ShowDrawinKeeps == ASSUME DrawingIInv, ShowDrawin PROVE DrawingIInv'
<1>1. DrawnTypeInv /\ PixmapInv /\ DrawinDrawn
  BY DEF DrawingIInv
<1> PICK w : w = ApplyMoveResize(window["drawin"])
  OBVIOUS
<1> PICK new : new = [w EXCEPT !.mapped = TRUE]
  OBVIOUS
<1> PICK r : r = Changed(w, new)
  OBVIOUS
<1> PICK g : g = SetGeometry(drawable["drawin"], place["drawin"].x, place["drawin"].width)
  OBVIOUS
<1> PICK d : d = IF drawable["drawin"].pixmap = "none" THEN g ELSE drawable["drawin"]
  OBVIOUS
<1>2. /\ window' = [window EXCEPT !["drawin"] = r] /\ dirty' = [dirty EXCEPT !["drawin"] = FALSE]
      /\ visible' = TRUE /\ UNCHANGED <<place, size, fullscreen, moved>>
      /\ drawable' = [drawable EXCEPT !["drawin"] = d]
  <2>1. window' = [window EXCEPT !["drawin"] = r]
    BY DEF ShowDrawin
  <2> QED BY <2>1 DEF ShowDrawin
<1>3. AsDrawn(window["drawin"], w) /\ w.child = {} /\ w.width = place["drawin"].width
  BY <1>1, DrawnTypes, MoveResizeIs DEF DrawinDrawn, Shows
<1>4. w \in AWindow /\ new \in AWindow /\ new.mapped = TRUE /\ new.child = {} /\ new.width = w.width
  BY <1>3 DEF AsDrawn, AWindow
<1>5. AsDrawn(w, r) /\ r.mapped = TRUE /\ r.child = {} /\ r.width = place["drawin"].width
  <2>1. Becomes(w, new, r)
    BY <1>4, ChangedIs
  <2> QED BY <1>3, <1>4, <2>1 DEF Becomes
<1>6. AsDrawn(window["drawin"], r)
  BY <1>3, <1>5 DEF AsDrawn
<1>7. /\ g \in ADrawable /\ g.exists = drawable["drawin"].exists /\ (g.refreshed <=> g.pixmap \in Drawn)
      /\ g.refreshed => g = drawable["drawin"]
  <2>1. place["drawin"].x \in Int /\ place["drawin"].width \in Int /\ drawable["drawin"] \in ADrawable
    BY <1>1, DrawnTypes DEF Pixel, Shows
  <2>2. drawable["drawin"].refreshed <=> drawable["drawin"].pixmap \in Drawn
    BY <1>1 DEF PixmapInv
  <2>3. IsSet(drawable["drawin"], place["drawin"].width, g)
    BY <2>1, <2>2, SetGeometryIs
  <2> QED BY <2>3 DEF IsSet
<1>8. /\ d \in ADrawable /\ d.exists /\ (d.refreshed <=> d.pixmap \in Drawn)
      /\ d.refreshed => d = drawable["drawin"]
  BY <1>1, <1>7, DrawnTypes DEF PixmapInv
<1>9. place["drawin"] \in [x : Int, width : Pixel] /\ place' = [place EXCEPT !["drawin"] = place["drawin"]]
  BY <1>1, <1>2 DEF DrawnTypeInv, Shows
<1> QED BY <1>2, <1>5, <1>6, <1>8, <1>9, DrawinChanges

LEMMA HideDrawinKeeps == ASSUME DrawingIInv, HideDrawin PROVE DrawingIInv'
<1>1. DrawnTypeInv /\ PixmapInv /\ DrawinDrawn
  BY DEF DrawingIInv
<1> PICK new : new = [window["drawin"] EXCEPT !.mapped = FALSE]
  OBVIOUS
<1> PICK r : r = Changed(window["drawin"], new)
  OBVIOUS
<1>2. /\ window' = [window EXCEPT !["drawin"] = r] /\ visible' = FALSE
      /\ UNCHANGED <<drawable, place, dirty, size, fullscreen, moved>>
  BY DEF HideDrawin
<1>3. window["drawin"] \in AWindow /\ new \in AWindow /\ new.mapped = FALSE
      /\ new.child = window["drawin"].child /\ new.width = window["drawin"].width
  BY <1>1, DrawnTypes DEF AWindow, Shows
<1>4. AsDrawn(window["drawin"], r) /\ r.mapped = new.mapped /\ r.child = new.child /\ r.width = new.width
  <2>1. Becomes(window["drawin"], new, r)
    BY <1>3, ChangedIs
  <2> QED BY <2>1 DEF Becomes
<1>5. /\ drawable["drawin"] \in ADrawable /\ drawable["drawin"].exists
      /\ drawable["drawin"].refreshed <=> drawable["drawin"].pixmap \in Drawn
      /\ drawable' = [drawable EXCEPT !["drawin"] = drawable["drawin"]]
      /\ place["drawin"] \in [x : Int, width : Pixel] /\ place' = [place EXCEPT !["drawin"] = place["drawin"]]
      /\ dirty["drawin"] \in BOOLEAN /\ dirty' = [dirty EXCEPT !["drawin"] = dirty["drawin"]]
  BY <1>1, <1>2, DrawnTypes DEF DrawnTypeInv, Shows, PixmapInv
<1>6. r.mapped = visible' /\ r.child = {} /\ (~dirty["drawin"] => r.width = place["drawin"].width)
  BY <1>1, <1>2, <1>3, <1>4 DEF DrawinDrawn
<1> QED BY <1>2, <1>4, <1>5, <1>6, DrawinChanges

LEMMA DrawinRefreshKeeps == ASSUME DrawingIInv, DrawinRefresh PROVE DrawingIInv'
<1>1. DrawnTypeInv /\ PixmapInv /\ DrawinDrawn
  BY DEF DrawingIInv
<1> PICK r : r = ApplyMoveResize(window["drawin"])
  OBVIOUS
<1>2. /\ window' = [window EXCEPT !["drawin"] = r] /\ dirty' = [dirty EXCEPT !["drawin"] = FALSE]
      /\ UNCHANGED <<drawable, visible, place, size, fullscreen, moved>>
  BY DEF DrawinRefresh
<1>3. /\ AsDrawn(window["drawin"], r) /\ r.mapped = visible' /\ r.child = {}
      /\ r.width = place["drawin"].width
  BY <1>1, <1>2, DrawnTypes, MoveResizeIs DEF DrawinDrawn, Shows
<1>4. /\ drawable["drawin"] \in ADrawable /\ drawable["drawin"].exists
      /\ drawable["drawin"].refreshed <=> drawable["drawin"].pixmap \in Drawn
      /\ drawable' = [drawable EXCEPT !["drawin"] = drawable["drawin"]]
      /\ place["drawin"] \in [x : Int, width : Pixel] /\ place' = [place EXCEPT !["drawin"] = place["drawin"]]
      /\ visible' \in BOOLEAN
  BY <1>1, <1>2, DrawnTypes DEF DrawnTypeInv, Shows, PixmapInv
<1> QED BY <1>2, <1>3, <1>4, DrawinChanges

LEMMA RedrawDrawinKeeps == ASSUME DrawingIInv, Redraw("drawin") PROVE DrawingIInv'
<1>1. DrawnTypeInv /\ PixmapInv /\ DrawinDrawn
  BY DEF DrawingIInv
<1> PICK d : d = [drawable["drawin"] EXCEPT !.refreshed = TRUE,
                                            !.pixmap = IF @ = "white" THEN "black" ELSE "white"]
  OBVIOUS
<1> PICK w : w = ApplyMoveResize(window["drawin"])
  OBVIOUS
<1> PICK r : r = Copied(w, d.pixmap, 1..place["drawin"].width)
  OBVIOUS
<1>2. d \in ADrawable /\ d.exists /\ d.refreshed /\ d.pixmap \in Drawn
  BY <1>1, DrawnTypes DEF ADrawable, Content, Drawn, PixmapInv
<1>3. drawable' = [drawable EXCEPT !["drawin"] = d]
  BY <1>1 DEF Redraw, DrawnTypeInv
<1>4. drawable'["drawin"] = d
  BY <1>1, <1>3 DEF DrawnTypeInv
<1>5. /\ window' = [window EXCEPT !["drawin"] = r] /\ dirty' = [dirty EXCEPT !["drawin"] = FALSE]
      /\ moved' = moved /\ UNCHANGED <<visible, place, size, fullscreen>>
  <2>1. Copies(d)
    BY <1>2 DEF Copies, Drawn
  <2>2. DrawinPartial(d, 1..place["drawin"].width)
    BY <1>4 DEF Redraw
  <2>3. moved' = moved
    BY <1>1 DEF Redraw, DrawnTypeInv, Bar
  <2> QED BY <2>1, <2>2, <2>3 DEF DrawinPartial, Redraw
<1>6. AsDrawn(window["drawin"], w) /\ w.mapped = visible /\ w.child = {} /\ w.width = place["drawin"].width
  BY <1>1, DrawnTypes, MoveResizeIs DEF DrawinDrawn, Shows
<1>7. w \in AWindow /\ (Clean(window["drawin"]) => Clean(w))
  BY <1>6 DEF AsDrawn
<1>8. /\ r \in AWindow /\ (Clean(w) => Clean(r)) /\ Holds(r, d.pixmap, 1..place["drawin"].width)
      /\ r.mapped = w.mapped /\ r.width = w.width /\ r.child = w.child
  <2>1. WellCopied(w, d.pixmap, 1..place["drawin"].width, r)
    BY <1>2, <1>7, CopiedIs
  <2> QED BY <2>1 DEF WellCopied
<1>9. Holds(r, d.pixmap, Pixel)
  BY <1>6, <1>8 DEF Holds, Shown
<1>10. place["drawin"] \in [x : Int, width : Pixel] /\ place' = [place EXCEPT !["drawin"] = place["drawin"]]
       /\ visible' \in BOOLEAN
  BY <1>1, <1>5 DEF DrawnTypeInv, Shows
<1> QED BY <1>2, <1>3, <1>5, <1>6, <1>7, <1>8, <1>9, <1>10, DrawinBecomes, ZenonT(60)

\* Expose events for the drawin.
LEMMA ExposeDrawinKeeps ==
    ASSUME DrawingIInv, NEW pixels \in SUBSET Pixel, HandleExpose("drawin", pixels),
           UNCHANGED <<drawable, visible, place, size, fullscreen, moved>>
    PROVE  DrawingIInv'
<1>1. DrawnTypeInv /\ PixmapInv /\ DrawinDrawn
  BY DEF DrawingIInv
<1> PICK h : h = [window["drawin"] EXCEPT !.expose = @ \ pixels]
  OBVIOUS
<1> PICK d : d = drawable["drawin"]
  OBVIOUS
<1>2. /\ window["drawin"] \in AWindow
      /\ h \in AWindow /\ h.mapped = window["drawin"].mapped /\ h.width = window["drawin"].width
      /\ h.child = window["drawin"].child /\ h.content = window["drawin"].content
      /\ h.expose = window["drawin"].expose \ pixels
  BY <1>1, DrawnTypes, HandledIs DEF Shows
<1>3. /\ d \in ADrawable /\ d.exists /\ (d.refreshed <=> d.pixmap \in Drawn)
      /\ drawable' = [drawable EXCEPT !["drawin"] = d]
      /\ place["drawin"] \in [x : Int, width : Pixel] /\ place' = [place EXCEPT !["drawin"] = place["drawin"]]
      /\ visible' \in BOOLEAN /\ dirty["drawin"] \in BOOLEAN
  BY <1>1, DrawnTypes DEF DrawnTypeInv, Shows, PixmapInv
<1>4. Clean(window["drawin"]) => Clean(h)
  BY <1>2 DEF Clean
<1>5. [window EXCEPT !["drawin"].expose = @ \ pixels] = [window EXCEPT !["drawin"] = h]
  BY <1>1 DEF DrawnTypeInv, Shows
<1>6. CASE visible /\ Copies(d)
  <2> PICK w : w = ApplyMoveResize(h)
    OBVIOUS
  <2> PICK r : r = Copied(w, d.pixmap, pixels)
    OBVIOUS
  <2>1. window' = [window EXCEPT !["drawin"] = r] /\ dirty' = [dirty EXCEPT !["drawin"] = FALSE]
    <3>1. [[window EXCEPT !["drawin"] = h] EXCEPT !["drawin"] = Copied(ApplyMoveResize(@), d.pixmap, pixels)]
              = [window EXCEPT !["drawin"] = r]
      BY <1>1 DEF DrawnTypeInv, Shows
    <3> QED BY <1>5, <1>6, <3>1 DEF HandleExpose
  <2>2. AsDrawn(h, w) /\ w.mapped = h.mapped /\ w.child = h.child /\ w.width = place["drawin"].width
    BY <1>1, <1>2, MoveResizeIs DEF DrawinDrawn
  <2>3. w \in AWindow /\ d.pixmap \in Drawn
    BY <1>3, <1>6, <2>2 DEF AsDrawn, Copies
  <2>4. WellCopied(w, d.pixmap, pixels, r)
    BY <2>3, CopiedIs
  <2>5. Holds(r, d.pixmap, Pixel)
    <3>1. Holds(window["drawin"], d.pixmap, Pixel)
      BY <1>1, <1>6 DEF DrawinDrawn, Copies
    <3>2. Holds(h, d.pixmap, Pixel \ pixels)
      BY <1>2, <3>1 DEF Holds, Shown
    <3>3. Holds(w, d.pixmap, Pixel \ pixels)
      BY <2>2, <3>2 DEF AsDrawn
    <3>4. Holds(r, d.pixmap, Pixel \ pixels) /\ Holds(r, d.pixmap, pixels)
      BY <2>4, <3>3 DEF WellCopied
    <3> QED BY <3>4 DEF Holds
  <2>6. r \in AWindow /\ (Clean(w) => Clean(r)) /\ r.mapped = w.mapped /\ r.width = w.width /\ r.child = w.child
    BY <2>4 DEF WellCopied
  <2>7. Clean(window["drawin"]) => Clean(r)
    BY <1>4, <2>2, <2>6 DEF AsDrawn
  <2>8. r.mapped = visible' /\ r.child = {} /\ r.width = place["drawin"].width
    BY <1>1, <1>2, <2>2, <2>6 DEF DrawinDrawn
  <2> QED BY <1>3, <2>1, <2>5, <2>6, <2>7, <2>8, DrawinBecomes
<1>7. CASE ~(visible /\ Copies(d))
  <2>1. window' = [window EXCEPT !["drawin"] = h] /\ dirty' = [dirty EXCEPT !["drawin"] = dirty["drawin"]]
    BY <1>1, <1>5, <1>7 DEF HandleExpose, DrawnTypeInv
  <2>2. d.refreshed => Holds(h, d.pixmap, Pixel)
    <3>1. d.refreshed => ~visible
      BY <1>3, <1>7 DEF Copies, Drawn
    <3>2. ~visible => Shown(h) = {}
      BY <1>1, <1>2 DEF Shown, DrawinDrawn
    <3> QED BY <3>1, <3>2 DEF Holds
  <2>3. h.mapped = visible' /\ h.child = {} /\ (~dirty["drawin"] => h.width = place["drawin"].width)
    BY <1>1, <1>2 DEF DrawinDrawn
  <2> QED BY <1>2, <1>3, <1>4, <2>1, <2>2, <2>3, DrawinBecomes, ZenonT(60)
<1> QED BY <1>6, <1>7

-----------------------------------------------------------------------------
(* The frame.                                                              *)

\* The frame's window changes, and perhaps the pixmap of a titlebar.
LEMMA FrameBecomes ==
    ASSUME DrawingIInv, NEW r \in AWindow, Clean(window["frame"]) => Clean(r),
           window' = [window EXCEPT !["frame"] = r], UNCHANGED <<visible, place, size, fullscreen>>,
           NEW late \in BOOLEAN, dirty' = [dirty EXCEPT !["frame"] = late],
           drawable' \in [Bar \cup {"drawin"} -> ADrawable], drawable'["drawin"] = drawable["drawin"],
           PixmapInv', moved' \subseteq Bar,
           \A b \in Bar \ moved' : drawable'[b].refreshed => Holds(r, drawable'[b].pixmap, Area(b))
    PROVE  DrawingIInv'
<1>1. DrawnTypeInv /\ UndrawnIsNeverShown /\ DrawinDrawn /\ FrameDrawn
  BY DEF DrawingIInv
<1>2. window'["frame"] = r /\ window'["drawin"] = window["drawin"] /\ dirty'["drawin"] = dirty["drawin"]
  BY <1>1 DEF DrawnTypeInv, Shows
<1>3. DrawnTypeInv'
  <2>1. window' \in [Shows -> AWindow] /\ dirty' \in [Shows -> BOOLEAN]
    BY <1>1 DEF DrawnTypeInv, Shows
  <2> QED BY <1>1, <2>1 DEF DrawnTypeInv
<1>4. UndrawnIsNeverShown'
  <2>1. Clean(r) /\ Clean(window["drawin"])
    BY <1>1, CleanIs
  <2> QED BY <1>2, <2>1 DEF UndrawnIsNeverShown, Clean
<1>5. DrawinDrawn'
  BY <1>1, <1>2 DEF DrawinDrawn, Holds, Shown
<1>6. FrameDrawn'
  <2>1. \A b \in Bar : Area(b)' = Area(b)
    BY DEF Area, BarPosition
  <2>2. ASSUME NEW b \in Bar \ moved', drawable'[b].refreshed
        PROVE  Holds(window'["frame"], drawable'[b].pixmap, Area(b)')
    BY <1>2, <2>1, <2>2
  <2> QED BY <1>1, <2>2 DEF FrameDrawn, Holds, Shown
<1> QED BY <1>3, <1>4, <1>5, <1>6 DEF DrawingIInv

\* It is as well drawn as before.
LEMMA FrameChanges ==
    ASSUME DrawingIInv, NEW r, AsDrawn(window["frame"], r), window' = [window EXCEPT !["frame"] = r],
           UNCHANGED <<drawable, visible, place, size, fullscreen, moved>>,
           NEW late \in BOOLEAN, dirty' = [dirty EXCEPT !["frame"] = late]
    PROVE  DrawingIInv'
<1>1. DrawnTypeInv /\ PixmapInv /\ FrameDrawn
  BY DEF DrawingIInv
<1>2. r \in AWindow /\ (Clean(window["frame"]) => Clean(r))
  BY DEF AsDrawn
<1>3. drawable' \in [Bar \cup {"drawin"} -> ADrawable] /\ moved' \subseteq Bar
  BY <1>1 DEF DrawnTypeInv
<1>4. PixmapInv'
  BY <1>1 DEF PixmapInv
<1>5. \A b \in Bar \ moved' : drawable'[b].refreshed => Holds(r, drawable'[b].pixmap, Area(b))
  BY <1>1 DEF AsDrawn, FrameDrawn
<1> QED BY <1>2, <1>3, <1>4, <1>5, FrameBecomes

LEMMA BanOrUnbanKeeps == ASSUME DrawingIInv, BanOrUnban PROVE DrawingIInv'
<1>1. DrawnTypeInv
  BY DEF DrawingIInv
<1>0. PICK mapped \in BOOLEAN :
          window' = [window EXCEPT !["frame"] = Changed(@, [@ EXCEPT !.mapped = mapped])]
  BY DEF BanOrUnban
<1> PICK new : new = [window["frame"] EXCEPT !.mapped = mapped]
  OBVIOUS
<1> PICK r : r = Changed(window["frame"], new)
  OBVIOUS
<1>2. /\ window' = [window EXCEPT !["frame"] = r]
      /\ UNCHANGED <<drawable, visible, place, dirty, size, fullscreen, moved>>
  BY <1>0 DEF BanOrUnban
<1>3. window["frame"] \in AWindow /\ new \in AWindow
  BY <1>1, DrawnTypes DEF AWindow, Shows
<1>4. Becomes(window["frame"], new, r)
  BY <1>3, ChangedIs
<1>5. dirty["frame"] \in BOOLEAN /\ dirty' = [dirty EXCEPT !["frame"] = dirty["frame"]]
  BY <1>1, <1>2 DEF DrawnTypeInv, Shows
<1>6. AsDrawn(window["frame"], r)
  BY <1>4 DEF Becomes
<1> QED BY <1>2, <1>5, <1>6, FrameChanges

LEMMA GeometryRefreshKeeps == ASSUME DrawingIInv, GeometryRefresh PROVE DrawingIInv'
<1>1. DrawnTypeInv
  BY DEF DrawingIInv
<1> PICK wide : wide = [window["frame"] EXCEPT !.width = place["frame"].width]
  OBVIOUS
<1> PICK framed : framed = Changed(window["frame"], wide)
  OBVIOUS
<1> PICK child : child = IF fullscreen THEN 1..framed.width
                         ELSE IF size["left"] + size["right"] = framed.width THEN framed.child
                         ELSE (1..framed.width) \ (Area("left") \cup Area("right"))
  OBVIOUS
<1> PICK new : new = [framed EXCEPT !.child = child]
  OBVIOUS
<1> PICK r : r = Changed(framed, new)
  OBVIOUS
<1>2. /\ window' = [window EXCEPT !["frame"] = r] /\ dirty' = [dirty EXCEPT !["frame"] = FALSE]
      /\ UNCHANGED <<drawable, visible, place, size, fullscreen, moved>>
  BY DEF GeometryRefresh
<1>3. window["frame"] \in AWindow /\ wide \in AWindow
  BY <1>1, DrawnTypes, WidthIs DEF Shows
<1>4. AsDrawn(window["frame"], framed)
  <2>1. Becomes(window["frame"], wide, framed)
    BY <1>3, ChangedIs
  <2> QED BY <2>1 DEF Becomes
<1>5. framed \in AWindow /\ new \in AWindow
  <2>1. framed \in AWindow
    BY <1>4 DEF AsDrawn
  <2>2. 1..framed.width \subseteq Pixel /\ framed.child \subseteq Pixel
    <3>1. framed.width \in Pixel /\ framed.child \subseteq Pixel
      BY <2>1 DEF AWindow
    <3>2. \A n \in 1..MaxWidth : 1..n \subseteq 1..MaxWidth
      BY DrawingAssumption
    <3> QED BY <3>1, <3>2 DEF Pixel
  <2>3. child \subseteq Pixel
    BY <2>2, Zenon
  <2> QED BY <2>1, <2>3 DEF AWindow
<1>6. AsDrawn(framed, r)
  <2>1. Becomes(framed, new, r)
    BY <1>5, ChangedIs
  <2> QED BY <2>1 DEF Becomes
<1>7. AsDrawn(window["frame"], r)
  BY <1>4, <1>6 DEF AsDrawn
<1> QED BY <1>2, <1>7, FrameChanges

LEMMA RedrawTitlebarKeeps == ASSUME DrawingIInv, NEW b \in Bar, Redraw(b) PROVE DrawingIInv'
<1>1. DrawnTypeInv /\ PixmapInv /\ FrameDrawn
  BY DEF DrawingIInv
<1> PICK d : d = [drawable[b] EXCEPT !.refreshed = TRUE, !.pixmap = IF @ = "white" THEN "black" ELSE "white"]
  OBVIOUS
<1> PICK r : r = Copied(window["frame"], d.pixmap, Area(b))
  OBVIOUS
<1>2. /\ d \in ADrawable /\ d.exists /\ d.refreshed /\ d.pixmap \in Drawn
      /\ d.width > 0 /\ d.width = size[b]
  <2>1. drawable[b] \in ADrawable /\ drawable[b].pixmap # "none"
    BY <1>1, DrawnTypes DEF Redraw
  <2> QED BY <1>1, <2>1 DEF ADrawable, Content, Drawn, PixmapInv
<1>3. /\ drawable' = [drawable EXCEPT ![b] = d] /\ b # "drawin"
      /\ drawable'[b] = d /\ \A e \in Bar \cup {"drawin"} : e # b => drawable'[e] = drawable[e]
  BY <1>1 DEF Redraw, DrawnTypeInv, Bar
<1>4. /\ window' = [window EXCEPT !["frame"] = r] /\ dirty' = dirty /\ moved' = moved \ {b}
      /\ UNCHANGED <<visible, place, size, fullscreen>>
  BY <1>3 DEF Redraw
<1>5. window["frame"] \in AWindow /\ WellCopied(window["frame"], d.pixmap, Area(b), r)
  BY <1>1, <1>2, DrawnTypes, CopiedIs DEF Shows
<1>6. r \in AWindow /\ (Clean(window["frame"]) => Clean(r))
  BY <1>5 DEF WellCopied
<1>7. drawable' \in [Bar \cup {"drawin"} -> ADrawable]
  BY <1>1, <1>2, <1>3 DEF DrawnTypeInv
<1>8. PixmapInv'
  BY <1>1, <1>2, <1>3, <1>4 DEF PixmapInv, Bar
<1>9. ASSUME NEW o \in Bar \ moved', drawable'[o].refreshed
      PROVE  Holds(r, drawable'[o].pixmap, Area(o))
  <2>1. CASE o = b
    BY <1>3, <1>5, <2>1 DEF WellCopied
  <2>2. CASE o # b
    <3>1. Holds(window["frame"], drawable[o].pixmap, Area(o))
      BY <1>1, <1>3, <1>4, <1>9, <2>2 DEF FrameDrawn
    <3>2. Area(o) \cap Area(b) = {}
      BY <1>1, <2>2, Apart DEF Bar
    <3> QED BY <1>3, <1>5, <2>2, <3>1, <3>2 DEF WellCopied
  <2> QED BY <2>1, <2>2
<1>10. dirty["frame"] \in BOOLEAN /\ dirty' = [dirty EXCEPT !["frame"] = dirty["frame"]]
  BY <1>1, <1>4 DEF DrawnTypeInv, Shows
<1>11. drawable'["drawin"] = drawable["drawin"] /\ moved' \subseteq Bar
  BY <1>1, <1>3, <1>4 DEF DrawnTypeInv
<1> QED BY <1>4, <1>6, <1>7, <1>8, <1>9, <1>10, <1>11, FrameBecomes

\* Expose events for the frame.
LEMMA ExposeFrameKeeps ==
    ASSUME DrawingIInv, NEW pixels \in SUBSET Pixel, HandleExpose("frame", pixels),
           UNCHANGED <<drawable, visible, place, size, fullscreen, moved>>
    PROVE  DrawingIInv'
<1>1. DrawnTypeInv /\ PixmapInv /\ FrameDrawn
  BY DEF DrawingIInv
<1> PICK h : h = [window["frame"] EXCEPT !.expose = @ \ pixels]
  OBVIOUS
<1> PICK r : r = TitlebarsShown(h, pixels)
  OBVIOUS
<1>2. /\ window["frame"] \in AWindow
      /\ h \in AWindow /\ h.mapped = window["frame"].mapped /\ h.width = window["frame"].width
      /\ h.child = window["frame"].child /\ h.content = window["frame"].content
      /\ h.expose = window["frame"].expose \ pixels
  BY <1>1, DrawnTypes, HandledIs DEF Shows
<1>3. window' = [window EXCEPT !["frame"] = r] /\ dirty' = dirty
  <2>1. [[window EXCEPT !["frame"].expose = @ \ pixels] EXCEPT !["frame"] = TitlebarsShown(@, pixels)]
            = [window EXCEPT !["frame"] = r]
    BY <1>1 DEF DrawnTypeInv, Shows
  <2> QED BY <2>1 DEF HandleExpose
<1> DEFINE Over(p) == {b \in Bar : Copies(drawable[b]) /\ p \in Area(b)}
<1>4. ASSUME NEW p \in Pixel, NEW b \in Over(p)
      PROVE  (CHOOSE o \in Bar : Copies(drawable[o]) /\ p \in Area(o)) = b
  BY <1>1, <1>4, Apart DEF Bar
<1>5. /\ r.mapped = h.mapped /\ r.width = h.width /\ r.child = h.child /\ r.expose = h.expose
      /\ r = [mapped |-> h.mapped, width |-> h.width, child |-> h.child, content |-> r.content,
              expose |-> h.expose]
      /\ \A p \in Pixel : \A b \in Over(p) : p \in pixels \cap Shown(h) => r.content[p] = drawable[b].pixmap
      /\ \A p \in Pixel : p \notin pixels \cap Shown(h) \/ Over(p) = {} => r.content[p] = h.content[p]
      /\ DOMAIN r.content = Pixel /\ r.content = [p \in Pixel |-> r.content[p]]
  <2>1. /\ r.mapped = h.mapped /\ r.width = h.width /\ r.child = h.child /\ r.expose = h.expose
        /\ r = [mapped |-> h.mapped, width |-> h.width, child |-> h.child, content |-> r.content,
                expose |-> h.expose]
        /\ r.content = [p \in Pixel |->
               IF p \in pixels \cap Shown(h) /\ \E b \in Bar : Copies(drawable[b]) /\ p \in Area(b)
               THEN drawable[CHOOSE b \in Bar : Copies(drawable[b]) /\ p \in Area(b)].pixmap
               ELSE h.content[p]]
    BY <1>2 DEF TitlebarsShown, AWindow
  <2>2. ASSUME NEW p \in Pixel, NEW b \in Over(p), p \in pixels \cap Shown(h)
        PROVE  r.content[p] = drawable[b].pixmap
    BY <1>4, <2>1, <2>2
  <2>3. ASSUME NEW p \in Pixel, p \notin pixels \cap Shown(h) \/ Over(p) = {}
        PROVE  r.content[p] = h.content[p]
    BY <2>1, <2>3
  <2>4. DOMAIN r.content = Pixel /\ r.content = [p \in Pixel |-> r.content[p]]
    BY <2>1
  <2> QED BY <2>1, <2>2, <2>3, <2>4
<1>6. \A p \in Pixel : \A b \in Over(p) : drawable[b].pixmap \in Drawn
  BY <1>1 DEF Copies, PixmapInv
<1>7. ASSUME NEW p \in Pixel PROVE r.content[p] = h.content[p] \/ r.content[p] \in Drawn
  <2>1. CASE p \notin pixels \cap Shown(h) \/ Over(p) = {}
    BY <1>5, <2>1
  <2>2. CASE p \in pixels \cap Shown(h) /\ Over(p) # {}
    BY <1>5, <1>6, <2>2
  <2> QED BY <2>1, <2>2
<1> HIDE DEF Over
<1>8. r \in AWindow
  <2>1. \A p \in Pixel : r.content[p] \in Content
    BY <1>2, <1>7 DEF AWindow, Drawn, Content
  <2>2. r.content \in [Pixel -> Content]
    BY <1>5, <2>1
  <2> QED BY <1>2, <1>5, <2>2 DEF AWindow
<1>9. Clean(window["frame"]) => Clean(r)
  BY <1>2, <1>7 DEF Clean, Drawn
<1>10. ASSUME NEW b \in Bar \ moved, drawable[b].refreshed
       PROVE  Holds(r, drawable[b].pixmap, Area(b))
  <2>1. Copies(drawable[b]) /\ Holds(window["frame"], drawable[b].pixmap, Area(b))
    BY <1>1, <1>10 DEF Copies, PixmapInv, FrameDrawn, Drawn
  <2>2. SUFFICES ASSUME NEW p \in Area(b) \cap Shown(r), p \notin r.expose
                 PROVE  r.content[p] = drawable[b].pixmap
    BY DEF Holds
  <2>3. p \in Shown(h) /\ p \in Shown(window["frame"]) /\ p \in Pixel
    BY <1>2, <1>5, <1>8, <2>2, ShownPixels DEF Shown
  <2>4. b \in Over(p)
    BY <2>1, <2>2 DEF Over
  <2>5. CASE p \in pixels
    BY <1>5, <2>3, <2>4, <2>5
  <2>6. CASE p \notin pixels
    <3>1. r.content[p] = h.content[p]
      <4>1. p \notin pixels \cap Shown(h)
        BY <2>6
      <4> QED BY <1>5, <2>3, <4>1
    <3>2. p \notin window["frame"].expose
      BY <1>2, <1>5, <2>2, <2>6
    <3> QED BY <1>2, <2>1, <2>2, <2>3, <3>1, <3>2 DEF Holds
  <2> QED BY <2>5, <2>6
<1>11. dirty["frame"] \in BOOLEAN /\ dirty' = [dirty EXCEPT !["frame"] = dirty["frame"]]
  BY <1>1, <1>3 DEF DrawnTypeInv, Shows
<1>12. drawable' \in [Bar \cup {"drawin"} -> ADrawable] /\ moved' \subseteq Bar
  BY <1>1 DEF DrawnTypeInv
<1>13. PixmapInv'
  BY <1>1 DEF PixmapInv
<1> QED BY <1>3, <1>8, <1>9, <1>10, <1>11, <1>12, <1>13, FrameBecomes

\* Any change of the client's geometry, its titlebars or fullscreen.
LEMMA ResizeDoKeeps ==
    ASSUME DrawingIInv, NEW x \in Int, NEW width \in Pixel, NEW sizes \in [Bar -> 0..MaxBar],
           NEW full \in BOOLEAN, width >= sizes["left"] + sizes["right"], ResizeDo(x, width, sizes, full)
    PROVE  DrawingIInv'
<1>1. DrawnTypeInv /\ PixmapInv /\ UndrawnIsNeverShown /\ DrawinDrawn /\ FrameDrawn
  BY DEF DrawingIInv
<1>2. /\ place' = [place EXCEPT !["frame"] = [x |-> x, width |-> width]]
      /\ size' = sizes /\ fullscreen' = full /\ dirty' = [dirty EXCEPT !["frame"] = TRUE]
      /\ moved' = {b \in Bar : drawable'[b].refreshed /\ (b \in moved \/ First(b, width, sizes) # BarPosition(b))}
      /\ UNCHANGED <<visible, window>>
  BY DEF ResizeDo
<1>3. /\ place'["frame"] = [x |-> x, width |-> width] /\ place'["drawin"] = place["drawin"]
      /\ dirty'["drawin"] = dirty["drawin"]
  BY <1>1, <1>2 DEF DrawnTypeInv, Shows
<1> DEFINE Wide(b) == IF full THEN 0 ELSE sizes[b]
           Set(b) == SetGeometry(drawable[b], x + First(b, width, sizes), Wide(b))
<1>4. drawable' = [d \in Bar \cup {"drawin"} |->
           IF d = "drawin" \/ (~drawable[d].exists /\ sizes[d] = 0) THEN drawable[d]
           ELSE [Set(d) EXCEPT !.exists = TRUE]]
  BY <1>1 DEF ResizeDo, DrawnTypeInv
<1>5. \A b \in Bar : sizes[b] \in Nat /\ Wide(b) \in Nat /\ x + First(b, width, sizes) \in Int
  <2>1. \A b \in Bar : sizes[b] \in Nat
    OBVIOUS
  <2>2. width \in Int /\ sizes["right"] \in Nat
    BY <2>1 DEF Pixel, Bar
  <2> QED BY <2>1, <2>2 DEF First
<1>6. ASSUME NEW b \in Bar PROVE IsSet(drawable[b], Wide(b), Set(b))
  <2>1. drawable[b] \in ADrawable /\ (drawable[b].refreshed <=> drawable[b].pixmap \in Drawn)
    BY <1>1, DrawnTypes DEF PixmapInv
  <2> QED BY <1>5, <2>1, SetGeometryIs
<1> HIDE DEF Set, Wide
\* A titlebar stays as it is, or gets a pixmap of its size.
<1>7. ASSUME NEW b \in Bar
      PROVE  /\ drawable'[b] \in ADrawable /\ (drawable'[b].refreshed <=> drawable'[b].pixmap \in Drawn)
             /\ drawable'[b].pixmap # "none" => drawable'[b].exists /\ drawable'[b].width > 0
                                                /\ drawable'[b].width = sizes[b]
             /\ drawable'[b].refreshed => drawable'[b] = drawable[b]
  <2>1. drawable[b] \in ADrawable /\ b # "drawin"
    BY <1>1, DrawnTypes DEF Bar
  <2>2. CASE ~drawable[b].exists /\ sizes[b] = 0
    <3>1. drawable'[b] = drawable[b] /\ drawable[b].pixmap = "none"
      BY <1>1, <1>4, <2>2 DEF PixmapInv
    <3> QED BY <1>1, <2>1, <3>1 DEF PixmapInv
  <2>3. CASE ~(~drawable[b].exists /\ sizes[b] = 0)
    <3> PICK s : s = Set(b)
      OBVIOUS
    <3> PICK n : n = [s EXCEPT !.exists = TRUE]
      OBVIOUS
    <3>1. drawable'[b] = n
      BY <1>4, <2>1, <2>3
    <3>2. IsSet(drawable[b], Wide(b), s)
      BY <1>6
    <3>3. /\ n \in ADrawable /\ n.exists /\ n.width = s.width /\ n.pixmap = s.pixmap /\ n.refreshed = s.refreshed
          /\ s.exists => n = s
      BY <3>2 DEF IsSet, ADrawable
    <3>4. n.pixmap # "none" => n.width > 0
      <4>1. drawable[b].pixmap # "none" => drawable[b].width > 0
        BY <1>1 DEF PixmapInv
      <4> QED BY <3>2, <3>3, <4>1 DEF IsSet
    <3>5. n.width > 0 => n.width = sizes[b]
      BY <3>2, <3>3 DEF IsSet, Wide
    <3>6. n.refreshed <=> n.pixmap \in Drawn
      BY <3>2, <3>3 DEF IsSet
    <3>7. n.refreshed => n = drawable[b]
      <4>1. SUFFICES ASSUME n.refreshed PROVE n = drawable[b]
        OBVIOUS
      <4>2. s = drawable[b]
        BY <3>2, <3>3, <4>1 DEF IsSet
      <4>3. drawable[b].exists
        BY <1>1, <3>3, <4>1, <4>2 DEF PixmapInv, Drawn
      <4> QED BY <3>3, <4>2, <4>3
    <3> QED BY <3>1, <3>3, <3>4, <3>5, <3>6, <3>7
  <2> QED BY <2>2, <2>3
<1>8. drawable'["drawin"] = drawable["drawin"]
  BY <1>4
<1>9. DrawnTypeInv'
  <2>1. drawable' \in [Bar \cup {"drawin"} -> ADrawable]
    <3>1. DOMAIN drawable' = Bar \cup {"drawin"} /\ drawable' = [d \in Bar \cup {"drawin"} |-> drawable'[d]]
      BY <1>4
    <3>2. \A d \in Bar \cup {"drawin"} : drawable'[d] \in ADrawable
      BY <1>1, <1>7, <1>8, DrawnTypes
    <3> QED BY <3>1, <3>2
  <2>2. place' \in [Shows -> [x : Int, width : Pixel]] /\ dirty' \in [Shows -> BOOLEAN]
    BY <1>1, <1>2 DEF DrawnTypeInv, Shows
  <2> QED BY <1>1, <1>2, <2>1, <2>2 DEF DrawnTypeInv
<1>10. PixmapInv'
  BY <1>1, <1>2, <1>7, <1>8 DEF PixmapInv
<1>11. UndrawnIsNeverShown'
  BY <1>1, <1>2 DEF UndrawnIsNeverShown
<1>12. DrawinDrawn'
  BY <1>1, <1>2, <1>3, <1>8 DEF DrawinDrawn, Holds, Shown
<1>13. FrameDrawn'
  <2>1. ASSUME NEW b \in Bar \ moved', drawable'[b].refreshed
        PROVE  Holds(window'["frame"], drawable'[b].pixmap, Area(b)')
    <3>1. b \notin moved /\ First(b, width, sizes) = BarPosition(b) /\ drawable'[b] = drawable[b]
      BY <1>2, <1>7, <2>1
    <3>2. drawable[b].width = size[b] /\ drawable[b].width = sizes[b]
      BY <1>1, <1>7, <2>1, <3>1 DEF PixmapInv, Drawn
    <3>3. Area(b)' = Area(b)
      BY <1>2, <1>3, <3>1, <3>2 DEF Area, BarPosition
    <3>4. Holds(window["frame"], drawable[b].pixmap, Area(b))
      BY <1>1, <2>1, <3>1 DEF FrameDrawn
    <3> QED BY <1>2, <3>1, <3>3, <3>4
  <2>2. (place["frame"].width >= size["left"] + size["right"])'
    BY <1>2, <1>3
  <2> QED BY <2>1, <2>2 DEF FrameDrawn, Holds, Shown
<1> QED BY <1>9, <1>10, <1>11, <1>12, <1>13 DEF DrawingIInv

-----------------------------------------------------------------------------
LEMMA DrawingStart == DrawingInit => DrawingIInv
<1> SUFFICES ASSUME DrawingInit PROVE DrawingIInv
  OBVIOUS
<1>1. 1 \in Pixel /\ 0 \in 0..MaxBar
  BY DrawingAssumption DEF Pixel
<1>2. DrawnTypeInv
  <2>1. drawable \in [Bar \cup {"drawin"} -> ADrawable]
    BY DEF DrawingInit, ADrawable
  <2>2. place \in [Shows -> [x : Int, width : Pixel]] /\ dirty \in [Shows -> BOOLEAN]
    BY <1>1 DEF DrawingInit, Shows
  <2>3. window \in [Shows -> AWindow]
    BY <1>1, <2>2 DEF DrawingInit, Shows, AWindow, Content
  <2> QED BY <1>1, <2>1, <2>2, <2>3 DEF DrawnTypeInv, DrawingInit
<1>3. PixmapInv
  BY DEF DrawingInit, PixmapInv, Bar, Drawn
<1>4. UndrawnIsNeverShown
  BY DEF DrawingInit, UndrawnIsNeverShown
<1>5. DrawinDrawn
  BY DEF DrawingInit, DrawinDrawn
<1>6. FrameDrawn
  BY DEF DrawingInit, FrameDrawn, Bar
<1> QED BY <1>2, <1>3, <1>4, <1>5, <1>6 DEF DrawingIInv

LEMMA DrawingStep == DrawingIInv /\ [DrawingNext]_drawingVars => DrawingIInv'
<1> SUFFICES ASSUME DrawingIInv, [DrawingNext]_drawingVars PROVE DrawingIInv'
  OBVIOUS
<1>1. DrawnTypeInv /\ FrameDrawn
  BY DEF DrawingIInv
<1>2. CASE ShowDrawin
  BY <1>2, ShowDrawinKeeps
<1>3. CASE HideDrawin
  BY <1>3, HideDrawinKeeps
<1>4. CASE DrawinRefresh
  BY <1>4, DrawinRefreshKeeps
<1>5. CASE GeometryRefresh
  BY <1>5, GeometryRefreshKeeps
<1>6. CASE BanOrUnban
  BY <1>6, BanOrUnbanKeeps
<1>7. place["frame"].x \in Int /\ place["frame"].width \in Pixel
  BY <1>1, DrawnTypes DEF Shows
<1>8. CASE SetFullscreen
  <2>1. size \in [Bar -> 0..MaxBar] /\ place["frame"].width >= size["left"] + size["right"]
    BY <1>1 DEF DrawnTypeInv, FrameDrawn
  <2>3. (~fullscreen) \in BOOLEAN
    BY Zenon
  <2>2. ResizeDo(place["frame"].x, place["frame"].width, size, ~fullscreen)
    BY <1>8 DEF SetFullscreen
  <2> QED BY <1>7, <2>1, <2>2, <2>3, ResizeDoKeeps
<1>9. CASE Expose
  <2>1. PICK w \in {"drawin", "frame"} : \E r \in Rectangle(w) :
            HandleExpose(w, r) /\ UNCHANGED <<drawable, visible, place, size, fullscreen, moved>>
    BY <1>9 DEF Expose
  <2>2. PICK r \in Rectangle(w) :
            HandleExpose(w, r) /\ UNCHANGED <<drawable, visible, place, size, fullscreen, moved>>
    BY <2>1
  <2>3. r \in SUBSET Pixel
    BY DrawingAssumption DEF Rectangle, Pixel
  <2> QED BY <2>2, <2>3, ExposeDrawinKeeps, ExposeFrameKeeps
<1>10. ASSUME NEW x \in 0..MaxX, NEW width \in Pixel, DrawinMoveResize(x, width) PROVE DrawingIInv'
  BY <1>10, DrawinMoveResizeKeeps
<1>11. ASSUME NEW x \in 0..MaxX, NEW width \in Pixel, ResizeClient(x, width) PROVE DrawingIInv'
  <2>1. size \in [Bar -> 0..MaxBar] /\ fullscreen \in BOOLEAN /\ width >= size["left"] + size["right"]
        /\ ResizeDo(x, width, size, fullscreen)
    BY <1>1, <1>11 DEF ResizeClient, DrawnTypeInv
  <2> QED BY <2>1, ResizeDoKeeps
<1>12. ASSUME NEW b \in Bar, NEW s \in 0..MaxBar, TitlebarResize(b, s) PROVE DrawingIInv'
  <2> PICK width : width = place["frame"].width + s - size[b]
    OBVIOUS
  <2> PICK sizes : sizes = [size EXCEPT ![b] = s]
    OBVIOUS
  <2>1. width \in Pixel /\ ResizeDo(place["frame"].x, width, sizes, fullscreen)
    BY <1>12 DEF TitlebarResize
  <2>2. sizes \in [Bar -> 0..MaxBar] /\ fullscreen \in BOOLEAN
    BY <1>1 DEF DrawnTypeInv
  <2>3. width >= sizes["left"] + sizes["right"]
    <3>1. size \in [Bar -> 0..MaxBar] /\ place["frame"].width >= size["left"] + size["right"]
      BY <1>1 DEF DrawnTypeInv, FrameDrawn
    <3>2. size["left"] \in Int /\ size["right"] \in Int /\ s \in Int /\ place["frame"].width \in Int
      BY <1>7, <3>1 DEF Bar, Pixel
    <3>3. CASE b = "left"
      <4>1. sizes["left"] = s /\ sizes["right"] = size["right"]
        BY <3>1, <3>3 DEF Bar
      <4> QED BY <3>1, <3>2, <3>3, <4>1
    <3>4. CASE b = "right"
      <4>1. sizes["right"] = s /\ sizes["left"] = size["left"]
        BY <3>1, <3>4 DEF Bar
      <4> QED BY <3>1, <3>2, <3>4, <4>1
    <3> QED BY <3>3, <3>4 DEF Bar
  <2> QED BY <1>7, <2>1, <2>2, <2>3, ResizeDoKeeps
<1>13. ASSUME NEW d \in Bar \cup {"drawin"}, Redraw(d) PROVE DrawingIInv'
  BY <1>13, RedrawDrawinKeeps, RedrawTitlebarKeeps
<1>14. CASE UNCHANGED drawingVars
  <2>1. DrawnTypeInv' /\ PixmapInv' /\ UndrawnIsNeverShown'
    BY <1>14 DEF DrawingIInv, drawingVars, DrawnTypeInv, PixmapInv, UndrawnIsNeverShown
  <2>2. DrawinDrawn' /\ FrameDrawn'
    BY <1>14 DEF DrawingIInv, drawingVars, DrawinDrawn, FrameDrawn, Holds, Shown, Area, BarPosition
  <2> QED BY <2>1, <2>2 DEF DrawingIInv
<1>15. CASE DrawingNext
  BY <1>2, <1>3, <1>4, <1>5, <1>6, <1>8, <1>9, <1>10, <1>11, <1>12, <1>13, <1>15 DEF DrawingNext
<1> QED BY <1>14, <1>15

LEMMA DrawingFollows == DrawingIInv => DrawingInv
<1> SUFFICES ASSUME DrawingIInv PROVE DrawingInv
  OBVIOUS
<1>1. DrawnTypeInv /\ PixmapInv /\ UndrawnIsNeverShown /\ DrawinDrawn /\ FrameDrawn
  BY DEF DrawingIInv
<1>2. DrawingTypeOK
  <2>1. \A d \in DOMAIN drawable : drawable[d].pixmap \in Content \cup {"none"}
    BY <1>1 DEF DrawnTypeInv, ADrawable
  <2>2. \A w \in {"drawin", "frame"} : /\ window[w].width \in Pixel /\ place[w].width \in Pixel
                                       /\ window[w].content \in [Pixel -> Content]
                                       /\ window[w].expose \subseteq Pixel
    BY <1>1, DrawnTypes DEF AWindow, Shows
  <2> QED BY <1>1, <2>1, <2>2 DEF DrawingTypeOK, DrawnTypeInv
<1>3. ASSUME visible, drawable["drawin"].refreshed, ~dirty["drawin"], NEW p \in 1..place["drawin"].width
      PROVE  window["drawin"].content[p] = drawable["drawin"].pixmap \/ p \in window["drawin"].expose
  <2>1. p \in Shown(window["drawin"])
    BY <1>1, <1>3 DEF DrawinDrawn, Shown
  <2>2. p \in Pixel
    BY <1>1, <2>1, DrawnTypes, ShownPixels DEF Shows
  <2> QED BY <1>1, <1>3, <2>1, <2>2 DEF DrawinDrawn, Holds
<1>4. ASSUME NEW b \in Bar \ moved, Copies(drawable[b]), NEW p \in Area(b) \cap Shown(window["frame"])
      PROVE  window["frame"].content[p] = drawable[b].pixmap \/ p \in window["frame"].expose
  <2>1. Holds(window["frame"], drawable[b].pixmap, Area(b))
    BY <1>1, <1>4 DEF FrameDrawn, Copies
  <2> QED BY <1>4, <2>1 DEF Holds
<1>5. NothingDrawnIsLost
  BY <1>3, <1>4 DEF NothingDrawnIsLost
<1> QED BY <1>1, <1>2, <1>5 DEF DrawingInv

\* A window shows what was drawn into its drawable or will, and nothing else
\* (objects/drawable.c, objects/drawin.c and the titlebars in objects/client.c), for any sizes
\* of windows and titlebars and any number of calls.
THEOREM NothingDrawnIsMissing == DrawingSpec => []DrawingInv
<1>1. DrawingSpec => []DrawingIInv
  BY DrawingStart, DrawingStep, PTL DEF DrawingSpec
<1> QED BY <1>1, DrawingFollows, PTL
=============================================================================

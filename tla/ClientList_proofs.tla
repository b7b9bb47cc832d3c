--------------------------- MODULE ClientList_proofs ---------------------------
(***************************************************************************)
(* ClientList: the transient_for relation is a forest over the managed     *)
(* clients, for any set of windows.  The argument never counts: a relation *)
(* is loop free when no set of windows contains all of its parents         *)
(* (Forest), and what client_find_transient_for checks is that the         *)
(* ancestors of the new parent do not contain the client.  If a set        *)
(* contained all of its parents after the assignment, it would contain the *)
(* client (or it did before), hence the new parent, and its intersection   *)
(* with the ancestors of the new parent, where nothing changed, would have *)
(* done so before.                                                         *)
(*                                                                         *)
(* Ewmh: the properties tell what is the case, for any clients, tags and   *)
(* depth of calls.  At any time each property is right, or one of the C    *)
(* functions that run has yet to write it (Pending), or awesome is never   *)
(* asked to (untold).  Whatever is changed puts a step that writes it      *)
(* among those to come, and a step that is done has written or leads to    *)
(* another that will; so nothing is left when the last function returns.   *)
(* For a maximized flag it is the value noted before the handlers that     *)
(* decides whether there will be a signal.                                 *)
(***************************************************************************)
EXTENDS ClientList, Ewmh, SequenceTheorems, FiniteSetTheorems, TLAPS

-----------------------------------------------------------------------------
(* Removing the first occurrence of an element of a sequence.              *)

\* RemoveFirst on a list without repetitions, the loop of client_array_remove
\* callers: the result is a list without repetitions of the other elements.
LEMMA RemoveFirstProperties ==
    ASSUME NEW S, NEW q \in Seq(S), NEW e, IsInjective(q)
    PROVE  /\ RemoveFirst(q, e) \in Seq(S) /\ IsInjective(RemoveFirst(q, e))
           /\ Range(RemoveFirst(q, e)) = Range(q) \ {e}
<1>1. Len(q) \in Nat /\ DOMAIN q = 1..Len(q) /\ \A i \in 1..Len(q) : q[i] \in S
  BY LenProperties, ElementOfSeq
<1>2. CASE \A i \in 1..Len(q) : q[i] # e
  <2>1. RemoveFirst(q, e) = q
    BY <1>2 DEF RemoveFirst
  <2> QED BY <1>1, <1>2, <2>1 DEF Range
<1>3. ASSUME NEW k \in 1..Len(q), q[k] = e
      PROVE  /\ RemoveFirst(q, e) \in Seq(S) /\ IsInjective(RemoveFirst(q, e))
             /\ Range(RemoveFirst(q, e)) = Range(q) \ {e}
  <2> DEFINE a == SubSeq(q, 1, k - 1)
             b == SubSeq(q, k + 1, Len(q))
             r == a \o b
  <2>1. {i \in 1..Len(q) : q[i] = e} = {k}
    BY <1>1, <1>3 DEF IsInjective
  <2>2. Min({k}) = k
    BY <1>1 DEF Min
  <2>3. RemoveFirst(q, e) = r
    BY <1>3, <2>1, <2>2 DEF RemoveFirst, RemoveAt, SelectInSeq
  <2>4. a \in Seq(S) /\ Len(a) = k - 1 /\ \A i \in 1..k - 1 : a[i] = q[i]
    BY <1>1, SubSeqProperties, k - 1 \in Int, \A i \in 1..k - 1 : 1 + i - 1 = i
  <2>5. b \in Seq(S) /\ Len(b) = Len(q) - k /\ \A i \in 1..Len(q) - k : b[i] = q[k + i]
    <3>1. \A i \in k + 1..Len(q) : q[i] \in S
      BY <1>1
    <3>2. /\ b \in Seq(S) /\ Len(b) = IF k + 1 <= Len(q) THEN Len(q) - (k + 1) + 1 ELSE 0
          /\ \A i \in 1..Len(q) - (k + 1) + 1 : b[i] = q[k + 1 + i - 1]
      BY <1>1, <3>1, SubSeqProperties, k + 1 \in Int
    <3>3. Len(q) - (k + 1) + 1 = Len(q) - k
      BY <1>1
    <3>4. \A i \in 1..Len(q) - k : k + 1 + i - 1 = k + i
      BY <1>1
    <3>5. Len(b) = Len(q) - k
      <4>1. Len(b) = IF k + 1 <= Len(q) THEN Len(q) - (k + 1) + 1 ELSE 0
        BY <3>2
      <4>2. \A n \in Nat : \A m \in 1..n : (IF m + 1 <= n THEN n - (m + 1) + 1 ELSE 0) = n - m
        OBVIOUS
      <4>3. (IF k + 1 <= Len(q) THEN Len(q) - (k + 1) + 1 ELSE 0) = Len(q) - k
        BY ONLY <1>1, <4>2, k \in 1..Len(q)
      <4> QED BY ONLY <4>1, <4>3
    <3>6. \A i \in 1..Len(q) - k : b[i] = q[k + i]
      BY ONLY <3>2, <3>3, <3>4
    <3> QED BY ONLY <3>2, <3>5, <3>6
  <2> HIDE DEF a, b
  <2>6. /\ r \in Seq(S) /\ Len(r) = Len(q) - 1
        /\ \A i \in 1..Len(q) - 1 : r[i] = IF i < k THEN q[i] ELSE q[i + 1]
    <3>1. /\ r \in Seq(S) /\ Len(r) = Len(a) + Len(b)
          /\ \A i \in 1..Len(a) + Len(b) : r[i] = IF i <= Len(a) THEN a[i] ELSE b[i - Len(a)]
      BY <2>4, <2>5, ConcatProperties
    <3> HIDE DEF r
    <3>2. Len(r) = Len(q) - 1
      BY <1>1, <2>4, <2>5, <3>1
    <3>3. ASSUME NEW i \in 1..Len(q) - 1 PROVE r[i] = IF i < k THEN q[i] ELSE q[i + 1]
      <4>1. r[i] = IF i <= k - 1 THEN a[i] ELSE b[i - (k - 1)]
        BY <1>1, <2>4, <2>5, <3>1, <3>2
      <4>2. CASE i < k
        BY <1>1, <2>4, <4>1, <4>2
      <4>3. CASE ~(i < k)
        <5>1. i - (k - 1) \in 1..Len(q) - k /\ k + (i - (k - 1)) = i + 1
          BY <1>1, <4>3
        <5>2. b[i - (k - 1)] = q[k + (i - (k - 1))]
          BY <2>5, <5>1
        <5> QED BY <1>1, <4>1, <4>3, <5>1, <5>2
      <4> QED BY <4>2, <4>3
    <3> QED BY <3>1, <3>2, <3>3
  <2> HIDE DEF r
  <2>7. DOMAIN r = 1..Len(q) - 1
    BY <2>6, LenProperties
  <2>8. IsInjective(r)
    <3>1. \A i, j \in 1..Len(q) : q[i] = q[j] => i = j
      BY <1>1 DEF IsInjective
    <3>2. ASSUME NEW i \in 1..Len(q) - 1, NEW j \in 1..Len(q) - 1, r[i] = r[j] PROVE i = j
      <4>1. /\ i \in 1..Len(q) /\ i + 1 \in 1..Len(q) /\ j \in 1..Len(q) /\ j + 1 \in 1..Len(q)
            /\ k \in 1..Len(q)
        BY <1>1
      <4> QED BY ONLY <4>1, <2>6, <3>1, <3>2, <1>1
    <3> QED BY ONLY <3>2, <2>7 DEF IsInjective
  <2>9. \A i \in 1..Len(q) - 1 : r[i] \in Range(q) \ {e}
    BY <1>1, <1>3, <2>6 DEF IsInjective, Range
  <2>10. ASSUME NEW x \in Range(q) \ {e} PROVE \E i \in 1..Len(q) - 1 : r[i] = x
    <3>1. PICK j \in 1..Len(q) : q[j] = x /\ j # k
      BY <1>1, <1>3 DEF Range
    <3>2. CASE j < k
      BY <1>1, <2>6, <3>1, <3>2
    <3>3. CASE j > k
      <4>1. j - 1 \in 1..Len(q) - 1 /\ ~(j - 1 < k) /\ (j - 1) + 1 = j
        BY <1>1, <3>1, <3>3
      <4> QED BY <2>6, <3>1, <4>1
    <3> QED BY <1>1, <3>1, <3>2, <3>3
  <2>11. Range(r) = Range(q) \ {e}
    <3>1. Range(r) = {r[i] : i \in 1..Len(q) - 1}
      BY <2>7 DEF Range
    <3> QED BY <2>9, <2>10, <3>1
  <2> QED BY <2>3, <2>6, <2>8, <2>11
<1> QED BY <1>2, <1>3


\* Prepending a new element to a list without repetitions, as client_manage
\* does with the client list.
LEMMA PrependProperties ==
    ASSUME NEW S, NEW s \in Seq(S), NEW e \in S \ Range(s), IsInjective(s)
    PROVE  /\ <<e>> \o s \in Seq(S)
           /\ IsInjective(<<e>> \o s)
           /\ Range(<<e>> \o s) = Range(s) \cup {e}
<1> USE LenProperties, RangeEquality
<1> DEFINE r == <<e>> \o s
<1>1. <<e>> \in Seq(S) /\ Len(<<e>>) = 1 /\ <<e>>[1] = e /\ Range(<<e>>) = {e}
  <2>1. <<e>> \in Seq(S) /\ Len(<<e>>) = 1 /\ <<e>>[1] = e
    OBVIOUS
  <2>2. Range(<<e>>) = {<<e>>[i] : i \in 1..1}
    BY <2>1
  <2>3. QED BY <2>1, <2>2
<1>2. r \in Seq(S) /\ Len(r) = Len(s) + 1
  BY <1>1, ConcatProperties
<1>3. ASSUME NEW i \in 1..Len(r) PROVE r[i] = IF i = 1 THEN e ELSE s[i - 1]
  <2>1. r[i] = IF i <= Len(<<e>>) THEN <<e>>[i] ELSE s[i - Len(<<e>>)]
    BY <1>1, <1>2, ConcatProperties
  <2>2. QED BY <2>1, <1>1, <1>2
<1>4. Range(r) = Range(s) \cup {e}
  <2> HIDE DEF r
  <2>1. Range(r) = {r[i] : i \in 1..Len(r)}
    BY <1>2
  <2>2. ASSUME NEW i \in 1..Len(r) PROVE r[i] \in Range(s) \cup {e}
    BY <1>2, <1>3
  <2>3. e \in Range(r)
    BY <1>2, <1>3, <2>1
  <2>4. ASSUME NEW i \in 1..Len(s) PROVE s[i] \in Range(r)
    <3>1. i + 1 \in 1..Len(r) /\ r[i + 1] = s[i]
      BY <1>2, <1>3
    <3>2. QED BY <3>1, <2>1
  <2>5. Range(r) \subseteq Range(s) \cup {e}
    BY <2>1, <2>2
  <2>6. Range(s) \subseteq Range(r)
    BY <2>4
  <2>7. QED BY <2>3, <2>5, <2>6
<1> HIDE DEF r
<1>5. IsInjective(r)
  <2>1. \A i, j \in 1..Len(s) : s[i] = s[j] => i = j
    BY DEF IsInjective
  <2>2. \A i \in 1..Len(s) : s[i] # e
    OBVIOUS
  <2>3. SUFFICES ASSUME NEW i \in 1..Len(r), NEW j \in 1..Len(r), r[i] = r[j] PROVE i = j
    BY <1>2 DEF IsInjective
  <2>4. CASE i = 1
    <3>1. ASSUME j # 1 PROVE FALSE
      <4>1. j - 1 \in 1..Len(s) /\ s[j - 1] = e
        BY <2>3, <2>4, <3>1, <1>2, <1>3
      <4>2. QED BY <4>1, <2>2
    <3>2. QED BY <2>4, <3>1
  <2>5. CASE i # 1
    <3>1. i - 1 \in 1..Len(s) /\ r[i] = s[i - 1]
      BY <2>5, <1>2, <1>3
    <3>2. j # 1
      BY <3>1, <2>2, <2>3, <1>2, <1>3
    <3>3. j - 1 \in 1..Len(s) /\ r[j] = s[j - 1]
      BY <3>2, <1>2, <1>3
    <3>4. i - 1 = j - 1
      BY <3>1, <3>3, <2>1, <2>3
    <3>5. QED BY <3>4, <1>2
  <2>6. QED BY <2>4, <2>5
<1>6. QED BY <1>2, <1>4, <1>5 DEF r

-----------------------------------------------------------------------------
(* The ancestors of a window and loops.                                    *)

\* The ancestors of a window contain it, are windows, and contain the parents
\* of their members.
LEMMA AncestorsProperties ==
    ASSUME NEW tf, NEW w \in Window
    PROVE  /\ w \in Ancestors(tf, w)
           /\ Ancestors(tf, w) \subseteq Window
           /\ \A y \in Ancestors(tf, w) : tf[y] \in Window => tf[y] \in Ancestors(tf, w)
BY DEF Ancestors

\* Cutting pointers cannot close a loop: any set that contains the parents of
\* all its members does so before as well.
LEMMA CuttingKeepsForest ==
    ASSUME NEW tf, NEW cut, Forest(tf),
           \A x \in Window : cut[x] = tf[x] \/ cut[x] = None
    PROVE  Forest(cut)
BY NoneAssumption DEF Forest

\* What the walk of client_find_transient_for guarantees: giving a client of c
\* a parent whose ancestors do not include it keeps the relation a forest.
\* Several clients may be given the same parent at once.
LEMMA AdoptionKeepsForest ==
    ASSUME NEW tf, NEW new, NEW parent \in Window, Forest(tf),
           \A x \in Window :
               \/ new[x] = tf[x] \/ new[x] = None
               \/ new[x] = parent /\ x \notin Ancestors(tf, parent)
    PROVE  Forest(new)
<1>1. SUFFICES ASSUME NEW S \in SUBSET Window, S # {}, \A x \in S : new[x] \in S
               PROVE  FALSE
  BY DEF Forest
<1>2. CASE parent \in S
  <2> DEFINE T == S \cap Ancestors(tf, parent)
  <2>1. T \in SUBSET Window /\ parent \in T
    BY <1>2, AncestorsProperties
  <2>2. ASSUME NEW x \in T PROVE tf[x] \in T
    <3>1. new[x] # None
      BY <1>1, NoneAssumption
    <3>2. tf[x] \in S
      BY <1>1, <3>1
    <3>3. tf[x] \in Ancestors(tf, parent)
      BY <3>2, AncestorsProperties
    <3>4. QED BY <3>2, <3>3
  <2>3. QED BY <2>1, <2>2 DEF Forest
<1>3. CASE parent \notin S
  <2>1. \A x \in S : tf[x] = new[x]
    BY <1>1, <1>3, NoneAssumption
  <2>2. QED BY <1>1, <2>1 DEF Forest
<1>4. QED BY <1>2, <1>3

-----------------------------------------------------------------------------
(* The specification.                                                      *)

\* The inductive invariant: the relation alone is not inductive, a parent must
\* be managed (or unmanaging it leaves its children behind), the client list
\* must have no repetition (or removing a client once leaves it in the list),
\* and a pointer must agree with the hint (or managing a window could overwrite
\* the pointers of clients that already have a parent).
IInv == /\ RelationTypeOK
        /\ IsInjective(clients)
        /\ TransientForIsLive
        /\ NoTransientLoop

\* What client_find_transient_for returns: nothing, or the hinted client, when
\* the ancestors of that client do not include c.
LEMMA FindTransientForProperties ==
    ASSUME NEW tf, NEW managed, NEW len, NEW c, NEW h,
           FindTransientFor(tf, managed, len, c, h) # None
    PROVE  /\ FindTransientFor(tf, managed, len, c, h) = h
           /\ h \in managed
           /\ c \notin Ancestors(tf, h)
BY DEF FindTransientFor, EndsWithout

LEMMA FindTransientForType ==
    ASSUME NEW tf, NEW managed, NEW len, NEW c, NEW h, managed \subseteq Window
    PROVE  FindTransientFor(tf, managed, len, c, h) \in Window \cup {None}
BY DEF FindTransientFor

\* Managing a client keeps the invariant.
LEMMA ManageKeepsIInv ==
    ASSUME IInv, NEW w \in Window, NEW h \in Window \cup {None}, Manage(w, h)
    PROVE  IInv'
<1> DEFINE managed == Managed \cup {w}
           find(tf, c, p) == FindTransientFor(tf, managed, Len(stack), c, p)
           tf1 == [transientFor EXCEPT ![w] = find(transientFor, w, h)]
<1>1. /\ Managed \subseteq Window
      /\ w \notin Managed
      /\ hint' = [hint EXCEPT ![w] = h]
      /\ clients' = <<w>> \o clients
      /\ transientFor' = [c \in Window |-> IF c \in managed /\ hint'[c] = w
                                           THEN find(tf1, c, w) ELSE tf1[c]]
  BY RangeOfSeq DEF IInv, RelationTypeOK, Manage, Managed
<1>2. clients' \in Seq(Window) /\ IsInjective(clients') /\ Managed' = managed
  BY <1>1, PrependProperties DEF IInv, RelationTypeOK, Managed
<1> HIDE DEF managed, find
<1>3. managed \subseteq Window /\ \A tf, c, p : find(tf, c, p) \in Window \cup {None}
  BY <1>1, FindTransientForType DEF managed, find
<1>4. \A tf, c, p : find(tf, c, p) # None =>
            find(tf, c, p) = p /\ p \in managed /\ c \notin Ancestors(tf, p)
  BY FindTransientForProperties DEF find
<1>5. hint' \in [Window -> Window \cup {None}]
  BY <1>1 DEF IInv, RelationTypeOK
<1>6. tf1 \in [Window -> Window \cup {None}]
  BY <1>3 DEF IInv, RelationTypeOK
<1>7. transientFor' \in [Window -> Window \cup {None}]
  BY <1>1, <1>3, <1>6
<1>8. NoTransientLoop'
  <2>1. Forest(transientFor)
    BY DEF IInv, NoTransientLoop
  <2>2. Forest(tf1)
    <3>1. CASE h \in Window
      <4>1. \A x \in Window : \/ tf1[x] = transientFor[x] \/ tf1[x] = None
                              \/ tf1[x] = h /\ x \notin Ancestors(transientFor, h)
        BY <1>4 DEF IInv, RelationTypeOK
      <4>2. QED BY <2>1, <3>1, <4>1, AdoptionKeepsForest
    <3>2. CASE h = None
      <4>1. \A x \in Window : tf1[x] = transientFor[x] \/ tf1[x] = None
        BY <1>4, <3>2 DEF IInv, RelationTypeOK
      <4>2. QED BY <2>1, <4>1, CuttingKeepsForest
    <3>3. QED BY <3>1, <3>2
  <2> HIDE DEF tf1
  <2>3. \A x \in Window : \/ transientFor'[x] = tf1[x] \/ transientFor'[x] = None
                          \/ transientFor'[x] = w /\ x \notin Ancestors(tf1, w)
    BY <1>1, <1>4
  <2>4. Forest(transientFor')
    BY <2>2, <2>3, AdoptionKeepsForest
  <2>5. QED BY <2>4 DEF NoTransientLoop
<1>9. TransientForIsLive'
  <2>1. SUFFICES ASSUME NEW c \in Window, transientFor'[c] # None
                 PROVE  /\ c \in managed
                        /\ transientFor'[c] \in managed
                        /\ transientFor'[c] = hint'[c]
    BY <1>2 DEF TransientForIsLive
  <2>2. CASE c \in managed /\ hint'[c] = w
    <3>1. transientFor'[c] = find(tf1, c, w)
      BY <1>1, <2>2
    <3>2. QED BY <1>4, <2>1, <2>2, <3>1
  <2>3. CASE ~(c \in managed /\ hint'[c] = w)
    <3>1. transientFor'[c] = tf1[c]
      BY <1>1, <2>3
    <3>2. CASE c = w
      <4>1. tf1[c] = find(transientFor, w, h) /\ hint'[c] = h
        BY <1>1, <3>2 DEF IInv, RelationTypeOK
      <4>2. QED BY <1>4, <2>1, <3>1, <3>2, <4>1 DEF managed
    <3>3. CASE c # w
      <4>1. tf1[c] = transientFor[c] /\ hint'[c] = hint[c]
        BY <1>1, <3>3 DEF IInv, RelationTypeOK
      <4>2. QED BY <2>1, <3>1, <4>1 DEF IInv, TransientForIsLive, managed
    <3>4. QED BY <3>2, <3>3
  <2>4. QED BY <2>2, <2>3
<1>10. QED BY <1>2, <1>5, <1>7, <1>8, <1>9 DEF IInv, RelationTypeOK

\* Unmanaging a client keeps the invariant.
LEMMA UnmanageKeepsIInv ==
    ASSUME IInv, NEW w \in Window, Unmanage(w)
    PROVE  IInv'
<1>1. clients' \in Seq(Window) /\ IsInjective(clients') /\ Managed' = Managed \ {w}
  BY RemoveFirstProperties DEF IInv, RelationTypeOK, Managed, Unmanage
<1>2. hint' \in [Window -> Window \cup {None}]
  BY DEF IInv, RelationTypeOK, Unmanage
<1>3. transientFor' \in [Window -> Window \cup {None}]
  BY DEF IInv, RelationTypeOK, Unmanage
<1>4. \A c \in Window : transientFor'[c] # None =>
            transientFor'[c] = transientFor[c] /\ c # w /\ transientFor[c] # w
  BY DEF Unmanage
<1>5. TransientForIsLive'
  BY <1>1, <1>4 DEF IInv, RelationTypeOK, TransientForIsLive, Unmanage
<1>6. NoTransientLoop'
  BY <1>4, CuttingKeepsForest DEF IInv, NoTransientLoop
<1>7. QED BY <1>1, <1>2, <1>3, <1>5, <1>6 DEF IInv, RelationTypeOK

\* A change of the WM_TRANSIENT_FOR property keeps the invariant.
LEMMA PropertyTransientForKeepsIInv ==
    ASSUME IInv, NEW w \in Window, NEW h \in Window \cup {None}, PropertyTransientFor(w, h)
    PROVE  IInv'
<1> DEFINE found == FindTransientFor(transientFor, Managed, Len(stack), w, h)
<1>1. /\ w \in Managed
      /\ Managed \subseteq Window
      /\ hint' = [hint EXCEPT ![w] = h]
      /\ transientFor' = [transientFor EXCEPT ![w] = found]
      /\ clients' = clients
      /\ Managed' = Managed
  BY RangeOfSeq DEF IInv, RelationTypeOK, PropertyTransientFor, Managed
<1>2. found \in Window \cup {None}
  BY <1>1, FindTransientForType
<1>3. found # None => found = h /\ h \in Managed /\ w \notin Ancestors(transientFor, h)
  BY FindTransientForProperties
<1> HIDE DEF found
<1>4. RelationTypeOK'
  BY <1>1, <1>2 DEF IInv, RelationTypeOK
<1>5. TransientForIsLive'
  BY <1>1, <1>3 DEF IInv, RelationTypeOK, TransientForIsLive
<1>6. NoTransientLoop'
  <2>1. Forest(transientFor)
    BY DEF IInv, NoTransientLoop
  <2>2. \A x \in Window : \/ transientFor'[x] = transientFor[x] \/ transientFor'[x] = None
                          \/ transientFor'[x] = h /\ x \notin Ancestors(transientFor, h)
    BY <1>1, <1>3 DEF IInv, RelationTypeOK
  <2>3. CASE h \in Window
    BY <2>1, <2>2, <2>3, AdoptionKeepsForest DEF NoTransientLoop
  <2>4. CASE h = None
    <3>1. \A x \in Window : transientFor'[x] = transientFor[x] \/ transientFor'[x] = None
      BY <2>2, <2>4
    <3>2. QED BY <2>1, <3>1, CuttingKeepsForest DEF NoTransientLoop
  <2>5. QED BY <2>3, <2>4
<1>7. QED BY <1>1, <1>4, <1>5, <1>6 DEF IInv

\* Exchanging two clients in the client list keeps the invariant.
LEMMA SwapKeepsIInv ==
    ASSUME IInv, NEW c \in Window, NEW d \in Window, Swap(c, d)
    PROVE  IInv'
<1>1. PICK i, j \in DOMAIN clients : /\ clients[i] = c /\ clients[j] = d
                                     /\ clients' = [clients EXCEPT ![i] = d, ![j] = c]
  BY DEF Swap
<1>2. /\ clients \in Seq(Window)
      /\ DOMAIN clients = 1..Len(clients)
      /\ \A k, l \in 1..Len(clients) : clients[k] = clients[l] => k = l
  BY LenProperties DEF IInv, RelationTypeOK, IsInjective
<1>3. /\ clients' \in Seq(Window)
      /\ Len(clients') = Len(clients)
      /\ \A k \in 1..Len(clients) :
            clients'[k] = IF k = j THEN c ELSE IF k = i THEN d ELSE clients[k]
  BY <1>1, <1>2
<1>4. IsInjective(clients')
  <2>1. SUFFICES ASSUME NEW k \in 1..Len(clients), NEW l \in 1..Len(clients),
                        clients'[k] = clients'[l]
                 PROVE  k = l
    BY <1>3, LenProperties DEF IsInjective
  <2>2. QED BY <1>1, <1>2, <1>3, <2>1
<1>5. Managed' = Managed
  <2>1. /\ Managed = {clients[k] : k \in 1..Len(clients)}
        /\ Managed' = {clients'[k] : k \in 1..Len(clients)}
    BY <1>2, <1>3, RangeEquality DEF Managed
  <2>2. \A k \in 1..Len(clients) : clients'[k] \in Managed /\ clients[k] \in Managed'
    BY <1>1, <1>2, <1>3, <2>1
  <2>3. QED BY <2>1, <2>2
<1>6. hint' = hint /\ transientFor' = transientFor
  BY DEF Swap
<1>7. QED
  BY <1>3, <1>4, <1>5, <1>6
  DEF IInv, RelationTypeOK, TransientForIsLive, NoTransientLoop

\* The steps that touch the stacking list only, and stuttering.
LEMMA OthersKeepIInv ==
    ASSUME IInv, UNCHANGED <<clients, hint, transientFor>>
    PROVE  IInv'
BY DEF IInv, RelationTypeOK, Managed, TransientForIsLive, NoTransientLoop

LEMMA InitIInv == Init => IInv
<1>1. SUFFICES ASSUME Init PROVE IInv
  OBVIOUS
<1>2. clients \in Seq(Window) /\ IsInjective(clients)
  BY <1>1 DEF Init, IsInjective
<1>3. NoTransientLoop
  BY <1>1, NoneAssumption DEF Init, NoTransientLoop, Forest
<1>4. QED BY <1>1, <1>2, <1>3 DEF Init, IInv, RelationTypeOK, TransientForIsLive

LEMMA NextIInv == IInv /\ [Next]_vars => IInv'
<1>1. SUFFICES ASSUME IInv, [Next]_vars PROVE IInv'
  OBVIOUS
<1>2. ASSUME NEW w \in Window, NEW h \in Window \cup {None}, Manage(w, h) PROVE IInv'
  BY <1>1, <1>2, ManageKeepsIInv
<1>3. ASSUME NEW w \in Window, NEW h \in Window \cup {None}, PropertyTransientFor(w, h)
      PROVE  IInv'
  BY <1>1, <1>3, PropertyTransientForKeepsIInv
<1>4. ASSUME NEW w \in Window, Unmanage(w) PROVE IInv'
  BY <1>1, <1>4, UnmanageKeepsIInv
<1>5. ASSUME NEW w \in Window, Raise(w) \/ MapRequestManaged(w) \/ Lower(w) PROVE IInv'
  BY <1>1, <1>5, OthersKeepIInv DEF Raise, MapRequestManaged, ClientRaise, Lower
<1>6. ASSUME NEW c \in Window, NEW d \in Window, Swap(c, d) PROVE IInv'
  BY <1>1, <1>6, SwapKeepsIInv
<1>7. CASE UNCHANGED vars
  BY <1>1, <1>7, OthersKeepIInv DEF vars
<1>8. QED BY <1>1, <1>2, <1>3, <1>4, <1>5, <1>6, <1>7 DEF Next

\* The inductive invariant holds throughout.
THEOREM Inductive == Spec => []IInv
<1>1. QED BY InitIInv, NextIInv, PTL DEF Spec

\* Types of the client list and of the transient_for relation, for every set
\* of windows.
THEOREM RelationTypeCorrect == Spec => []RelationTypeOK
<1>1. IInv => RelationTypeOK
  BY DEF IInv
<1>2. QED BY <1>1, Inductive, PTL

\* client_find_transient_for never lets a loop into the relation, whatever the
\* clients write in WM_TRANSIENT_FOR and in whatever order windows come and go,
\* so the unbounded walks of client_raise, luaA_client_lower and
\* stack_client_above end.
THEOREM LoopFree == Spec => []NoTransientLoop
<1>1. IInv => NoTransientLoop
  BY DEF IInv
<1>2. QED BY <1>1, Inductive, PTL

\* No client points at an unmanaged one, and each pointer agrees with the hint.
THEOREM NoDanglingTransient == Spec => []TransientForIsLive
<1>1. IInv => TransientForIsLive
  BY DEF IInv
<1>2. QED BY <1>1, Inductive, PTL

-----------------------------------------------------------------------------
(* Ewmh: what others are told.                                             *)

Signal == {"focus", "unfocus", "request::manage", "request::unmanage", "tagged", "untagged",
           "property::selected"} \cup StateFlag

EmitStep == [do : {"emit", "refresh"}, signal : Signal, client : EwmhClient \cup {NoHint}]
EmitIfStep == [do : {"emitIf"}, flag : Maximized, client : EwmhClient, before : BOOLEAN]
SetStep == [do : {"set"}, client : EwmhClient, flag : StateFlag, value : BOOLEAN]
AssignStep == [do : {"assign"}, client : EwmhClient, flag : StateFlag \ Maximized, value : BOOLEAN]
AskedStep == [do : {"asked"}, client : EwmhClient, atom : StateFlag, action : {"add", "remove", "toggle"}]
FocusStep == [do : {"focus"}, client : EwmhClient]
RemoveStep == [do : {"remove"}, client : EwmhClient]
UntagStep == [do : {"untag"}, client : EwmhClient, index : Nat \ {0}]
PlainStep == [do : {"numbers", "handlers"}]

AStep == EmitStep \cup EmitIfStep \cup SetStep \cup AssignStep \cup AskedStep \cup FocusStep \cup RemoveStep
         \cup UntagStep \cup PlainStep
AFunction == [todo : Seq(AStep), calling : BOOLEAN]

RootName == {"active", "list", "current", "number"}

EwmhTypeInv ==
    /\ list \in Seq(EwmhClient) /\ IsInjective(list) /\ focus \in EwmhClient \cup {NoHint}
    /\ state \in [EwmhClient -> SUBSET StateFlag] /\ netState \in [EwmhClient -> SUBSET Atom]
    /\ desktops \in Seq(Desktop) /\ IsInjective(desktops) /\ selected \subseteq Desktop
    /\ tagged \in [EwmhClient -> SUBSET Desktop]
    /\ doing \in Seq(AFunction) /\ Len(doing) <= MaxEwmhNesting
    /\ DOMAIN root = RootName /\ DOMAIN netDesktop = EwmhClient

\* What the functions that run have yet to do.
PendingIn(functions) == UNION {ToSet(functions[i].todo) : i \in 1..Len(functions)}
Pending == PendingIn(doing)

\* Nobody focuses a client that is leaving.
FocusInv ==
    /\ focus # NoHint => Here(focus)
    /\ \A s \in Pending : s.do = "focus" => Here(s.client)

\* A step that will write a property, or lead to it.
WritesRoot(s, p) == \/ s.do \in {"emit", "refresh"} /\ p \in Connected(s.signal)
                    \/ s.do = "numbers" /\ p = "number"
                    \/ s.do = "untag" /\ p = "list"

WritesState(s, c) == \/ s.do \in {"emit", "refresh"} /\ s.client = c /\ "state" \in Connected(s.signal)
                     \/ s.do = "emitIf" /\ s.client = c /\ ~(s.flag \in state[c] <=> s.before)

\* A property tells what is the case, or will be written, or nobody is asked to write it.
RootTold(p) == \/ <<"root", p>> \in untold \/ root[p] = RootHints[p]
               \/ \E s \in Pending : WritesRoot(s, p)

StateTold(c) == \/ <<c, "state">> \in untold \/ netState[c] = StateAtoms(c)
                \/ \E s \in Pending : WritesState(s, c)

DesktopTold(c) == <<c, "desktop">> \in untold \/ netDesktop[c] = DesktopOf(c)

EwmhIInv ==
    /\ EwmhTypeInv /\ FocusInv
    /\ \A p \in RootName : RootTold(p)
    /\ \A c \in ToSet(list) : StateTold(c) /\ DesktopTold(c)

-----------------------------------------------------------------------------
(* Functions that run.                                                     *)

\* The steps in gone have been done, and those in new are to be done.
Turns(gone, new) ==
    /\ doing' \in Seq(AFunction) /\ Len(doing') <= MaxEwmhNesting
    /\ \A s \in Pending : s \in Pending' \/ s \in gone
    /\ new \subseteq Pending' /\ Pending' \subseteq Pending \cup new

LEMMA ConcatSteps ==
    ASSUME NEW s \in Seq(AStep), NEW t \in Seq(AStep)
    PROVE  s \o t \in Seq(AStep) /\ ToSet(s \o t) = ToSet(s) \cup ToSet(t)
<1> PICK u : u = s \o t
  OBVIOUS
<1>1. /\ u \in Seq(AStep) /\ Len(u) = Len(s) + Len(t)
      /\ \A i \in 1..Len(s) + Len(t) : u[i] = IF i <= Len(s) THEN s[i] ELSE t[i - Len(s)]
  BY ConcatProperties
<1>2. /\ DOMAIN u = 1..Len(u) /\ DOMAIN s = 1..Len(s) /\ DOMAIN t = 1..Len(t)
      /\ Len(s) \in Nat /\ Len(t) \in Nat
  BY <1>1, LenProperties
<1>3. ASSUME NEW i \in 1..Len(u) PROVE u[i] \in ToSet(s) \cup ToSet(t)
  <2>1. CASE i <= Len(s)
    <3>1. i \in 1..Len(s) /\ u[i] = s[i]
      BY <1>1, <1>2, <2>1
    <3> QED BY <1>2, <3>1 DEF ToSet
  <2>2. CASE ~(i <= Len(s))
    <3>1. i - Len(s) \in 1..Len(t) /\ u[i] = t[i - Len(s)]
      BY <1>1, <1>2, <2>2
    <3> QED BY <1>2, <3>1 DEF ToSet
  <2> QED BY <2>1, <2>2
<1>4. ASSUME NEW i \in 1..Len(s) PROVE s[i] \in ToSet(u)
  <2>1. i \in 1..Len(u) /\ u[i] = s[i]
    BY <1>1, <1>2
  <2> QED BY <1>2, <2>1 DEF ToSet
<1>5. ASSUME NEW i \in 1..Len(t) PROVE t[i] \in ToSet(u)
  <2>1. i + Len(s) \in 1..Len(u) /\ u[i + Len(s)] = t[i]
    BY <1>1, <1>2
  <2> QED BY <1>2, <2>1 DEF ToSet
<1>6. ToSet(u) \subseteq ToSet(s) \cup ToSet(t)
  BY <1>2, <1>3 DEF ToSet
<1>7. ToSet(s) \subseteq ToSet(u) /\ ToSet(t) \subseteq ToSet(u)
  BY <1>2, <1>4, <1>5 DEF ToSet
<1> QED BY <1>1, <1>6, <1>7

LEMMA OneStep ==
    ASSUME NEW x \in AStep PROVE <<x>> \in Seq(AStep) /\ ToSet(<<x>>) = {x}
<1>1. DOMAIN <<x>> = {1} /\ <<x>>[1] = x
  OBVIOUS
<1> QED BY <1>1 DEF ToSet

LEMMA NoStep == <<>> \in Seq(AStep) /\ ToSet(<<>>) = {}
<1>1. DOMAIN <<>> = {}
  OBVIOUS
<1> QED BY <1>1 DEF ToSet

LEMMA TwoSteps ==
    ASSUME NEW x \in AStep, NEW y \in AStep
    PROVE  <<x, y>> \in Seq(AStep) /\ ToSet(<<x, y>>) = {x, y}
<1> PICK t : t = <<x, y>>
  OBVIOUS
<1>1. t \in Seq(AStep) /\ DOMAIN t = {1, 2} /\ t[1] = x /\ t[2] = y
  OBVIOUS
<1> QED BY <1>1 DEF ToSet

\* The function on top, and its next step.
LEMMA TopIs ==
    ASSUME EwmhTypeInv, doing # <<>>
    PROVE  /\ Len(doing) \in Nat \ {0} /\ Top \in AFunction /\ Top.todo \in Seq(AStep)
           /\ ToSet(Top.todo) \subseteq Pending
           /\ Callers \in Seq(AFunction) /\ Len(Callers) = Len(doing) - 1
           /\ \A i \in 1..Len(doing) - 1 : Callers[i] = doing[i]
<1>1. doing \in Seq(AFunction) /\ Len(doing) \in Nat \ {0}
  BY EmptySeq, LenProperties DEF EwmhTypeInv
<1>2. Len(doing) \in 1..Len(doing) /\ Top \in AFunction
  BY <1>1, ElementOfSeq DEF Top
<1>3. Top.todo \in Seq(AStep)
  BY <1>2 DEF AFunction
<1>4. ToSet(Top.todo) \subseteq Pending
  BY <1>2 DEF Pending, PendingIn, Top
<1>5. /\ Callers \in Seq(AFunction) /\ Len(Callers) = Len(doing) - 1
      /\ \A i \in 1..Len(doing) - 1 : Callers[i] = doing[i]
  <2>1. 1 \in Int /\ Len(doing) - 1 \in Int /\ \A i \in 1..Len(doing) - 1 : i \in 1..Len(doing)
    BY <1>1
  <2>2. \A i \in 1..Len(doing) - 1 : doing[i] \in AFunction
    BY <1>1, <2>1, ElementOfSeq
  <2> DEFINE n == Len(doing) - 1
             l == SubSeq(doing, 1, n)
  <2>3. l \in Seq(AFunction) /\ Len(l) = (IF 1 <= n THEN n - 1 + 1 ELSE 0)
        /\ \A i \in 1..n - 1 + 1 : l[i] = doing[1 + i - 1]
    BY <2>1, <2>2, SubSeqProperties
  <2> HIDE DEF l
  <2>4. n \in Nat
    BY <1>1
  <2> HIDE DEF n
  <2>5. n - 1 + 1 = n /\ (IF 1 <= n THEN n - 1 + 1 ELSE 0) = n /\ \A i \in 1..n : 1 + i - 1 = i
    BY <2>4
  <2>6. Len(l) = n /\ \A i \in 1..n : l[i] = doing[i]
    BY <2>3, <2>5
  <2> QED BY <2>3, <2>6 DEF l, Callers, n
<1> QED BY <1>1, <1>2, <1>3, <1>4, <1>5

LEMMA StepIs ==
    ASSUME EwmhTypeInv, doing # <<>>, Top.todo # <<>>
    PROVE  /\ Step \in AStep /\ Step \in Pending /\ Rest \in Seq(AStep)
           /\ ToSet(Top.todo) = {Step} \cup ToSet(Rest)
<1>1. Top.todo \in Seq(AStep) /\ ToSet(Top.todo) \subseteq Pending
  BY TopIs
<1> PICK t : t = Top.todo
  OBVIOUS
<1>2. t \in Seq(AStep) /\ t # <<>>
  BY <1>1
<1>3. Head(t) = t[1] /\ Head(t) \in AStep /\ Tail(t) \in Seq(AStep) /\ Len(t) \in Nat \ {0}
      /\ Len(Tail(t)) = Len(t) - 1 /\ \A i \in 1..Len(Tail(t)) : Tail(t)[i] = t[i + 1]
  BY <1>2, HeadTailProperties, EmptySeq, LenProperties
<1>4. DOMAIN t = 1..Len(t) /\ DOMAIN Tail(t) = 1..Len(Tail(t))
  BY <1>2, <1>3, LenProperties
<1>5. t[1] \in ToSet(t)
  BY <1>3, <1>4 DEF ToSet
<1>6. ASSUME NEW i \in 1..Len(t) PROVE t[i] \in {t[1]} \cup ToSet(Tail(t))
  <2>1. i = 1 \/ (i - 1 \in 1..Len(Tail(t)) /\ Tail(t)[i - 1] = t[i])
    BY <1>3
  <2> QED BY <1>4, <2>1 DEF ToSet
<1>7. ASSUME NEW i \in 1..Len(Tail(t)) PROVE Tail(t)[i] \in ToSet(t)
  <2>1. i + 1 \in 1..Len(t) /\ Tail(t)[i] = t[i + 1]
    BY <1>3
  <2> QED BY <1>4, <2>1 DEF ToSet
<1>8. ToSet(t) \subseteq {t[1]} \cup ToSet(Tail(t))
  BY <1>4, <1>6 DEF ToSet
<1>9. ToSet(Tail(t)) \subseteq ToSet(t)
  BY <1>4, <1>7 DEF ToSet
<1> QED BY <1>1, <1>3, <1>5, <1>8, <1>9 DEF Step, Rest

LEMMA OneMoreFunction ==
    ASSUME NEW d \in Seq(AFunction), NEW f \in AFunction
    PROVE  /\ d \o <<f>> \in Seq(AFunction) /\ Len(d \o <<f>>) = Len(d) + 1
           /\ PendingIn(d \o <<f>>) = PendingIn(d) \cup ToSet(f.todo)
<1> PICK e : e = d \o <<f>>
  OBVIOUS
<1>1. e = Append(d, f)
  BY AppendIsConcat
<1>2. /\ e \in Seq(AFunction) /\ Len(d) \in Nat /\ Len(e) = Len(d) + 1 /\ e[Len(d) + 1] = f
      /\ \A i \in 1..Len(d) : e[i] = d[i]
  BY <1>1, AppendProperties, LenProperties
<1>3. ASSUME NEW i \in 1..Len(e) PROVE ToSet(e[i].todo) \subseteq PendingIn(d) \cup ToSet(f.todo)
  <2>1. i \in 1..Len(d) \/ i = Len(d) + 1
    BY <1>2
  <2> QED BY <1>2, <2>1 DEF PendingIn
<1>4. ASSUME NEW i \in 1..Len(d) PROVE ToSet(d[i].todo) \subseteq PendingIn(e)
  <2>1. i \in 1..Len(e) /\ e[i] = d[i]
    BY <1>2
  <2> QED BY <2>1 DEF PendingIn
<1>5. ToSet(f.todo) \subseteq PendingIn(e)
  <2>1. Len(d) + 1 \in 1..Len(e) /\ e[Len(d) + 1] = f
    BY <1>2
  <2> QED BY <2>1 DEF PendingIn
<1>6. PendingIn(e) \subseteq PendingIn(d) \cup ToSet(f.todo)
  BY <1>3 DEF PendingIn
<1>7. PendingIn(d) \subseteq PendingIn(e)
  BY <1>4 DEF PendingIn
<1> QED BY <1>2, <1>5, <1>6, <1>7

LEMMA PendingIs ==
    ASSUME EwmhTypeInv, doing # <<>> PROVE Pending = PendingIn(Callers) \cup ToSet(Top.todo)
<1>1. /\ Len(doing) \in Nat \ {0} /\ Len(Callers) = Len(doing) - 1
      /\ \A i \in 1..Len(doing) - 1 : Callers[i] = doing[i]
  BY TopIs
<1>2. \A i \in 1..Len(doing) : (i \in 1..Len(Callers) /\ Callers[i] = doing[i]) \/ i = Len(doing)
  BY <1>1
<1>3. \A i \in 1..Len(Callers) : i \in 1..Len(doing) /\ Callers[i] = doing[i]
  BY <1>1
<1>4. Pending \subseteq PendingIn(Callers) \cup ToSet(Top.todo)
  BY <1>2 DEF Pending, PendingIn, Top
<1>5. PendingIn(Callers) \subseteq Pending
  BY <1>3 DEF Pending, PendingIn
<1> QED BY <1>4, <1>5, TopIs

\* The function on top goes on with t, in which the steps in new are.
LEMMA GoesOnWith ==
    ASSUME EwmhTypeInv, doing # <<>>, NEW t \in Seq(AStep), NEW calling \in BOOLEAN, Continue(t, calling),
           NEW gone, NEW new, new \subseteq ToSet(t),
           ToSet(t) \subseteq ToSet(Top.todo) \cup new, ToSet(Top.todo) \subseteq gone \cup ToSet(t)
    PROVE  Turns(gone, new)
<1>1. /\ Callers \in Seq(AFunction) /\ Len(Callers) = Len(doing) - 1 /\ Len(doing) \in Nat \ {0}
      /\ Pending = PendingIn(Callers) \cup ToSet(Top.todo) /\ Len(doing) <= MaxEwmhNesting
  BY TopIs, PendingIs DEF EwmhTypeInv
<1>2. CASE t = <<>> /\ ~calling
  <2>1. doing' = Callers /\ ToSet(t) = {}
    <3>1. doing' = Callers \o <<>>
      BY <1>2 DEF Continue
    <3>2. Callers \o <<>> = Callers
      BY <1>1
    <3> QED BY <1>2, <3>1, <3>2, NoStep
  <2>2. Pending' = PendingIn(Callers)
    BY <2>1 DEF Pending
  <2>3. Len(doing') <= MaxEwmhNesting
    BY <1>1, <2>1, EwmhAssumption
  <2> QED BY <1>1, <2>1, <2>2, <2>3 DEF Turns
<1>3. CASE ~(t = <<>> /\ ~calling)
  <2> PICK f : f = [todo |-> t, calling |-> calling]
    OBVIOUS
  <2>1. f \in AFunction /\ f.todo = t /\ doing' = Callers \o <<f>>
    BY <1>3 DEF AFunction, Continue
  <2>2. doing' \in Seq(AFunction) /\ Len(doing') = Len(Callers) + 1 /\ Pending' = PendingIn(Callers) \cup ToSet(t)
    BY <1>1, <2>1, OneMoreFunction DEF Pending
  <2>3. Len(doing') <= MaxEwmhNesting
    BY <1>1, <2>2, EwmhAssumption
  <2> QED BY <1>1, <2>2, <2>3 DEF Turns
<1> QED BY <1>2, <1>3

\* A step becomes others.
LEMMA StepBecomes ==
    ASSUME EwmhTypeInv, doing # <<>>, Top.todo # <<>>, NEW s \in Seq(AStep), NEW calling \in BOOLEAN,
           Continue(s \o Rest, calling)
    PROVE  Turns({Step}, ToSet(s))
<1>1. Rest \in Seq(AStep) /\ ToSet(Top.todo) = {Step} \cup ToSet(Rest)
  BY StepIs
<1> PICK t : t = s \o Rest
  OBVIOUS
<1>2. t \in Seq(AStep) /\ ToSet(t) = ToSet(s) \cup ToSet(Rest)
  BY <1>1, ConcatSteps
<1>3. Continue(t, calling)
  OBVIOUS
<1> QED BY <1>1, <1>2, <1>3, GoesOnWith

LEMMA StepIsDone ==
    ASSUME EwmhTypeInv, doing # <<>>, Top.todo # <<>>, NEW calling \in BOOLEAN, Continue(Rest, calling)
    PROVE  Turns({Step}, {})
<1>1. Rest \in Seq(AStep) /\ ToSet(Top.todo) = {Step} \cup ToSet(Rest)
  BY StepIs
<1> QED BY <1>1, GoesOnWith

LEMMA StepIsPrepared ==
    ASSUME EwmhTypeInv, doing # <<>>, Top.todo # <<>>, NEW x \in AStep, Continue(<<x>> \o Top.todo, FALSE)
    PROVE  Turns({}, {x})
<1>1. Top.todo \in Seq(AStep) /\ <<x>> \in Seq(AStep) /\ ToSet(<<x>>) = {x}
  BY TopIs, OneStep
<1> PICK t : t = <<x>> \o Top.todo
  OBVIOUS
<1>2. t \in Seq(AStep) /\ ToSet(t) = {x} \cup ToSet(Top.todo)
  BY <1>1, ConcatSteps
<1>3. Continue(t, FALSE)
  OBVIOUS
<1> QED BY <1>2, <1>3, GoesOnWith

LEMMA FunctionReturns ==
    ASSUME EwmhTypeInv, doing # <<>>, Top.todo = <<>>, doing' = Callers
    PROVE  Turns({}, {})
<1>1. /\ Callers \in Seq(AFunction) /\ Len(Callers) = Len(doing) - 1 /\ Len(doing) \in Nat \ {0}
      /\ Pending = PendingIn(Callers) \cup ToSet(Top.todo) /\ Len(doing) <= MaxEwmhNesting
  BY TopIs, PendingIs DEF EwmhTypeInv
<1>2. Pending' = PendingIn(Callers) /\ ToSet(Top.todo) = {}
  BY NoStep DEF Pending
<1>3. Len(doing') <= MaxEwmhNesting
  BY <1>1, EwmhAssumption
<1> QED BY <1>1, <1>2, <1>3 DEF Turns

\* A call.
LEMMA CallBegins ==
    ASSUME EwmhTypeInv, NEW t \in Seq(AStep), Calls(t) PROVE Turns({}, ToSet(t))
<1> PICK f : f = [todo |-> t, calling |-> FALSE]
  OBVIOUS
<1>1. f \in AFunction /\ f.todo = t /\ doing \in Seq(AFunction) /\ doing' = Append(doing, f)
  BY DEF AFunction, Calls, EwmhTypeInv
<1>2. doing' = doing \o <<f>>
  BY <1>1, AppendIsConcat
<1>3. doing' \in Seq(AFunction) /\ Len(doing') = Len(doing) + 1 /\ Pending' = Pending \cup ToSet(t)
  BY <1>1, <1>2, OneMoreFunction DEF Pending
<1>4. Len(doing') <= MaxEwmhNesting
  BY <1>1, <1>3, LenProperties, EwmhAssumption DEF Calls
<1> QED BY <1>3, <1>4 DEF Turns

\* At rest nothing is pending.
LEMMA NothingPending == ASSUME doing = <<>> PROVE Pending = {}
<1>1. Len(doing) = 0 /\ 1..0 = {}
  OBVIOUS
<1> QED BY <1>1 DEF Pending, PendingIn

LEMMA LeavingIs ==
    ASSUME EwmhTypeInv, NEW c
    PROVE  Leaving(c) <=> \E s \in Pending : s.do \in {"remove", "untag"} /\ s.client = c
<1>1. DOMAIN doing = 1..Len(doing)
  BY LenProperties DEF EwmhTypeInv
<1>2. \A i \in DOMAIN doing : ToSet(doing[i].todo) \subseteq Pending
  BY <1>1 DEF Pending, PendingIn
<1>3. ASSUME Leaving(c) PROVE \E s \in Pending : s.do \in {"remove", "untag"} /\ s.client = c
  BY <1>2, <1>3 DEF Leaving, ToSet
<1>4. ASSUME NEW s \in Pending, s.do \in {"remove", "untag"} /\ s.client = c PROVE Leaving(c)
  <2>1. PICK i \in DOMAIN doing : s \in ToSet(doing[i].todo)
    BY <1>1 DEF Pending, PendingIn
  <2>2. PICK j \in DOMAIN doing[i].todo : s = doing[i].todo[j]
    BY <2>1 DEF ToSet
  <2> QED BY <1>4, <2>2 DEF Leaving
<1> QED BY <1>3, <1>4

LEMMA LeavingPrimed ==
    ASSUME EwmhTypeInv', NEW c
    PROVE  Leaving(c)' <=> \E s \in Pending' : s.do \in {"remove", "untag"} /\ s.client = c
<1>1. DOMAIN doing' = 1..Len(doing')
  BY LenProperties DEF EwmhTypeInv
<1>2. \A i \in DOMAIN doing' : ToSet(doing'[i].todo) \subseteq Pending'
  BY <1>1 DEF Pending, PendingIn
<1>3. ASSUME Leaving(c)' PROVE \E s \in Pending' : s.do \in {"remove", "untag"} /\ s.client = c
  BY <1>2, <1>3 DEF Leaving, ToSet
<1>4. ASSUME NEW s \in Pending', s.do \in {"remove", "untag"} /\ s.client = c PROVE Leaving(c)'
  <2>1. PICK i \in DOMAIN doing' : s \in ToSet(doing'[i].todo)
    BY <1>1 DEF Pending, PendingIn
  <2>2. PICK j \in DOMAIN doing'[i].todo : s = doing'[i].todo[j]
    BY <2>1 DEF ToSet
  <2> QED BY <1>4, <2>2 DEF Leaving
<1> QED BY <1>3, <1>4

-----------------------------------------------------------------------------
(* Kinds of steps, and what they write.                                    *)

LEMMA KindsOfSteps ==
    ASSUME NEW s \in AStep
    PROVE  /\ s.do \in {"emit", "refresh"} => s \in EmitStep
           /\ s.do = "emitIf" => s \in EmitIfStep
           /\ s.do = "set" => s \in SetStep
           /\ s.do = "assign" => s \in AssignStep
           /\ s.do = "asked" => s \in AskedStep
           /\ s.do = "focus" => s \in FocusStep
           /\ s.do = "remove" => s \in RemoveStep
           /\ s.do = "untag" => s \in UntagStep
  BY DEF AStep, EmitStep, EmitIfStep, SetStep, AssignStep, AskedStep, FocusStep, RemoveStep, UntagStep, PlainStep

LEMMA StepsOf ==
    /\ \A g \in Signal, c \in EwmhClient \cup {NoHint} : Emits(g, c) \in AStep
    /\ \A f \in Maximized, c \in EwmhClient, b \in BOOLEAN : EmitIf(f, c, b) \in AStep
    /\ \A f \in StateFlag, c \in EwmhClient, b \in BOOLEAN : Set(c, f, b) \in AStep
    /\ \A f \in StateFlag \ Maximized, c \in EwmhClient, b \in BOOLEAN : Assign(c, f, b) \in AStep
    /\ \A f \in StateFlag, c \in EwmhClient, a \in {"add", "remove", "toggle"} : Asked(c, f, a) \in AStep
    /\ \A c \in EwmhClient : FocusOn(c) \in AStep /\ Removal(c) \in AStep
    /\ \A c \in EwmhClient, i \in Nat \ {0} : UntagFrom(c, i) \in AStep
    /\ Numbers \in AStep /\ Handlers \in AStep
<1>1. \A g \in Signal, c \in EwmhClient \cup {NoHint} : Emits(g, c) \in EmitStep
  BY DEF Emits, EmitStep
<1>2. \A f \in Maximized, c \in EwmhClient, b \in BOOLEAN : EmitIf(f, c, b) \in EmitIfStep
  BY DEF EmitIf, EmitIfStep
<1>3. \A f \in StateFlag, c \in EwmhClient, b \in BOOLEAN : Set(c, f, b) \in SetStep
  BY DEF Set, SetStep
<1>4. \A f \in StateFlag \ Maximized, c \in EwmhClient, b \in BOOLEAN : Assign(c, f, b) \in AssignStep
  BY DEF Assign, AssignStep
<1>5. \A f \in StateFlag, c \in EwmhClient, a \in {"add", "remove", "toggle"} : Asked(c, f, a) \in AskedStep
  BY DEF Asked, AskedStep
<1>6. \A c \in EwmhClient : FocusOn(c) \in FocusStep /\ Removal(c) \in RemoveStep
  BY DEF FocusOn, FocusStep, Removal, RemoveStep
<1>7. \A c \in EwmhClient, i \in Nat \ {0} : UntagFrom(c, i) \in UntagStep
  BY DEF UntagFrom, UntagStep
<1>8. Numbers \in PlainStep /\ Handlers \in PlainStep
  BY DEF Numbers, Handlers, PlainStep
<1> QED BY <1>1, <1>2, <1>3, <1>4, <1>5, <1>6, <1>7, <1>8 DEF AStep

LEMMA ConnectedIs ==
    /\ Connected("focus") = {"active", "current"} /\ Connected("unfocus") = {"active", "current"}
    /\ Connected("request::manage") = {"list"} /\ Connected("request::unmanage") = {"list"}
    /\ Connected("tagged") = {"current"} /\ Connected("untagged") = {"current"}
    /\ Connected("property::selected") = {"current"}
    /\ \A f \in Atom \cup Maximized : Connected(f) = {"state"}
<1>1. \A f \in Atom \cup Maximized :
         f \notin {"focus", "unfocus", "request::manage", "request::unmanage", "tagged", "untagged",
                   "property::selected"}
  BY DEF Atom, StateFlag, Special, Maximized
<1>2. \A f \in Atom \cup Maximized : Connected(f) = {"state"}
  BY <1>1 DEF Connected, ConnectedButSelected
<1>3. Connected("focus") = {"active", "current"} /\ Connected("unfocus") = {"active", "current"}
  BY <1>1 DEF Connected, ConnectedButSelected
<1>4. Connected("request::manage") = {"list"} /\ Connected("request::unmanage") = {"list"}
  BY <1>1 DEF Connected, ConnectedButSelected
<1>5. Connected("tagged") = {"current"} /\ Connected("untagged") = {"current"}
      /\ Connected("property::selected") = {"current"}
  BY <1>1 DEF Connected, ConnectedButSelected
<1> QED BY <1>2, <1>3, <1>4, <1>5

\* The steps that write no property themselves.
LEMMA Silent ==
    ASSUME NEW s, s.do \notin {"emit", "refresh", "emitIf", "numbers", "untag"}
    PROVE  (\A p : ~WritesRoot(s, p)) /\ (\A c : ~WritesState(s, c) /\ ~WritesState(s, c)')
  BY DEF WritesRoot, WritesState

-----------------------------------------------------------------------------
(* What is told stays told, or will be.                                    *)

\* A property of the root window that is not touched.
LEMMA RootStays ==
    ASSUME NEW p \in RootName, RootTold(p), NEW gone, NEW new, Turns(gone, new),
           \A g \in gone : WritesRoot(g, p) => \E s \in new : WritesRoot(s, p),
           root'[p] = root[p], RootHints'[p] = RootHints[p],
           <<"root", p>> \in untold => <<"root", p>> \in untold'
    PROVE  RootTold(p)'
<1>1. CASE \E s \in Pending : WritesRoot(s, p)
  <2>1. \E s \in Pending' : WritesRoot(s, p)
    BY <1>1 DEF Turns
  <2> QED BY <2>1 DEF RootTold
<1>2. CASE ~\E s \in Pending : WritesRoot(s, p)
  BY <1>2 DEF RootTold
<1> QED BY <1>1, <1>2

\* One that a new step will write.
LEMMA RootWillBe ==
    ASSUME NEW p \in RootName, NEW gone, NEW new, Turns(gone, new), NEW s \in new, WritesRoot(s, p)
    PROVE  RootTold(p)'
<1>1. s \in Pending'
  BY DEF Turns
<1> QED BY <1>1 DEF RootTold

\* The same for _NET_WM_STATE.
LEMMA StateStays ==
    ASSUME NEW c, StateTold(c), NEW gone, NEW new, Turns(gone, new),
           \A s \in Pending : WritesState(s, c) => WritesState(s, c)',
           \A g \in gone : WritesState(g, c) => \E s \in new : WritesState(s, c)',
           netState'[c] = netState[c], StateAtoms(c)' = StateAtoms(c),
           <<c, "state">> \in untold => <<c, "state">> \in untold'
    PROVE  StateTold(c)'
<1>1. CASE \E s \in Pending : WritesState(s, c)
  <2>1. PICK s \in Pending : WritesState(s, c)
    BY <1>1
  <2>2. \E r \in Pending' : WritesState(r, c)'
    <3>1. CASE s \in gone
      <4>1. PICK r \in new : WritesState(r, c)'
        BY <2>1, <3>1
      <4>2. r \in Pending'
        BY DEF Turns
      <4> QED BY <4>1, <4>2
    <3>2. CASE s \notin gone
      <4>1. s \in Pending' /\ WritesState(s, c)'
        BY <2>1, <3>2 DEF Turns
      <4> QED BY <4>1
    <3> QED BY <3>1, <3>2
  <2> QED BY <2>2 DEF StateTold
<1>2. CASE ~\E s \in Pending : WritesState(s, c)
  BY <1>2 DEF StateTold
<1> QED BY <1>1, <1>2

LEMMA StateWillBe ==
    ASSUME NEW c, NEW gone, NEW new, Turns(gone, new), NEW s \in new, WritesState(s, c)'
    PROVE  StateTold(c)'
<1>1. s \in Pending'
  BY DEF Turns
<1> QED BY <1>1 DEF StateTold

\* As long as the state of a client does not change, who writes it does not.
LEMMA StateSame ==
    ASSUME NEW c, state'[c] = state[c]
    PROVE  StateAtoms(c)' = StateAtoms(c) /\ \A s : WritesState(s, c)' <=> WritesState(s, c)
<1>1. StateAtoms(c)' = StateAtoms(c)
  BY DEF StateAtoms
<1>2. ASSUME NEW s PROVE WritesState(s, c)' <=> WritesState(s, c)
  BY DEF WritesState
<1> QED BY <1>1, <1>2

\* The focused client and those to be focused stay, if the clients that leave are leaving already.
LEMMA FocusStays ==
    ASSUME EwmhTypeInv, EwmhTypeInv', FocusInv, NEW gone, NEW new, Turns(gone, new),
           \A s \in new : s.do \in {"remove", "untag"} => Leaving(s.client),
           \A s \in new : s.do = "focus" => Here(s.client),
           \A d \in ToSet(list) : d \in ToSet(list') \/ Leaving(d),
           focus' # NoHint => Here(focus')
    PROVE  FocusInv'
<1>1. ASSUME NEW d, Here(d) PROVE Here(d)'
  <2>1. d \in ToSet(list')
    BY <1>1 DEF Here
  <2>2. ASSUME Leaving(d)' PROVE FALSE
    <3>1. PICK s \in Pending' : s.do \in {"remove", "untag"} /\ s.client = d
      <4>1. EwmhTypeInv' => (Leaving(d)' <=> \E s \in Pending' : s.do \in {"remove", "untag"} /\ s.client = d)
        BY LeavingPrimed
      <4> QED BY <2>2, <4>1
    <3>2. s \in Pending \/ s \in new
      BY DEF Turns
    <3>3. Leaving(d)
      BY <3>1, <3>2, LeavingIs
    <3> QED BY <1>1, <3>3 DEF Here
  <2> QED BY <2>1, <2>2 DEF Here
<1>2. ASSUME NEW s \in Pending', s.do = "focus" PROVE Here(s.client)'
  <2>1. s \in Pending \/ s \in new
    BY DEF Turns
  <2>2. Here(s.client)
    BY <1>2, <2>1 DEF FocusInv
  <2> QED BY <1>1, <2>2
<1> QED BY <1>1, <1>2 DEF FocusInv

\* The hints of the root window, by what they depend on.
LEMMA RootHintsAre ==
    /\ RootHints["active"] = focus /\ RootHints["list"] = list
    /\ RootHints["current"] = CurrentDesktop /\ RootHints["number"] = Len(desktops)
    /\ RootHints'["active"] = focus' /\ RootHints'["list"] = list'
    /\ RootHints'["current"] = CurrentDesktop' /\ RootHints'["number"] = Len(desktops')
  BY DEF RootHints

LEMMA CurrentSame ==
    ASSUME focus' = focus, desktops' = desktops, selected' = selected, focus # NoHint => tagged'[focus] = tagged[focus]
    PROVE  CurrentDesktop' = CurrentDesktop
<1>1. CASE focus = NoHint
  BY <1>1 DEF CurrentDesktop, FirstIndex
<1>2. CASE focus # NoHint
  <2>1. tagged'[focus] = tagged[focus]
    BY <1>2
  <2> QED BY <2>1 DEF CurrentDesktop, FirstIndex
<1> QED BY <1>1, <1>2

LEMMA DesktopSame ==
    ASSUME NEW c, desktops' = desktops, tagged'[c] = tagged[c], "sticky" \in state'[c] <=> "sticky" \in state[c]
    PROVE  DesktopOf(c)' = DesktopOf(c)
  BY DEF DesktopOf, FirstIndex

\* A step that changes nothing but the focus, and writes nothing.
Quiet(gone, new) ==
    /\ UNCHANGED <<list, state, desktops, selected, tagged, root, netState, netDesktop, untold>>
    /\ focus' \in EwmhClient \cup {NoHint} /\ (focus' # NoHint => Here(focus'))
    /\ \A s \in new : s.do \in {"remove", "untag"} => Leaving(s.client)
    /\ \A s \in new : s.do = "focus" => Here(s.client)
    /\ \A g \in gone : \A p \in RootName : WritesRoot(g, p) => \E s \in new : WritesRoot(s, p)
    /\ \A g \in gone : \A c \in EwmhClient : WritesState(g, c) => \E s \in new : WritesState(s, c)
    /\ focus' = focus \/ \A p \in {"active", "current"} : \E s \in new : WritesRoot(s, p)

LEMMA QuietStep ==
    ASSUME EwmhIInv, NEW gone, NEW new, Turns(gone, new), Quiet(gone, new)
    PROVE  EwmhIInv'
<1> USE DEF Quiet
<1>1. EwmhTypeInv /\ FocusInv
  BY DEF EwmhIInv
<1>2. EwmhTypeInv'
  BY <1>1 DEF EwmhTypeInv, Turns
<1>3. FocusInv'
  BY <1>1, <1>2, FocusStays
<1>4. ASSUME NEW p \in RootName PROVE RootTold(p)'
  <2>1. RootTold(p)
    BY DEF EwmhIInv
  <2>2. CASE focus' = focus
    <3>1. CurrentDesktop' = CurrentDesktop
      BY <2>2, CurrentSame
    <3>2. RootHints'[p] = RootHints[p]
      BY <2>2, <3>1, RootHintsAre DEF RootName
    <3> QED BY <2>1, <3>2, RootStays
  <2>3. CASE focus' # focus /\ p \in {"active", "current"}
    <3>1. PICK s \in new : WritesRoot(s, p)
      BY <2>3
    <3> QED BY <3>1, RootWillBe
  <2>4. CASE p \in {"list", "number"}
    <3>1. RootHints'[p] = RootHints[p]
      BY <2>4, RootHintsAre
    <3> QED BY <2>1, <3>1, RootStays
  <2> QED BY <2>2, <2>3, <2>4 DEF RootName
<1>5. ASSUME NEW c \in ToSet(list') PROVE StateTold(c)' /\ DesktopTold(c)'
  <2>1. c \in EwmhClient /\ StateTold(c) /\ DesktopTold(c)
    <3>1. \A d \in ToSet(list) : d \in EwmhClient
      BY <1>1, LenProperties, ElementOfSeq DEF EwmhTypeInv, ToSet
    <3> QED BY <3>1 DEF EwmhIInv
  <2>2. StateAtoms(c)' = StateAtoms(c) /\ \A s : WritesState(s, c)' <=> WritesState(s, c)
    BY StateSame
  <2>3. StateTold(c)'
    BY <2>1, <2>2, StateStays
  <2>4. DesktopOf(c)' = DesktopOf(c)
    BY DesktopSame
  <2> QED BY <2>1, <2>3, <2>4 DEF DesktopTold
<1> QED BY <1>2, <1>3, <1>4, <1>5 DEF EwmhIInv

\* The parts of an action that goes on with what a function has to do.
LEMMA DoingIs ==
    ASSUME EwmhTypeInv, NEW what, Does(what)
    PROVE  doing # <<>> /\ Top.todo # <<>> /\ Step.do = what /\ Step \in AStep /\ Step \in Pending
  BY StepIs DEF Does

-----------------------------------------------------------------------------
(* The actions, each of which keeps the invariant.                         *)

LEMMA DoEmitKeeps == ASSUME EwmhIInv, DoEmit PROVE EwmhIInv'
<1>1. EwmhTypeInv /\ FocusInv
  BY DEF EwmhIInv
<1>2. doing # <<>> /\ Top.todo # <<>> /\ Step.do = "emit" /\ Step \in EmitStep
  BY <1>1, DoingIs, KindsOfSteps DEF DoEmit
<1> PICK x : x = [Step EXCEPT !.do = "refresh"]
  OBVIOUS
<1>3. x \in AStep /\ x.do = "refresh" /\ x.signal = Step.signal /\ x.client = Step.client
  BY <1>2 DEF EmitStep, AStep
<1>4. Turns({Step}, {x})
  <2>1. <<x>> \in Seq(AStep) /\ ToSet(<<x>>) = {x}
    BY <1>3, OneStep
  <2>2. Continue(<<x>> \o Rest, TRUE)
    BY DEF DoEmit
  <2>3. Turns({Step}, ToSet(<<x>>))
    BY <1>1, <1>2, <2>1, <2>2, StepBecomes
  <2> QED BY <2>1, <2>3
<1>5. /\ \A p : WritesRoot(Step, p) => WritesRoot(x, p)
      /\ \A c : WritesState(Step, c) => WritesState(x, c)
  BY <1>2, <1>3 DEF WritesRoot, WritesState
<1>6. focus' \in EwmhClient \cup {NoHint} /\ (focus' # NoHint => Here(focus')) /\ focus' = focus
  BY <1>1 DEF DoEmit, Same, EwmhTypeInv, FocusInv
<1>7. Quiet({Step}, {x})
  BY <1>3, <1>5, <1>6 DEF Quiet, DoEmit, Same
<1> QED BY <1>4, <1>7, QuietStep

LEMMA SilentIsQuiet ==
    ASSUME EwmhTypeInv, FocusInv, NEW gone, NEW new,
           UNCHANGED <<list, state, desktops, selected, tagged, root, netState, netDesktop, untold, focus>>,
           \A g \in gone : g.do \notin {"emit", "refresh", "emitIf", "numbers", "untag"},
           \A s \in new : s.do \notin {"remove", "untag"} /\ (s.do = "focus" => Here(s.client))
    PROVE  Quiet(gone, new)
<1>1. \A g \in gone : (\A p : ~WritesRoot(g, p)) /\ (\A c : ~WritesState(g, c))
  BY Silent
<1>2. focus' \in EwmhClient \cup {NoHint} /\ (focus' # NoHint => Here(focus'))
  BY DEF EwmhTypeInv, FocusInv
<1> QED BY <1>1, <1>2 DEF Quiet

LEMMA DoHandlersKeeps == ASSUME EwmhIInv, DoHandlers PROVE EwmhIInv'
<1>1. EwmhTypeInv /\ FocusInv
  BY DEF EwmhIInv
<1>2. doing # <<>> /\ Top.todo # <<>> /\ Step.do = "handlers"
  BY <1>1, DoingIs DEF DoHandlers
<1>3. Turns({Step}, {})
  BY <1>1, <1>2, StepIsDone DEF DoHandlers
<1>4. Quiet({Step}, {})
  BY <1>1, <1>2, SilentIsQuiet DEF DoHandlers, Same
<1> QED BY <1>3, <1>4, QuietStep

LEMMA HandlersReturnKeeps == ASSUME EwmhIInv, HandlersReturn PROVE EwmhIInv'
<1>1. EwmhTypeInv /\ FocusInv
  BY DEF EwmhIInv
<1>2. Turns({}, {})
  BY <1>1, FunctionReturns DEF HandlersReturn
<1>3. Quiet({}, {})
  BY <1>1, SilentIsQuiet DEF HandlersReturn, Same
<1> QED BY <1>2, <1>3, QuietStep

LEMMA ExcludedSteps ==
    ASSUME NEW c \in EwmhClient, NEW flag \in StateFlag
    PROVE  /\ [i \in DOMAIN Excluded(flag) |-> Set(c, Excluded(flag)[i], FALSE)] \in Seq(AStep)
           /\ \A s \in ToSet([i \in DOMAIN Excluded(flag) |-> Set(c, Excluded(flag)[i], FALSE)]) : s.do = "set"
<1> PICK x : x = Excluded(flag)
  OBVIOUS
<1>1. x \in Seq(StateFlag)
  <2>1. Excluded(flag) \in {<<"below", "above", "ontop">>, <<"below", "ontop", "fullscreen">>,
                           <<"above", "ontop", "fullscreen">>, <<"above", "below", "fullscreen">>, <<>>}
    BY DEF Excluded
  <2>2. {"below", "above", "ontop", "fullscreen"} \subseteq StateFlag
    BY DEF StateFlag, Special
  <2>3. \A f, g, h \in StateFlag : <<f, g, h>> \in Seq(StateFlag)
    OBVIOUS
  <2>4. <<>> \in Seq(StateFlag)
    OBVIOUS
  <2> QED BY <2>1, <2>2, <2>3, <2>4
<1> PICK s : s = [i \in DOMAIN x |-> Set(c, x[i], FALSE)]
  OBVIOUS
<1>2. DOMAIN x = 1..Len(x) /\ Len(x) \in Nat
  BY <1>1, LenProperties
<1>3. ASSUME NEW i \in DOMAIN x PROVE s[i] \in AStep /\ s[i].do = "set"
  <2>1. x[i] \in StateFlag /\ s[i] = Set(c, x[i], FALSE)
    BY <1>1, <1>2, ElementOfSeq
  <2>2. Set(c, x[i], FALSE) \in AStep
    BY <2>1, StepsOf
  <2> QED BY <2>1, <2>2 DEF Set
<1>4. s \in [1..Len(x) -> AStep]
  BY <1>2, <1>3
<1>5. s \in Seq(AStep)
  <2>1. \A n \in Nat : [1..n -> AStep] \subseteq Seq(AStep)
    BY SeqDef
  <2> QED BY <1>2, <1>4, <2>1
<1> QED BY <1>3, <1>5 DEF ToSet

LEMMA DoSetKeeps == ASSUME EwmhIInv, DoSet PROVE EwmhIInv'
<1>1. EwmhTypeInv /\ FocusInv
  BY DEF EwmhIInv
<1>2. doing # <<>> /\ Top.todo # <<>> /\ Step.do = "set" /\ Step \in SetStep /\ Step.flag \notin Maximized
  BY <1>1, DoingIs, KindsOfSteps DEF DoSet
<1>3. UNCHANGED <<list, state, desktops, selected, tagged, root, netState, netDesktop, untold, focus>>
  BY DEF DoSet, Same
<1> PICK c \in EwmhClient : c = Step.client
  BY <1>2 DEF SetStep
<1> PICK flag \in StateFlag \ Maximized : flag = Step.flag
  BY <1>2 DEF SetStep
<1> PICK before : before = IF Step.value THEN [i \in DOMAIN Excluded(flag) |-> Set(c, Excluded(flag)[i], FALSE)]
                           ELSE <<>>
  OBVIOUS
<1> PICK x : x = Assign(c, flag, Step.value)
  OBVIOUS
<1>4. before \in Seq(AStep) /\ \A s \in ToSet(before) : s.do = "set"
  BY ExcludedSteps, NoStep
<1>5. x \in AStep /\ x.do = "assign"
  BY <1>2, StepsOf DEF SetStep, Assign
<1>6. /\ before \o <<x>> \in Seq(AStep)
      /\ \A s \in ToSet(before \o <<x>>) : s.do \in {"set", "assign"}
  <2>1. <<x>> \in Seq(AStep) /\ ToSet(<<x>>) = {x}
    BY <1>5, OneStep
  <2>2. before \o <<x>> \in Seq(AStep) /\ ToSet(before \o <<x>>) = ToSet(before) \cup ToSet(<<x>>)
    BY <1>4, <2>1, ConcatSteps
  <2> QED BY <1>4, <1>5, <2>1, <2>2
<1>7. CASE Continue(Rest, FALSE)
  <2>1. Turns({Step}, {})
    BY <1>1, <1>2, <1>7, StepIsDone
  <2>2. Quiet({Step}, {})
    BY <1>1, <1>2, <1>3, SilentIsQuiet
  <2> QED BY <2>1, <2>2, QuietStep
<1>8. CASE Continue(before \o <<x>> \o Rest, FALSE)
  <2> PICK t : t = before \o <<x>>
    OBVIOUS
  <2>1. Turns({Step}, ToSet(t))
    <3>1. Continue(t \o Rest, FALSE)
      BY <1>8
    <3> QED BY <1>1, <1>2, <1>6, <3>1, StepBecomes
  <2>2. \A s \in ToSet(t) : s.do \in {"set", "assign"}
    BY <1>6
  <2>3. \A s \in ToSet(t) : s.do \notin {"remove", "untag"} /\ (s.do = "focus" => Here(s.client))
    BY <2>2
  <2>4. Step.do \notin {"emit", "refresh", "emitIf", "numbers", "untag"}
    BY <1>2
  <2>5. Quiet({Step}, ToSet(t))
    BY ONLY <1>1, <1>3, <2>3, <2>4, SilentIsQuiet
  <2> QED BY <2>1, <2>5, QuietStep
<1>9. Continue(Rest, FALSE) \/ Continue(before \o <<x>> \o Rest, FALSE)
  <2>1. CASE (Step.flag \in state[Step.client]) = Step.value
    BY <2>1 DEF DoSet
  <2>2. CASE (Step.flag \in state[Step.client]) # Step.value
    BY <2>2 DEF DoSet
  <2> QED BY <2>1, <2>2
<1> QED BY <1>7, <1>8, <1>9

LEMMA DoEmitIfKeeps == ASSUME EwmhIInv, DoEmitIf PROVE EwmhIInv'
<1>1. EwmhTypeInv /\ FocusInv
  BY DEF EwmhIInv
<1>2. doing # <<>> /\ Top.todo # <<>> /\ Step.do = "emitIf" /\ Step \in EmitIfStep
  BY <1>1, DoingIs, KindsOfSteps DEF DoEmitIf
<1>3. UNCHANGED <<list, state, desktops, selected, tagged, root, netState, netDesktop, untold, focus>>
  BY DEF DoEmitIf, Same
<1>4. focus' \in EwmhClient \cup {NoHint} /\ (focus' # NoHint => Here(focus'))
  BY <1>1, <1>3 DEF EwmhTypeInv, FocusInv
<1>5. \A p : ~WritesRoot(Step, p)
  BY <1>2 DEF WritesRoot
<1>6. CASE (Step.flag \in state[Step.client]) = Step.before
  <2>1. \A c : ~WritesState(Step, c)
    BY <1>2, <1>6 DEF WritesState
  <2>2. Continue(<<>> \o Rest, FALSE)
    BY <1>6 DEF DoEmitIf
  <2>3. Turns({Step}, ToSet(<<>>))
    BY <1>1, <1>2, <2>2, NoStep, StepBecomes
  <2>4. Quiet({Step}, ToSet(<<>>))
    BY <1>3, <1>4, <1>5, <2>1, NoStep DEF Quiet
  <2> QED BY <2>3, <2>4, QuietStep
<1>7. CASE (Step.flag \in state[Step.client]) # Step.before
  <2> PICK x : x = Emits(Step.flag, Step.client)
    OBVIOUS
  <2>1. x \in AStep /\ x.do = "emit" /\ x.client = Step.client /\ "state" \in Connected(x.signal)
    <3>1. Step.flag \in Maximized /\ Step.client \in EwmhClient
      BY <1>2 DEF EmitIfStep
    <3>2. Step.flag \in Signal
      BY <3>1 DEF Signal, StateFlag
    <3>3. x \in AStep
      BY <3>1, <3>2, StepsOf
    <3>4. Connected(Step.flag) = {"state"}
      BY <3>1, ConnectedIs
    <3> QED BY <3>3, <3>4 DEF Emits
  <2>2. <<x>> \in Seq(AStep) /\ ToSet(<<x>>) = {x}
    BY <2>1, OneStep
  <2>3. Continue(<<x>> \o Rest, FALSE)
    BY <1>7 DEF DoEmitIf
  <2>4. Turns({Step}, {x})
    <3>1. Turns({Step}, ToSet(<<x>>))
      BY <1>1, <1>2, <2>2, <2>3, StepBecomes
    <3> QED BY <2>2, <3>1
  <2>5. \A c : WritesState(Step, c) => WritesState(x, c)
    BY <1>2, <2>1 DEF WritesState
  <2>6. Quiet({Step}, {x})
    BY <1>3, <1>4, <1>5, <2>1, <2>5 DEF Quiet
  <2> QED BY <2>4, <2>6, QuietStep
<1> QED BY <1>6, <1>7

LEMMA DoAskedKeeps == ASSUME EwmhIInv, DoAsked PROVE EwmhIInv'
<1>1. EwmhTypeInv /\ FocusInv
  BY DEF EwmhIInv
<1>2. doing # <<>> /\ Top.todo # <<>> /\ Step.do = "asked" /\ Step \in AskedStep
  BY <1>1, DoingIs, KindsOfSteps DEF DoAsked
<1>3. UNCHANGED <<list, state, desktops, selected, tagged, root, netState, netDesktop, untold, focus>>
  BY DEF DoAsked, Same
<1>4. \E x \in AStep : x.do \in {"handlers", "set"} /\ Continue(<<x>> \o Rest, FALSE)
  <2>1. CASE Step.atom \in Maximized \cup {"urgent"}
    <3>1. Handlers \in AStep /\ Handlers.do = "handlers"
      BY StepsOf DEF Handlers
    <3> QED BY <2>1, <3>1 DEF DoAsked
  <2>2. CASE Step.atom \notin Maximized \cup {"urgent"}
    <3> PICK value : value = CASE Step.action = "remove" -> FALSE
                               [] Step.action = "add" -> TRUE
                               [] Step.action = "toggle" -> Step.atom \notin state[Step.client]
      OBVIOUS
    <3>1. value \in BOOLEAN /\ Step.client \in EwmhClient /\ Step.atom \in StateFlag
      BY <1>2 DEF AskedStep
    <3>2. Set(Step.client, Step.atom, value) \in AStep
      BY <3>1, StepsOf
    <3>3. Set(Step.client, Step.atom, value).do = "set"
      BY DEF Set
    <3>4. Continue(<<Set(Step.client, Step.atom, value)>> \o Rest, FALSE)
      BY <2>2 DEF DoAsked
    <3> QED BY <3>2, <3>3, <3>4
  <2> QED BY <2>1, <2>2
<1>5. PICK x \in AStep : x.do \in {"handlers", "set"} /\ Continue(<<x>> \o Rest, FALSE)
  BY <1>4
<1>6. Turns({Step}, {x})
  <2>1. <<x>> \in Seq(AStep) /\ ToSet(<<x>>) = {x}
    BY OneStep
  <2>2. Turns({Step}, ToSet(<<x>>))
    BY <1>1, <1>2, <1>5, <2>1, StepBecomes
  <2> QED BY <2>1, <2>2
<1>7. Quiet({Step}, {x})
  BY <1>1, <1>2, <1>3, <1>5, SilentIsQuiet
<1> QED BY <1>6, <1>7, QuietStep

LEMMA SilentCall ==
    ASSUME EwmhIInv, NEW t \in Seq(AStep), Calls(t),
           UNCHANGED <<list, state, desktops, selected, tagged, root, netState, netDesktop, untold, focus>>,
           \A s \in ToSet(t) : s.do \notin {"remove", "untag"} /\ (s.do = "focus" => Here(s.client))
    PROVE  EwmhIInv'
<1>1. EwmhTypeInv /\ FocusInv
  BY DEF EwmhIInv
<1>2. Turns({}, ToSet(t))
  BY <1>1, CallBegins
<1>3. Quiet({}, ToSet(t))
  BY <1>1, SilentIsQuiet
<1> QED BY <1>2, <1>3, QuietStep

LEMMA SetFlagKeeps ==
    ASSUME EwmhIInv, NEW c \in EwmhClient, NEW f \in Settable, NEW v \in BOOLEAN, SetFlag(c, f, v)
    PROVE  EwmhIInv'
<1> PICK x : x = Set(c, f, v)
  OBVIOUS
<1>1. x \in AStep /\ x.do = "set"
  BY StepsOf, EwmhAssumption DEF Set
<1>2. <<x>> \in Seq(AStep) /\ ToSet(<<x>>) = {x} /\ Calls(<<x>>)
  BY <1>1, OneStep DEF SetFlag
<1> QED BY <1>1, <1>2, SilentCall DEF SetFlag

LEMMA FocusKeeps == ASSUME EwmhIInv, NEW c \in EwmhClient, Focus(c) PROVE EwmhIInv'
<1> PICK x : x = FocusOn(c)
  OBVIOUS
<1>1. x \in AStep /\ x.do = "focus" /\ x.client = c /\ Here(c)
  BY StepsOf DEF FocusOn, Focus
<1>2. <<x>> \in Seq(AStep) /\ ToSet(<<x>>) = {x} /\ Calls(<<x>>)
  BY <1>1, OneStep DEF Focus
<1> QED BY <1>1, <1>2, SilentCall DEF Focus

LEMMA RequestMessageKeeps == ASSUME EwmhIInv, RequestMessage PROVE EwmhIInv'
<1> PICK x : x = Handlers
  OBVIOUS
<1>1. x \in AStep /\ x.do = "handlers"
  BY StepsOf DEF Handlers
<1>2. <<x>> \in Seq(AStep) /\ ToSet(<<x>>) = {x} /\ Calls(<<x>>)
  BY <1>1, OneStep DEF RequestMessage
<1> QED BY <1>1, <1>2, SilentCall DEF RequestMessage

LEMMA StateMessageKeeps ==
    ASSUME EwmhIInv, NEW c \in EwmhClient, NEW a \in Settable \cap Atom, NEW b \in Settable \cap Atom,
           NEW action \in {"add", "remove", "toggle"}, StateMessage(c, a, b, action)
    PROVE  EwmhIInv'
<1> PICK x : x = Asked(c, a, action)
  OBVIOUS
<1> PICK y : y = Asked(c, b, action)
  OBVIOUS
<1>1. x \in AStep /\ x.do = "asked" /\ y \in AStep /\ y.do = "asked"
  BY StepsOf, EwmhAssumption DEF Asked
<1>2. <<x, y>> \in Seq(AStep) /\ ToSet(<<x, y>>) = {x, y} /\ Calls(<<x, y>>)
  BY <1>1, TwoSteps DEF StateMessage
<1> QED BY <1>1, <1>2, SilentCall DEF StateMessage

LEMMA FocusEmits ==
    \A g \in {"focus", "unfocus"}, c \in EwmhClient :
        /\ Emits(g, c) \in AStep /\ Emits(g, c).do = "emit"
        /\ WritesRoot(Emits(g, c), "active") /\ WritesRoot(Emits(g, c), "current")
<1> SUFFICES ASSUME NEW g \in {"focus", "unfocus"}, NEW c \in EwmhClient
             PROVE  /\ Emits(g, c) \in AStep /\ Emits(g, c).do = "emit"
                    /\ WritesRoot(Emits(g, c), "active") /\ WritesRoot(Emits(g, c), "current")
  OBVIOUS
<1>1. Connected(g) = {"active", "current"} /\ g \in Signal
  BY ConnectedIs DEF Signal
<1>2. Emits(g, c) \in AStep /\ Emits(g, c).do = "emit" /\ Emits(g, c).signal = g
  BY <1>1, StepsOf DEF Emits
<1> QED BY <1>1, <1>2 DEF WritesRoot

LEMMA UnfocusKeeps == ASSUME EwmhIInv, Unfocus PROVE EwmhIInv'
<1>1. EwmhTypeInv /\ FocusInv
  BY DEF EwmhIInv
<1> PICK x : x = Emits("unfocus", focus)
  OBVIOUS
<1>2. /\ x \in AStep /\ x.do = "emit" /\ WritesRoot(x, "active") /\ WritesRoot(x, "current")
  BY <1>1, FocusEmits DEF Unfocus, EwmhTypeInv
<1>3. <<x>> \in Seq(AStep) /\ ToSet(<<x>>) = {x} /\ Calls(<<x>>)
  BY <1>2, OneStep DEF Unfocus
<1>4. Turns({}, {x})
  <2>1. Turns({}, ToSet(<<x>>))
    BY <1>1, <1>3, CallBegins
  <2> QED BY <1>3, <2>1
<1>5. Quiet({}, {x})
  BY <1>2 DEF Quiet, Unfocus
<1> QED BY <1>4, <1>5, QuietStep

LEMMA DoFocusKeeps == ASSUME EwmhIInv, DoFocus PROVE EwmhIInv'
<1>1. EwmhTypeInv /\ FocusInv
  BY DEF EwmhIInv
<1>2. doing # <<>> /\ Top.todo # <<>> /\ Step.do = "focus" /\ Step \in FocusStep /\ Step \in Pending
  BY <1>1, DoingIs, KindsOfSteps DEF DoFocus
<1> PICK c \in EwmhClient : c = Step.client
  BY <1>2 DEF FocusStep
<1>3. Here(c) /\ c # NoHint
  BY <1>1, <1>2, EwmhAssumption DEF FocusInv
<1>4. UNCHANGED <<list, state, desktops, selected, tagged, root, netState, netDesktop, untold>>
  BY DEF DoFocus
<1>5. CASE focus \notin {NoHint, c}
  <2> PICK x : x = Emits("unfocus", focus)
    OBVIOUS
  <2>1. /\ x \in AStep /\ x.do = "emit" /\ WritesRoot(x, "active") /\ WritesRoot(x, "current")
    BY <1>1, <1>5, FocusEmits DEF EwmhTypeInv
  <2>2. focus' = NoHint /\ Continue(<<x>> \o Top.todo, FALSE)
    BY <1>5 DEF DoFocus
  <2>3. Turns({}, {x})
    BY <1>1, <1>2, <2>1, <2>2, StepIsPrepared
  <2>4. Quiet({}, {x})
    BY <1>4, <2>1, <2>2 DEF Quiet
  <2> QED BY <2>3, <2>4, QuietStep
<1> PICK x : x = Set(c, "urgent", FALSE)
  OBVIOUS
<1>6. x \in AStep /\ x.do = "set" /\ <<x>> \in Seq(AStep) /\ ToSet(<<x>>) = {x}
  <2>1. "urgent" \in StateFlag
    BY DEF StateFlag
  <2>2. x \in AStep
    BY <2>1, StepsOf
  <2> QED BY <2>2, OneStep DEF Set
<1>7. (\A p : ~WritesRoot(Step, p)) /\ (\A d : ~WritesState(Step, d))
  BY <1>2, Silent
<1>8. CASE focus = c
  <2>1. focus' = c /\ Continue(<<x>> \o <<>> \o Rest, FALSE)
    BY <1>3, <1>8 DEF DoFocus
  <2>2. <<x>> \o <<>> = <<x>>
    OBVIOUS
  <2>3. Turns({Step}, {x})
    <3>1. Continue(<<x>> \o Rest, FALSE)
      BY <2>1, <2>2
    <3>2. Turns({Step}, ToSet(<<x>>))
      BY <1>1, <1>2, <1>6, <3>1, StepBecomes
    <3> QED BY <1>6, <3>2
  <2>4. Quiet({Step}, {x})
    BY <1>3, <1>4, <1>6, <1>7, <1>8, <2>1 DEF Quiet
  <2> QED BY <2>3, <2>4, QuietStep
<1>9. CASE focus = NoHint
  <2> PICK y : y = Emits("focus", c)
    OBVIOUS
  <2>1. /\ y \in AStep /\ y.do = "emit" /\ WritesRoot(y, "active") /\ WritesRoot(y, "current")
    BY FocusEmits
  <2>2. focus' = c /\ Continue(<<x>> \o <<y>> \o Rest, FALSE)
    BY <1>3, <1>9 DEF DoFocus
  <2>3. <<x>> \o <<y>> \in Seq(AStep) /\ ToSet(<<x>> \o <<y>>) = {x, y}
    <3>1. <<y>> \in Seq(AStep) /\ ToSet(<<y>>) = {y}
      BY <2>1, OneStep
    <3>2. <<x>> \o <<y>> \in Seq(AStep) /\ ToSet(<<x>> \o <<y>>) = ToSet(<<x>>) \cup ToSet(<<y>>)
      BY <1>6, <3>1, ConcatSteps
    <3> QED BY <1>6, <3>1, <3>2
  <2>4. Turns({Step}, {x, y})
    <3>1. Turns({Step}, ToSet(<<x>> \o <<y>>))
      BY <1>1, <1>2, <2>2, <2>3, StepBecomes
    <3> QED BY <2>3, <3>1
  <2>5. Quiet({Step}, {x, y})
    <3>1. \A s \in {x, y} : s.do \in {"set", "emit"}
      BY <1>6, <2>1
    <3> QED BY <1>3, <1>4, <1>7, <2>1, <2>2, <3>1 DEF Quiet
  <2> QED BY <2>4, <2>5, QuietStep
<1> QED BY <1>5, <1>8, <1>9

LEMMA ListedIs == ASSUME EwmhTypeInv PROVE \A c \in ToSet(list) : c \in EwmhClient
  BY LenProperties, ElementOfSeq DEF EwmhTypeInv, ToSet

LEMMA AtomsAre == \A c : StateAtoms(c) \in SUBSET Atom
<1>1. "maximized_horizontal" \in Atom /\ "maximized_vertical" \in Atom
  BY DEF Atom, StateFlag, Maximized
<1> QED BY <1>1 DEF StateAtoms

\* C code writes the properties that a signal is connected to.
LEMMA DoRefreshKeeps == ASSUME EwmhIInv, DoRefresh PROVE EwmhIInv'
<1>1. EwmhTypeInv /\ FocusInv
  BY DEF EwmhIInv
<1>2. doing # <<>> /\ Top.todo # <<>> /\ Step.do = "refresh" /\ Step \in EmitStep
  BY <1>1, DoingIs, KindsOfSteps DEF DoRefresh
<1> PICK told : told = Connected(Step.signal)
  OBVIOUS
<1> PICK c \in EwmhClient \cup {NoHint} : c = Step.client
  BY <1>2 DEF EmitStep
<1>3. UNCHANGED <<list, state, desktops, selected, tagged, focus, netDesktop>>
  BY DEF DoRefresh, Same
<1>4. /\ root' = [p \in DOMAIN root |-> IF p \in told THEN RootHints[p] ELSE root[p]]
      /\ netState' = IF "state" \in told THEN [netState EXCEPT ![c] = StateAtoms(c)] ELSE netState
      /\ untold' = untold \ ({<<"root", p>> : p \in told} \cup
                             (IF "state" \in told THEN {<<c, "state">>} ELSE {}))
  BY DEF DoRefresh
<1>5. Turns({Step}, {})
  BY <1>1, <1>2, StepIsDone DEF DoRefresh
<1>6. /\ netState' \in [EwmhClient -> SUBSET Atom]
      /\ \A d \in EwmhClient : netState'[d] = IF "state" \in told /\ d = c THEN StateAtoms(d) ELSE netState[d]
  <2>1. netState \in [EwmhClient -> SUBSET Atom] /\ StateAtoms(c) \in SUBSET Atom
    BY <1>1, AtomsAre DEF EwmhTypeInv
  <2> QED BY <1>4, <2>1
<1>7. EwmhTypeInv'
  <2>1. DOMAIN root' = RootName
    BY <1>1, <1>4 DEF EwmhTypeInv
  <2> QED BY <1>1, <1>3, <1>5, <1>6, <2>1 DEF EwmhTypeInv, Turns
<1>8. FocusInv'
  <2>1. focus' # NoHint => Here(focus')
    BY <1>1, <1>3 DEF FocusInv
  <2> QED BY <1>1, <1>3, <1>5, <1>7, <2>1, FocusStays
<1>9. ASSUME NEW p \in RootName PROVE RootTold(p)'
  <2>1. CurrentDesktop' = CurrentDesktop
    BY <1>3, CurrentSame
  <2>2. RootHints'[p] = RootHints[p]
    BY <1>3, <2>1, RootHintsAre DEF RootName
  <2>3. root'[p] = IF p \in told THEN RootHints[p] ELSE root[p]
    BY <1>1, <1>4 DEF EwmhTypeInv
  <2>4. CASE p \in told
    BY <2>2, <2>3, <2>4 DEF RootTold
  <2>5. CASE p \notin told
    <3>1. ~WritesRoot(Step, p)
      BY <1>2, <2>5 DEF WritesRoot
    <3>2. <<"root", p>> \in untold => <<"root", p>> \in untold'
      <4>1. p # "state"
        BY DEF RootName
      <4> QED BY <1>4, <2>5, <4>1
    <3>3. RootTold(p) /\ root'[p] = root[p]
      BY <2>3, <2>5 DEF EwmhIInv
    <3> QED BY <1>5, <2>2, <3>1, <3>2, <3>3, RootStays
  <2> QED BY <2>4, <2>5
<1>10. ASSUME NEW d \in ToSet(list') PROVE StateTold(d)' /\ DesktopTold(d)'
  <2>1. d \in EwmhClient /\ d # "root" /\ StateTold(d) /\ DesktopTold(d)
    BY <1>1, <1>3, ListedIs, EwmhAssumption DEF EwmhIInv
  <2>2. StateAtoms(d)' = StateAtoms(d) /\ \A s : WritesState(s, d)' <=> WritesState(s, d)
    BY <1>3, StateSame
  <2>3. StateTold(d)'
    <3>1. CASE "state" \in told /\ d = c
      BY <1>6, <2>1, <2>2, <3>1 DEF StateTold
    <3>2. CASE ~("state" \in told /\ d = c)
      <4>1. ~WritesState(Step, d)
        BY <1>2, <3>2 DEF WritesState
      <4>2. netState'[d] = netState[d]
        BY <1>6, <2>1, <3>2
      <4>3. <<d, "state">> \in untold => <<d, "state">> \in untold'
        BY <1>4, <2>1, <3>2
      <4> QED BY <1>5, <2>1, <2>2, <4>1, <4>2, <4>3, StateStays
    <3> QED BY <3>1, <3>2
  <2>4. DesktopOf(d)' = DesktopOf(d)
    BY <1>3, DesktopSame
  <2>5. <<d, "desktop">> \in untold => <<d, "desktop">> \in untold'
    BY <1>4, <2>1
  <2> QED BY <1>3, <2>1, <2>3, <2>4, <2>5 DEF DesktopTold
<1> QED BY <1>7, <1>8, <1>9, <1>10 DEF EwmhIInv

LEMMA DoNumbersKeeps == ASSUME EwmhIInv, DoNumbers PROVE EwmhIInv'
<1>1. EwmhTypeInv /\ FocusInv
  BY DEF EwmhIInv
<1>2. doing # <<>> /\ Top.todo # <<>> /\ Step.do = "numbers"
  BY <1>1, DoingIs DEF DoNumbers
<1>3. /\ UNCHANGED <<list, state, desktops, selected, tagged, focus, netDesktop, netState, untold>>
      /\ root' = [root EXCEPT !.number = Len(desktops)]
  BY DEF DoNumbers, Same
<1>4. Turns({Step}, {})
  BY <1>1, <1>2, StepIsDone DEF DoNumbers
<1>5. EwmhTypeInv'
  <2>1. DOMAIN root' = RootName
    BY <1>1, <1>3 DEF EwmhTypeInv
  <2> QED BY <1>1, <1>3, <1>4, <2>1 DEF EwmhTypeInv, Turns
<1>6. FocusInv'
  <2>1. focus' # NoHint => Here(focus')
    BY <1>1, <1>3 DEF FocusInv
  <2> QED BY <1>1, <1>3, <1>4, <1>5, <2>1, FocusStays
<1>7. ASSUME NEW p \in RootName PROVE RootTold(p)'
  <2>1. CurrentDesktop' = CurrentDesktop
    BY <1>3, CurrentSame
  <2>2. RootHints'[p] = RootHints[p]
    BY <1>3, <2>1, RootHintsAre DEF RootName
  <2>3. CASE p = "number"
    <3>1. root'[p] = Len(desktops) /\ RootHints'[p] = Len(desktops)
      BY <1>1, <1>3, <2>3, RootHintsAre DEF EwmhTypeInv, RootName
    <3> QED BY <3>1 DEF RootTold
  <2>4. CASE p # "number"
    <3>1. root'[p] = root[p] /\ RootTold(p)
      BY <1>1, <1>3, <2>4 DEF EwmhTypeInv, EwmhIInv
    <3>2. ~WritesRoot(Step, p)
      BY <1>2, <2>4 DEF WritesRoot
    <3>3. <<"root", p>> \in untold => <<"root", p>> \in untold'
      BY <1>3
    <3> QED BY <1>4, <2>2, <3>1, <3>2, <3>3, RootStays
  <2> QED BY <2>3, <2>4
<1>8. ASSUME NEW d \in ToSet(list') PROVE StateTold(d)' /\ DesktopTold(d)'
  <2>1. StateTold(d) /\ DesktopTold(d)
    BY <1>3 DEF EwmhIInv
  <2>2. StateAtoms(d)' = StateAtoms(d) /\ \A s : WritesState(s, d)' <=> WritesState(s, d)
    BY <1>3, StateSame
  <2>3. ~WritesState(Step, d)
    BY <1>2 DEF WritesState
  <2>4. StateTold(d)'
    <3>1. <<d, "state">> \in untold => <<d, "state">> \in untold'
      BY <1>3
    <3>2. netState'[d] = netState[d]
      BY <1>3
    <3> QED BY <1>4, <2>1, <2>2, <2>3, <3>1, <3>2, StateStays
  <2>5. DesktopOf(d)' = DesktopOf(d)
    BY <1>3, DesktopSame
  <2> QED BY <1>3, <2>1, <2>4, <2>5 DEF DesktopTold
<1> QED BY <1>5, <1>6, <1>7, <1>8 DEF EwmhIInv

\* No property of the root window is written, and those in S tell something else now.
OthersStay(gone, new, S) ==
    /\ root' = root
    /\ \A p \in RootName : <<"root", p>> \in untold => <<"root", p>> \in untold'
    /\ \A p \in RootName \ S : RootHints'[p] = RootHints[p]
    /\ \A p \in RootName \cap S : <<"root", p>> \in untold' \/ \E s \in new : WritesRoot(s, p)
    /\ \A g \in gone : \A p \in RootName \ S : WritesRoot(g, p) => \E s \in new : WritesRoot(s, p)

LEMMA RootFollows ==
    ASSUME EwmhIInv, NEW gone, NEW new, NEW S, Turns(gone, new), OthersStay(gone, new, S)
    PROVE  \A p \in RootName : RootTold(p)'
<1> SUFFICES ASSUME NEW p \in RootName PROVE RootTold(p)'
  OBVIOUS
<1>1. CASE p \in S
  <2>1. CASE <<"root", p>> \in untold'
    BY <2>1 DEF RootTold
  <2>2. CASE \E s \in new : WritesRoot(s, p)
    BY <2>2, RootWillBe
  <2> QED BY <1>1, <2>1, <2>2 DEF OthersStay
<1>2. CASE p \notin S
  <2>1. RootTold(p) /\ root'[p] = root[p] /\ RootHints'[p] = RootHints[p]
    BY <1>2 DEF OthersStay, EwmhIInv
  <2>2. <<"root", p>> \in untold => <<"root", p>> \in untold'
    BY DEF OthersStay
  <2>3. \A g \in gone : WritesRoot(g, p) => \E s \in new : WritesRoot(s, p)
    BY <1>2 DEF OthersStay
  <2> QED BY <2>1, <2>2, <2>3, RootStays
<1> QED BY <1>1, <1>2

\* A client whose state and _NET_WM_STATE stay.
LEMMA StateFollows ==
    ASSUME EwmhIInv, NEW gone, NEW new, Turns(gone, new), NEW c \in ToSet(list),
           \A g \in gone : ~WritesState(g, c), state'[c] = state[c], netState'[c] = netState[c],
           <<c, "state">> \in untold => <<c, "state">> \in untold'
    PROVE  StateTold(c)'
<1>1. StateTold(c)
  BY DEF EwmhIInv
<1>2. StateAtoms(c)' = StateAtoms(c) /\ \A s : WritesState(s, c)' <=> WritesState(s, c)
  BY StateSame
<1> QED BY <1>1, <1>2, StateStays

LEMMA PendingIsTyped == ASSUME EwmhTypeInv PROVE \A s \in Pending : s \in AStep
<1> SUFFICES ASSUME NEW i \in 1..Len(doing), NEW s \in ToSet(doing[i].todo) PROVE s \in AStep
  BY DEF Pending, PendingIn
<1>1. doing[i] \in AFunction
  BY ElementOfSeq DEF EwmhTypeInv
<1>2. doing[i].todo \in Seq(AStep)
  BY <1>1 DEF AFunction
<1> QED BY <1>2, LenProperties, ElementOfSeq DEF ToSet

LEMMA DoAssignKeeps == ASSUME EwmhIInv, DoAssign PROVE EwmhIInv'
<1>1. EwmhTypeInv /\ FocusInv
  BY DEF EwmhIInv
<1>2. doing # <<>> /\ Top.todo # <<>> /\ Step.do = "assign" /\ Step \in AssignStep
  BY <1>1, DoingIs, KindsOfSteps DEF DoAssign
<1> PICK c \in EwmhClient : c = Step.client
  BY <1>2 DEF AssignStep
<1> PICK flag \in StateFlag \ Maximized : flag = Step.flag
  BY <1>2 DEF AssignStep
<1> PICK x : x = Emits(flag, c)
  OBVIOUS
<1>3. /\ UNCHANGED <<list, desktops, selected, tagged, focus, root, netState>>
      /\ state' = [state EXCEPT ![c] = FlagSet(@, flag, Step.value)]
      /\ IF flag = "sticky" THEN DesktopUpdated(c) ELSE netDesktop' = netDesktop
      /\ untold' = IF flag = "sticky" THEN untold \ {<<c, "desktop">>} ELSE untold
      /\ Continue(<<x>> \o Rest, FALSE)
  BY DEF DoAssign
<1>4. x \in AStep /\ x.do = "emit" /\ x.client = c /\ x.signal = flag
  <2>1. flag \in Signal
    BY DEF Signal
  <2> QED BY <2>1, StepsOf DEF Emits
<1>5. Turns({Step}, {x})
  <2>1. <<x>> \in Seq(AStep) /\ ToSet(<<x>>) = {x}
    BY <1>4, OneStep
  <2>2. Turns({Step}, ToSet(<<x>>))
    BY <1>1, <1>2, <1>3, <2>1, StepBecomes
  <2> QED BY <2>1, <2>2
<1>6. /\ state' \in [EwmhClient -> SUBSET StateFlag] /\ state'[c] = FlagSet(state[c], flag, Step.value)
      /\ \A d \in EwmhClient : d # c => state'[d] = state[d]
  BY <1>1, <1>3 DEF EwmhTypeInv, FlagSet
<1>7. EwmhTypeInv'
  <2>1. DOMAIN netDesktop' = EwmhClient
    BY <1>1, <1>3 DEF EwmhTypeInv, DesktopUpdated
  <2> QED BY <1>1, <1>3, <1>5, <1>6, <2>1 DEF EwmhTypeInv, Turns
<1>8. FocusInv'
  <2>1. focus' # NoHint => Here(focus')
    BY <1>1, <1>3 DEF FocusInv
  <2>2. \A s \in {x} : s.do = "emit"
    BY <1>4
  <2> QED BY <1>1, <1>3, <1>5, <1>7, <2>1, <2>2, FocusStays
<1>9. \A d : ~WritesState(Step, d)
  BY <1>2, Silent
<1>10. \A p \in RootName : RootTold(p)'
  <2>1. CurrentDesktop' = CurrentDesktop
    BY <1>3, CurrentSame
  <2>2. \A p \in RootName : RootHints'[p] = RootHints[p]
    BY <1>3, <2>1, RootHintsAre DEF RootName
  <2>3. \A p \in RootName : <<"root", p>> \in untold => <<"root", p>> \in untold'
    <3>1. \A p \in RootName : <<"root", p>> # <<c, "desktop">>
      BY DEF RootName
    <3> QED BY <1>3, <3>1
  <2>4. \A p : ~WritesRoot(Step, p)
    BY <1>2, Silent
  <2>5. OthersStay({Step}, {x}, {})
    BY <1>3, <2>2, <2>3, <2>4 DEF OthersStay
  <2> QED BY <1>5, <2>5, RootFollows
<1>11. ASSUME NEW d \in ToSet(list) PROVE StateTold(d)'
  <2>1. d \in EwmhClient /\ netState'[d] = netState[d]
    BY <1>1, <1>3, ListedIs
  <2>2. <<d, "state">> \in untold => <<d, "state">> \in untold'
    BY <1>3
  <2>3. CASE d # c
    <3>1. state'[d] = state[d]
      BY <1>6, <2>1, <2>3
    <3>2. \A g \in {Step} : ~WritesState(g, d)
      BY <1>9
    <3> QED BY <1>5, <2>1, <2>2, <3>1, <3>2, StateFollows
  <2>4. CASE d = c /\ flag \in Atom
    <3>1. "state" \in Connected(flag)
      BY <2>4, ConnectedIs
    <3>2. WritesState(x, d)'
      BY <1>4, <2>4, <3>1 DEF WritesState
    <3> QED BY <1>5, <3>2, StateWillBe
  <2>5. CASE d = c /\ flag \notin Atom
    <3>1. \A f \in Atom \cup Maximized : f \in state'[c] <=> f \in state[c]
      BY <1>6, <2>5 DEF FlagSet
    <3>2. StateAtoms(d)' = StateAtoms(d)
      <4>1. "maximized" \in Maximized
        BY DEF Maximized
      <4>2. state'[c] \cap Atom = state[c] \cap Atom /\ ("maximized" \in state'[c] <=> "maximized" \in state[c])
        BY <3>1, <4>1
      <4> QED BY <2>5, <4>2 DEF StateAtoms
    <3>3. ASSUME NEW s \in Pending, WritesState(s, d) PROVE WritesState(s, d)'
      <4>1. CASE s.do = "emitIf"
        <5>1. s.flag \in Maximized
          BY <1>1, <4>1, PendingIsTyped, KindsOfSteps DEF EmitIfStep
        <5> QED BY <2>5, <3>1, <3>3, <4>1, <5>1 DEF WritesState
      <4>2. CASE s.do # "emitIf"
        BY <3>3, <4>2 DEF WritesState
      <4> QED BY <4>1, <4>2
    <3>4. StateTold(d) /\ \A g \in {Step} : WritesState(g, d) => \E s \in {x} : WritesState(s, d)'
      BY <1>9 DEF EwmhIInv
    <3> QED BY <1>5, <2>1, <2>2, <3>2, <3>3, <3>4, StateStays
  <2> QED BY <2>3, <2>4, <2>5
<1>12. ASSUME NEW d \in ToSet(list) PROVE DesktopTold(d)'
  <2>1. d \in EwmhClient /\ DesktopTold(d)
    BY <1>1, ListedIs DEF EwmhIInv
  <2>2. CASE flag = "sticky" /\ d = c
    BY <1>3, <2>1, <2>2 DEF DesktopUpdated, DesktopTold
  <2>3. CASE ~(flag = "sticky" /\ d = c)
    <3>1. "sticky" \in state'[d] <=> "sticky" \in state[d]
      BY <1>6, <2>1, <2>3 DEF FlagSet
    <3>2. DesktopOf(d)' = DesktopOf(d)
      BY <1>3, <3>1, DesktopSame
    <3>3. netDesktop'[d] = netDesktop[d]
      BY <1>3, <2>1, <2>3 DEF DesktopUpdated
    <3>4. <<d, "desktop">> \in untold => <<d, "desktop">> \in untold'
      BY <1>3, <2>3
    <3> QED BY <2>1, <3>2, <3>3, <3>4 DEF DesktopTold
  <2> QED BY <2>2, <2>3
<1> QED BY <1>3, <1>7, <1>8, <1>10, <1>11, <1>12 DEF EwmhIInv

LEMMA FourSteps ==
    ASSUME NEW x \in AStep, NEW y \in AStep, NEW z \in AStep, NEW w \in AStep
    PROVE  <<x, y, z, w>> \in Seq(AStep) /\ ToSet(<<x, y, z, w>>) = {x, y, z, w}
<1> PICK t : t = <<x, y, z, w>>
  OBVIOUS
<1>1. t \in Seq(AStep) /\ DOMAIN t = {1, 2, 3, 4} /\ t[1] = x /\ t[2] = y /\ t[3] = z /\ t[4] = w
  OBVIOUS
<1> QED BY <1>1 DEF ToSet

\* Maximizing: what has changed is signalled.
LEMMA DoSetMaximizedKeeps == ASSUME EwmhIInv, DoSetMaximized PROVE EwmhIInv'
<1>1. EwmhTypeInv /\ FocusInv
  BY DEF EwmhIInv
<1>2. doing # <<>> /\ Top.todo # <<>> /\ Step.do = "set" /\ Step \in SetStep /\ Step.flag \in Maximized
  BY <1>1, DoingIs, KindsOfSteps DEF DoSetMaximized
<1> PICK c \in EwmhClient : c = Step.client
  BY <1>2 DEF SetStep
<1> PICK flag \in Maximized : flag = Step.flag
  BY <1>2
<1> PICK e : e = [f \in Maximized |-> EmitIf(f, c, f \in state[c])]
  OBVIOUS
<1> DEFINE all == <<Handlers, e["maximized_horizontal"], e["maximized_vertical"], e["maximized"]>>
           all4 == {Handlers, e["maximized_horizontal"], e["maximized_vertical"], e["maximized"]}
<1>3. /\ UNCHANGED <<list, desktops, selected, tagged, focus, root, netState, netDesktop, untold>>
      /\ state' = [state EXCEPT ![c] = FlagSet(@, flag, Step.value)]
      /\ Continue((IF state' = state THEN <<>> ELSE all) \o Rest, FALSE)
  <2>1. /\ e["maximized_horizontal"] = EmitIf("maximized_horizontal", c, "maximized_horizontal" \in state[c])
        /\ e["maximized_vertical"] = EmitIf("maximized_vertical", c, "maximized_vertical" \in state[c])
        /\ e["maximized"] = EmitIf("maximized", c, "maximized" \in state[c])
    BY DEF Maximized
  <2> QED BY <2>1 DEF DoSetMaximized
<1>4. /\ state' \in [EwmhClient -> SUBSET StateFlag] /\ state'[c] = FlagSet(state[c], flag, Step.value)
      /\ \A d \in EwmhClient : d # c => state'[d] = state[d]
  BY <1>1, <1>3 DEF EwmhTypeInv, FlagSet, StateFlag
<1>5. (\A p : ~WritesRoot(Step, p)) /\ (\A d : ~WritesState(Step, d))
  BY <1>2, Silent
<1>6. /\ all \in Seq(AStep) /\ ToSet(all) = all4 /\ e[flag] \in all4
      /\ \A s \in all4 : s.do \in {"handlers", "emitIf"}
  <2>1. \A f \in Maximized : e[f] \in AStep /\ e[f].do = "emitIf"
    <3> SUFFICES ASSUME NEW f \in Maximized PROVE e[f] \in AStep /\ e[f].do = "emitIf"
      OBVIOUS
    <3>1. (f \in state[c]) \in BOOLEAN
      OBVIOUS
    <3> PICK b \in BOOLEAN : b = (f \in state[c])
      BY <3>1
    <3>2. e[f] = EmitIf(f, c, b)
      OBVIOUS
    <3>3. EmitIf(f, c, b) \in AStep
      BY StepsOf
    <3>4. EmitIf(f, c, b).do = "emitIf"
      BY DEF EmitIf
    <3> QED BY <3>2, <3>3, <3>4
  <2>2. Handlers \in AStep /\ Handlers.do = "handlers"
    BY StepsOf DEF Handlers
  <2>3. Maximized = {"maximized_horizontal", "maximized_vertical", "maximized"}
    BY DEF Maximized
  <2>4. all \in Seq(AStep) /\ ToSet(all) = all4
    BY <2>1, <2>2, <2>3, FourSteps
  <2> QED BY <2>1, <2>2, <2>3, <2>4
<1> PICK new : new = IF state' = state THEN {} ELSE all4
  OBVIOUS
<1> HIDE DEF all, all4
<1>7. Turns({Step}, new)
  <2> PICK t : t = IF state' = state THEN <<>> ELSE all
    OBVIOUS
  <2>1. t \in Seq(AStep) /\ ToSet(t) = new
    BY <1>6, NoStep
  <2>2. Continue(t \o Rest, FALSE)
    BY <1>3
  <2>3. Turns({Step}, ToSet(t))
    BY <1>1, <1>2, <2>1, <2>2, StepBecomes
  <2> QED BY <2>1, <2>3
<1>8. EwmhTypeInv'
  BY <1>1, <1>3, <1>4, <1>7 DEF EwmhTypeInv, Turns
<1>9. FocusInv'
  <2>1. focus' # NoHint => Here(focus')
    BY <1>1, <1>3 DEF FocusInv
  <2>2. \A s \in new : s.do \in {"handlers", "emitIf"}
    BY <1>6
  <2> QED BY <1>1, <1>3, <1>7, <1>8, <2>1, <2>2, FocusStays
<1>10. \A p \in RootName : RootTold(p)'
  <2>1. CurrentDesktop' = CurrentDesktop
    BY <1>3, CurrentSame
  <2>2. \A p \in RootName : RootHints'[p] = RootHints[p]
    BY <1>3, <2>1, RootHintsAre DEF RootName
  <2>3. OthersStay({Step}, new, {})
    BY <1>3, <1>5, <2>2 DEF OthersStay
  <2> QED BY <1>7, <2>3, RootFollows
<1>11. ASSUME NEW d \in ToSet(list) PROVE StateTold(d)'
  <2>1. d \in EwmhClient /\ netState'[d] = netState[d]
    BY <1>1, <1>3, ListedIs
  <2>2. <<d, "state">> \in untold => <<d, "state">> \in untold'
    BY <1>3
  <2>3. CASE state'[d] = state[d]
    <3>1. \A g \in {Step} : ~WritesState(g, d)
      BY <1>5
    <3> QED BY <1>7, <2>1, <2>2, <2>3, <3>1, StateFollows
  <2>4. CASE state'[d] # state[d]
    <3>1. d = c
      BY <1>4, <2>1, <2>4
    <3>2. flag \in state'[c] <=> flag \notin state[c]
      BY <1>4, <2>4, <3>1 DEF FlagSet
    <3>3. WritesState(e[flag], d)'
      <4>1. e[flag] = EmitIf(flag, c, flag \in state[c])
        OBVIOUS
      <4>2. /\ e[flag].do = "emitIf" /\ e[flag].client = c /\ e[flag].flag = flag
            /\ e[flag].before <=> flag \in state[c]
        BY <4>1 DEF EmitIf
      <4> QED BY <3>1, <3>2, <4>2 DEF WritesState
    <3>4. e[flag] \in new
      BY <1>6, <2>4
    <3> QED BY <1>7, <3>3, <3>4, StateWillBe
  <2> QED BY <2>3, <2>4
<1>12. ASSUME NEW d \in ToSet(list) PROVE DesktopTold(d)'
  <2>1. d \in EwmhClient /\ DesktopTold(d)
    BY <1>1, ListedIs DEF EwmhIInv
  <2>2. "sticky" \in state'[d] <=> "sticky" \in state[d]
    BY <1>4, <2>1 DEF FlagSet, Maximized
  <2>3. DesktopOf(d)' = DesktopOf(d)
    BY <1>3, <2>2, DesktopSame
  <2> QED BY <1>3, <2>1, <2>3 DEF DesktopTold
<1> QED BY <1>3, <1>8, <1>9, <1>10, <1>11, <1>12 DEF EwmhIInv

\* Signals that make C code write the current desktop.
LEMMA CurrentEmits ==
    \A g \in {"tagged", "untagged", "property::selected"}, c \in EwmhClient \cup {NoHint} :
        Emits(g, c) \in AStep /\ Emits(g, c).do = "emit" /\ WritesRoot(Emits(g, c), "current")
<1> SUFFICES ASSUME NEW g \in {"tagged", "untagged", "property::selected"}, NEW c \in EwmhClient \cup {NoHint}
             PROVE  Emits(g, c) \in AStep /\ Emits(g, c).do = "emit" /\ WritesRoot(Emits(g, c), "current")
  OBVIOUS
<1>1. Connected(g) = {"current"} /\ g \in Signal
  BY ConnectedIs DEF Signal
<1>2. Emits(g, c) \in AStep /\ Emits(g, c).do = "emit" /\ Emits(g, c).signal = g
  BY <1>1, StepsOf DEF Emits
<1> QED BY <1>1, <1>2 DEF WritesRoot

LEMMA TagViewKeeps == ASSUME EwmhIInv, NEW t \in Desktop, TagView(t) PROVE EwmhIInv'
<1>1. EwmhTypeInv /\ FocusInv
  BY DEF EwmhIInv
<1> PICK x : x = Emits("property::selected", NoHint)
  OBVIOUS
<1>2. x \in AStep /\ x.do = "emit" /\ WritesRoot(x, "current")
  BY CurrentEmits
<1>3. /\ UNCHANGED <<list, focus, state, desktops, tagged, root, netState, netDesktop, untold>>
      /\ selected' = FlagSet(selected, t, t \notin selected) /\ Calls(<<x>>)
  BY DEF TagView
<1>4. Turns({}, {x})
  <2>1. <<x>> \in Seq(AStep) /\ ToSet(<<x>>) = {x}
    BY <1>2, OneStep
  <2>2. Turns({}, ToSet(<<x>>))
    BY <1>1, <1>3, <2>1, CallBegins
  <2> QED BY <2>1, <2>2
<1>5. EwmhTypeInv'
  <2>1. selected' \subseteq Desktop
    BY <1>1, <1>3 DEF EwmhTypeInv, FlagSet
  <2> QED BY <1>1, <1>3, <1>4, <2>1 DEF EwmhTypeInv, Turns
<1>6. FocusInv'
  <2>1. focus' # NoHint => Here(focus')
    BY <1>1, <1>3 DEF FocusInv
  <2>2. \A s \in {x} : s.do = "emit"
    BY <1>2
  <2> QED BY <1>1, <1>3, <1>4, <1>5, <2>1, <2>2, FocusStays
<1>7. \A p \in RootName : RootTold(p)'
  <2>1. \A p \in RootName \ {"current"} : RootHints'[p] = RootHints[p]
    BY <1>3, RootHintsAre DEF RootName
  <2>2. OthersStay({}, {x}, {"current"})
    BY <1>2, <1>3, <2>1 DEF OthersStay
  <2> QED BY <1>4, <2>2, RootFollows
<1>8. ASSUME NEW d \in ToSet(list) PROVE StateTold(d)' /\ DesktopTold(d)'
  <2>1. StateTold(d)'
    <3>1. <<d, "state">> \in untold => <<d, "state">> \in untold'
      BY <1>3
    <3>2. state'[d] = state[d] /\ netState'[d] = netState[d]
      BY <1>3
    <3> QED BY <1>4, <3>1, <3>2, StateFollows
  <2>2. DesktopOf(d)' = DesktopOf(d)
    BY <1>3, DesktopSame
  <2>3. DesktopTold(d)
    BY DEF EwmhIInv
  <2> QED BY <1>3, <2>1, <2>2, <2>3 DEF DesktopTold
<1> QED BY <1>3, <1>5, <1>6, <1>7, <1>8 DEF EwmhIInv

LEMMA TagClientKeeps ==
    ASSUME EwmhIInv, NEW c \in EwmhClient, NEW t \in Desktop, TagClient(c, t) PROVE EwmhIInv'
<1>1. EwmhTypeInv /\ FocusInv
  BY DEF EwmhIInv
<1> PICK x : x = Emits(IF t \in tagged[c] THEN "untagged" ELSE "tagged", c)
  OBVIOUS
<1> PICK y : y = Handlers
  OBVIOUS
<1>2. x \in AStep /\ x.do = "emit" /\ WritesRoot(x, "current") /\ y \in AStep /\ y.do = "handlers"
  BY CurrentEmits, StepsOf DEF Handlers
<1>3. /\ UNCHANGED <<list, focus, state, desktops, selected, root, netState>>
      /\ tagged' = [tagged EXCEPT ![c] = FlagSet(@, t, t \notin @)]
      /\ DesktopUpdated(c) /\ untold' = untold \ {<<c, "desktop">>} /\ Calls(<<x, y>>)
  BY DEF TagClient
<1>4. Turns({}, {x, y})
  <2>1. <<x, y>> \in Seq(AStep) /\ ToSet(<<x, y>>) = {x, y}
    BY <1>2, TwoSteps
  <2>2. Turns({}, ToSet(<<x, y>>))
    BY <1>1, <1>3, <2>1, CallBegins
  <2> QED BY <2>1, <2>2
<1>5. tagged' \in [EwmhClient -> SUBSET Desktop] /\ \A d \in EwmhClient : d # c => tagged'[d] = tagged[d]
  BY <1>1, <1>3 DEF EwmhTypeInv, FlagSet
<1>6. EwmhTypeInv'
  <2>1. DOMAIN netDesktop' = EwmhClient
    BY <1>3 DEF DesktopUpdated
  <2> QED BY <1>1, <1>3, <1>4, <1>5, <2>1 DEF EwmhTypeInv, Turns
<1>7. FocusInv'
  <2>1. focus' # NoHint => Here(focus')
    BY <1>1, <1>3 DEF FocusInv
  <2>2. \A s \in {x, y} : s.do \in {"emit", "handlers"}
    BY <1>2
  <2> QED BY <1>1, <1>3, <1>4, <1>6, <2>1, <2>2, FocusStays
<1>8. \A p \in RootName : RootTold(p)'
  <2>1. \A p \in RootName \ {"current"} : RootHints'[p] = RootHints[p]
    BY <1>3, RootHintsAre DEF RootName
  <2>2. \A p \in RootName : <<"root", p>> \in untold => <<"root", p>> \in untold'
    <3>1. \A p \in RootName : <<"root", p>> # <<c, "desktop">>
      BY DEF RootName
    <3> QED BY <1>3, <3>1
  <2>3. OthersStay({}, {x, y}, {"current"})
    BY <1>2, <1>3, <2>1, <2>2 DEF OthersStay
  <2> QED BY <1>4, <2>3, RootFollows
<1>9. ASSUME NEW d \in ToSet(list) PROVE StateTold(d)' /\ DesktopTold(d)'
  <2>1. d \in EwmhClient /\ DesktopTold(d)
    BY <1>1, ListedIs DEF EwmhIInv
  <2>2. StateTold(d)'
    <3>1. <<d, "state">> \in untold => <<d, "state">> \in untold'
      BY <1>3
    <3> QED BY <1>3, <1>4, <3>1, StateFollows
  <2>3. CASE d = c
    BY <1>3, <2>1, <2>2, <2>3 DEF DesktopUpdated, DesktopTold
  <2>4. CASE d # c
    <3>1. DesktopOf(d)' = DesktopOf(d)
      BY <1>3, <1>5, <2>1, <2>4, DesktopSame
    <3>2. netDesktop'[d] = netDesktop[d]
      BY <1>3, <2>1, <2>4 DEF DesktopUpdated
    <3>3. <<d, "desktop">> \in untold => <<d, "desktop">> \in untold'
      BY <1>3, <2>4
    <3> QED BY <2>1, <2>2, <3>1, <3>2, <3>3 DEF DesktopTold
  <2> QED BY <2>3, <2>4
<1> QED BY <1>3, <1>6, <1>7, <1>8, <1>9 DEF EwmhIInv

\* Tags that come and go: what is not written for it is untold.
LEMMA OverlooksKeeps ==
    ASSUME EwmhIInv, Overlooks, NEW new, Turns({}, new), EwmhTypeInv',
           UNCHANGED <<list, focus, state, tagged, root, netState, netDesktop>>,
           \A s \in new : s.do \in {"emit", "numbers", "handlers"},
           \E s \in new : WritesRoot(s, "number")
    PROVE  EwmhIInv'
<1>1. EwmhTypeInv /\ FocusInv
  BY DEF EwmhIInv
<1>2. FocusInv'
  <2>1. focus' # NoHint => Here(focus')
    BY <1>1 DEF FocusInv
  <2> QED BY <1>1, <2>1, FocusStays
<1>3. untold \subseteq untold'
  BY DEF Overlooks
<1>4. \A p \in RootName : RootTold(p)'
  <2>1. CASE CurrentDesktop = CurrentDesktop'
    <3>1. \A p \in RootName \ {"number"} : RootHints'[p] = RootHints[p]
      BY <2>1, RootHintsAre DEF RootName
    <3>2. OthersStay({}, new, {"number"})
      BY <1>3, <3>1 DEF OthersStay
    <3> QED BY <3>2, RootFollows
  <2>2. CASE CurrentDesktop # CurrentDesktop'
    <3>1. \A p \in RootName \ {"number", "current"} : RootHints'[p] = RootHints[p]
      BY RootHintsAre DEF RootName
    <3>2. <<"root", "current">> \in untold'
      BY <2>2 DEF Overlooks
    <3>3. OthersStay({}, new, {"number", "current"})
      BY <1>3, <3>1, <3>2 DEF OthersStay
    <3> QED BY <3>3, RootFollows
  <2> QED BY <2>1, <2>2
<1>5. ASSUME NEW d \in ToSet(list) PROVE StateTold(d)' /\ DesktopTold(d)'
  <2>1. StateTold(d)'
    <3>1. <<d, "state">> \in untold => <<d, "state">> \in untold'
      BY <1>3
    <3>2. state'[d] = state[d] /\ netState'[d] = netState[d]
      OBVIOUS
    <3> QED BY <3>1, <3>2, StateFollows
  <2>2. DesktopTold(d)
    BY DEF EwmhIInv
  <2>3. CASE DesktopOf(d) = DesktopOf(d)'
    BY <1>3, <2>1, <2>2, <2>3 DEF DesktopTold
  <2>4. CASE DesktopOf(d) # DesktopOf(d)'
    BY <2>1, <2>4 DEF DesktopTold, Overlooks
  <2> QED BY <2>3, <2>4
<1> QED BY <1>2, <1>4, <1>5 DEF EwmhIInv

LEMMA NumbersIs == Numbers \in AStep /\ Numbers.do = "numbers" /\ WritesRoot(Numbers, "number")
  BY StepsOf DEF Numbers, WritesRoot

LEMMA AppendNew ==
    ASSUME NEW S, NEW s \in Seq(S), IsInjective(s), NEW e \in S, e \notin ToSet(s)
    PROVE  Append(s, e) \in Seq(S) /\ IsInjective(Append(s, e))
<1> PICK u : u = Append(s, e)
  OBVIOUS
<1>1. u \in Seq(S) /\ Len(u) = Len(s) + 1 /\ u[Len(s) + 1] = e /\ \A i \in 1..Len(s) : u[i] = s[i]
  BY AppendProperties
<1>2. DOMAIN u = 1..Len(s) + 1 /\ DOMAIN s = 1..Len(s) /\ Len(s) \in Nat
  BY <1>1, LenProperties
<1>3. \A i \in 1..Len(s) : s[i] # e
  BY <1>2 DEF ToSet
<1>4. ASSUME NEW i \in 1..Len(s) + 1, NEW j \in 1..Len(s) + 1, u[i] = u[j] PROVE i = j
  <2>1. \A k \in 1..Len(s) + 1 : k = Len(s) + 1 \/ k \in 1..Len(s)
    BY <1>2
  <2>2. CASE i \in 1..Len(s) /\ j \in 1..Len(s)
    BY <1>1, <1>2, <1>4, <2>2 DEF IsInjective
  <2>3. CASE i = Len(s) + 1 /\ j \in 1..Len(s)
    BY <1>1, <1>3, <1>4, <2>3
  <2>4. CASE i \in 1..Len(s) /\ j = Len(s) + 1
    BY <1>1, <1>3, <1>4, <2>4
  <2> QED BY <2>1, <2>2, <2>3, <2>4
<1> QED BY <1>1, <1>2, <1>4 DEF IsInjective

LEMMA ActivateKeeps == ASSUME EwmhIInv, NEW t \in Desktop, Activate(t) PROVE EwmhIInv'
<1>1. EwmhTypeInv
  BY DEF EwmhIInv
<1> PICK x : x = Numbers
  OBVIOUS
<1> PICK y : y = Handlers
  OBVIOUS
<1>2. x \in AStep /\ x.do = "numbers" /\ WritesRoot(x, "number") /\ y \in AStep /\ y.do = "handlers"
  BY NumbersIs, StepsOf DEF Handlers
<1>3. /\ UNCHANGED <<list, focus, state, selected, tagged, root, netState, netDesktop>>
      /\ t \notin ToSet(desktops) /\ desktops' = Append(desktops, t)
      /\ Overlooks /\ Calls(<<x, y>>)
  BY DEF Activate
<1>4. Turns({}, {x, y})
  <2>1. <<x, y>> \in Seq(AStep) /\ ToSet(<<x, y>>) = {x, y}
    BY <1>2, TwoSteps
  <2>2. Turns({}, ToSet(<<x, y>>))
    BY <1>1, <1>3, <2>1, CallBegins
  <2> QED BY <2>1, <2>2
<1>5. EwmhTypeInv'
  <2>1. desktops' \in Seq(Desktop) /\ IsInjective(desktops')
    BY <1>1, <1>3, AppendNew DEF EwmhTypeInv
  <2> QED BY <1>1, <1>3, <1>4, <2>1 DEF EwmhTypeInv, Turns
<1>6. (\A s \in {x, y} : s.do \in {"emit", "numbers", "handlers"}) /\ \E s \in {x, y} : WritesRoot(s, "number")
  BY <1>2
<1> QED BY <1>3, <1>4, <1>5, <1>6, OverlooksKeeps

LEMMA DeactivateKeeps == ASSUME EwmhIInv, NEW t \in Desktop, Deactivate(t) PROVE EwmhIInv'
<1>1. EwmhTypeInv
  BY DEF EwmhIInv
<1> PICK x : x = Numbers
  OBVIOUS
<1> PICK y : y = Handlers
  OBVIOUS
<1> PICK first : first = IF t \in selected THEN <<Emits("property::selected", NoHint)>> ELSE <<>>
  OBVIOUS
<1>2. x \in AStep /\ x.do = "numbers" /\ WritesRoot(x, "number") /\ y \in AStep /\ y.do = "handlers"
  BY NumbersIs, StepsOf DEF Handlers
<1>3. /\ UNCHANGED <<list, focus, state, tagged, root, netState, netDesktop>>
      /\ desktops' = RemoveFirst(desktops, t) /\ selected' = selected \ {t}
      /\ Overlooks /\ Calls(first \o <<x, y>>)
  BY DEF Deactivate
<1>4. first \in Seq(AStep) /\ \A s \in ToSet(first) : s.do = "emit"
  <2> PICK z : z = Emits("property::selected", NoHint)
    OBVIOUS
  <2>1. z \in AStep /\ z.do = "emit"
    BY CurrentEmits
  <2>2. <<z>> \in Seq(AStep) /\ ToSet(<<z>>) = {z}
    BY <2>1, OneStep
  <2> QED BY <2>1, <2>2, NoStep
<1> PICK next : next = <<x, y>>
  OBVIOUS
<1> PICK u : u = first \o next
  OBVIOUS
<1>5. u \in Seq(AStep) /\ ToSet(u) = ToSet(first) \cup {x, y} /\ Calls(u)
  <2>1. next \in Seq(AStep) /\ ToSet(next) = {x, y}
    BY <1>2, TwoSteps
  <2>2. u \in Seq(AStep) /\ ToSet(u) = ToSet(first) \cup ToSet(next)
    BY <1>4, <2>1, ConcatSteps
  <2> QED BY <1>3, <2>1, <2>2
<1>6. Turns({}, ToSet(u))
  BY <1>1, <1>5, CallBegins
<1>7. EwmhTypeInv'
  <2>1. desktops' \in Seq(Desktop) /\ IsInjective(desktops')
    BY <1>1, <1>3, RemoveFirstProperties DEF EwmhTypeInv
  <2>2. selected' \subseteq Desktop
    BY <1>1, <1>3 DEF EwmhTypeInv
  <2> QED BY <1>1, <1>3, <1>6, <2>1, <2>2 DEF EwmhTypeInv, Turns
<1>8. (\A s \in ToSet(u) : s.do \in {"emit", "numbers", "handlers"}) /\ \E s \in ToSet(u) : WritesRoot(s, "number")
  BY <1>2, <1>4, <1>5
<1> QED BY <1>3, <1>6, <1>7, <1>8, OverlooksKeeps

\* The client that leaves is no longer listed, before its tags are.
LEMMA DoRemoveKeeps == ASSUME EwmhIInv, DoRemove PROVE EwmhIInv'
<1>1. EwmhTypeInv /\ FocusInv
  BY DEF EwmhIInv
<1>2. doing # <<>> /\ Top.todo # <<>> /\ Step.do = "remove" /\ Step \in RemoveStep /\ Step \in Pending
  BY <1>1, DoingIs, KindsOfSteps DEF DoRemove
<1> PICK c \in EwmhClient : c = Step.client
  BY <1>2 DEF RemoveStep
<1> PICK x : x = UntagFrom(c, 1)
  OBVIOUS
<1>3. x \in AStep /\ x.do = "untag" /\ x.client = c /\ WritesRoot(x, "list")
  BY StepsOf DEF UntagFrom, WritesRoot
<1>4. /\ UNCHANGED <<focus, state, desktops, selected, tagged, root, netState, netDesktop, untold>>
      /\ list' = RemoveFirst(list, c) /\ Continue(<<x>> \o Rest, FALSE)
  BY DEF DoRemove
<1>5. list' \in Seq(EwmhClient) /\ IsInjective(list') /\ ToSet(list') = ToSet(list) \ {c}
  <2>1. Range(list') = Range(list) \ {c} /\ list' \in Seq(EwmhClient) /\ IsInjective(list')
    BY <1>1, <1>4, RemoveFirstProperties DEF EwmhTypeInv
  <2> QED BY <2>1 DEF Range, ToSet
<1>6. Turns({Step}, {x})
  <2>1. <<x>> \in Seq(AStep) /\ ToSet(<<x>>) = {x}
    BY <1>3, OneStep
  <2>2. Turns({Step}, ToSet(<<x>>))
    BY <1>1, <1>2, <1>4, <2>1, StepBecomes
  <2> QED BY <2>1, <2>2
<1>7. EwmhTypeInv'
  BY <1>1, <1>4, <1>5, <1>6 DEF EwmhTypeInv, Turns
<1>8. FocusInv'
  <2>1. focus' # NoHint => Here(focus')
    BY <1>1, <1>4 DEF FocusInv
  <2>2. Leaving(c)
    BY <1>1, <1>2, LeavingIs
  <2>3. \A d \in ToSet(list) : d \in ToSet(list') \/ Leaving(d)
    BY <1>5, <2>2
  <2>4. /\ \A s \in {x} : s.do \in {"remove", "untag"} => Leaving(s.client)
        /\ \A s \in {x} : s.do = "focus" => Here(s.client)
    BY <1>3, <2>2
  <2> QED BY <1>1, <1>6, <1>7, <2>1, <2>3, <2>4, FocusStays
<1>9. \A p \in RootName : RootTold(p)'
  <2>1. CurrentDesktop' = CurrentDesktop
    BY <1>4, CurrentSame
  <2>2. \A p \in RootName \ {"list"} : RootHints'[p] = RootHints[p]
    BY <1>4, <2>1, RootHintsAre DEF RootName
  <2>3. \A p : ~WritesRoot(Step, p)
    BY <1>2, Silent
  <2>4. OthersStay({Step}, {x}, {"list"})
    BY <1>3, <1>4, <2>2, <2>3 DEF OthersStay
  <2> QED BY <1>6, <2>4, RootFollows
<1>10. ASSUME NEW d \in ToSet(list) PROVE StateTold(d)' /\ DesktopTold(d)'
  <2>1. StateTold(d)'
    <3>1. \A g \in {Step} : ~WritesState(g, d)
      BY <1>2, Silent
    <3>2. state'[d] = state[d] /\ netState'[d] = netState[d]
      BY <1>4
    <3>3. <<d, "state">> \in untold => <<d, "state">> \in untold'
      BY <1>4
    <3> QED BY <1>6, <3>1, <3>2, <3>3, StateFollows
  <2>2. DesktopOf(d)' = DesktopOf(d)
    BY <1>4, DesktopSame
  <2>3. DesktopTold(d)
    BY DEF EwmhIInv
  <2> QED BY <1>4, <2>1, <2>2, <2>3 DEF DesktopTold
<1> QED BY <1>5, <1>7, <1>8, <1>9, <1>10 DEF EwmhIInv

\* It loses its tags one by one; it is not the focused client.
LEMMA DoUntagKeeps == ASSUME EwmhIInv, DoUntag PROVE EwmhIInv'
<1>1. EwmhTypeInv /\ FocusInv
  BY DEF EwmhIInv
<1>2. doing # <<>> /\ Top.todo # <<>> /\ Step.do = "untag" /\ Step \in UntagStep /\ Step \in Pending
  BY <1>1, DoingIs, KindsOfSteps DEF DoUntag
<1> PICK c \in EwmhClient : c = Step.client
  BY <1>2 DEF UntagStep
<1> PICK i \in Nat \ {0} : i = Step.index
  BY <1>2 DEF UntagStep
<1>3. UNCHANGED <<list, focus, state, desktops, selected, root, netState, untold>>
  BY DEF DoUntag
<1>4. Leaving(c) /\ (focus # NoHint => focus # c)
  <2>1. Leaving(c)
    BY <1>1, <1>2, LeavingIs
  <2> QED BY <1>1, <2>1 DEF FocusInv, Here
<1>5. focus' # NoHint => Here(focus')
  BY <1>1, <1>3 DEF FocusInv
<1>6. (\A p : WritesRoot(Step, p) => p = "list") /\ \A d : ~WritesState(Step, d)
  BY <1>2 DEF WritesRoot, WritesState
<1>7. CASE i > Len(desktops)
  <2> PICK x : x = Emits("request::unmanage", c)
    OBVIOUS
  <2>1. x \in AStep /\ x.do = "emit" /\ WritesRoot(x, "list")
    <3>1. "request::unmanage" \in Signal /\ Connected("request::unmanage") = {"list"}
      BY ConnectedIs DEF Signal
    <3>2. x \in AStep
      BY <3>1, StepsOf
    <3> QED BY <3>1, <3>2 DEF Emits, WritesRoot
  <2>2. UNCHANGED <<tagged, netDesktop>> /\ Continue(<<x>> \o Rest, FALSE)
    BY <1>7 DEF DoUntag
  <2>3. Turns({Step}, {x})
    <3>1. <<x>> \in Seq(AStep) /\ ToSet(<<x>>) = {x}
      BY <2>1, OneStep
    <3>2. Turns({Step}, ToSet(<<x>>))
      BY <1>1, <1>2, <2>2, <3>1, StepBecomes
    <3> QED BY <3>1, <3>2
  <2>4. Quiet({Step}, {x})
    <3>1. focus' \in EwmhClient \cup {NoHint} /\ focus' = focus
      BY <1>1, <1>3 DEF EwmhTypeInv
    <3> QED BY <1>3, <1>5, <1>6, <2>1, <2>2, <3>1 DEF Quiet
  <2> QED BY <2>3, <2>4, QuietStep
<1>8. CASE ~(i > Len(desktops))
  <2> PICK x : x = UntagFrom(c, i + 1)
    OBVIOUS
  <2> PICK first : first = IF tagged' = tagged THEN <<>> ELSE <<Emits("untagged", c), Handlers>>
    OBVIOUS
  <2>1. x \in AStep /\ x.do = "untag" /\ x.client = c /\ WritesRoot(x, "list")
    <3>1. i + 1 \in Nat \ {0}
      OBVIOUS
    <3> QED BY <3>1, StepsOf DEF UntagFrom, WritesRoot
  <2>2. first \in Seq(AStep) /\ \A s \in ToSet(first) : s.do \in {"emit", "handlers"}
    <3> PICK y : y = Emits("untagged", c)
      OBVIOUS
    <3> PICK z : z = Handlers
      OBVIOUS
    <3>1. y \in AStep /\ y.do = "emit" /\ z \in AStep /\ z.do = "handlers"
      BY CurrentEmits, StepsOf DEF Handlers
    <3>2. <<y, z>> \in Seq(AStep) /\ ToSet(<<y, z>>) = {y, z}
      BY <3>1, TwoSteps
    <3> QED BY <3>1, <3>2, NoStep
  <2>3. /\ tagged' = [tagged EXCEPT ![c] = @ \ {desktops[i]}]
        /\ IF tagged' = tagged THEN netDesktop' = netDesktop ELSE DesktopUpdated(c)
        /\ Continue(first \o <<x>> \o Rest, FALSE)
    BY <1>8 DEF DoUntag
  <2> PICK next : next = <<x>>
    OBVIOUS
  <2> PICK u : u = first \o next
    OBVIOUS
  <2>4. u \in Seq(AStep) /\ ToSet(u) = ToSet(first) \cup {x}
    <3>1. next \in Seq(AStep) /\ ToSet(next) = {x}
      BY <2>1, OneStep
    <3>2. u \in Seq(AStep) /\ ToSet(u) = ToSet(first) \cup ToSet(next)
      BY <2>2, <3>1, ConcatSteps
    <3> QED BY <3>1, <3>2
  <2>5. Turns({Step}, ToSet(u))
    <3>1. Continue(u \o Rest, FALSE)
      BY <2>3
    <3> QED BY <1>1, <1>2, <2>4, <3>1, StepBecomes
  <2>6. tagged' \in [EwmhClient -> SUBSET Desktop] /\ \A d \in EwmhClient : d # c => tagged'[d] = tagged[d]
    BY <1>1, <2>3 DEF EwmhTypeInv
  <2>7. EwmhTypeInv'
    <3>1. DOMAIN netDesktop' = EwmhClient
      BY <1>1, <2>3 DEF EwmhTypeInv, DesktopUpdated
    <3> QED BY <1>1, <1>3, <2>5, <2>6, <3>1 DEF EwmhTypeInv, Turns
  <2>8. FocusInv'
    <3>1. /\ \A s \in ToSet(u) : s.do \in {"remove", "untag"} => Leaving(s.client)
          /\ \A s \in ToSet(u) : s.do = "focus" => Here(s.client)
      BY <1>4, <2>1, <2>2, <2>4
    <3> QED BY <1>1, <1>3, <1>5, <2>5, <2>7, <3>1, FocusStays
  <2>9. \A p \in RootName : RootTold(p)'
    <3>1. CurrentDesktop' = CurrentDesktop
      <4>1. focus # NoHint => tagged'[focus] = tagged[focus]
        BY <1>1, <1>4, <2>6 DEF EwmhTypeInv
      <4> QED BY <1>3, <4>1, CurrentSame
    <3>2. \A p \in RootName : RootHints'[p] = RootHints[p]
      BY <1>3, <3>1, RootHintsAre DEF RootName
    <3>3. OthersStay({Step}, ToSet(u), {})
      BY <1>3, <1>6, <2>1, <2>4, <3>2 DEF OthersStay
    <3> QED BY <2>5, <3>3, RootFollows
  <2>10. ASSUME NEW d \in ToSet(list) PROVE StateTold(d)' /\ DesktopTold(d)'
    <3>1. StateTold(d)'
      <4>1. \A g \in {Step} : ~WritesState(g, d)
        BY <1>6
      <4>2. state'[d] = state[d] /\ netState'[d] = netState[d]
        BY <1>3
      <4>3. <<d, "state">> \in untold => <<d, "state">> \in untold'
        BY <1>3
      <4> QED BY <2>5, <4>1, <4>2, <4>3, StateFollows
    <3>2. d \in EwmhClient /\ DesktopTold(d)
      BY <1>1, ListedIs DEF EwmhIInv
    <3>3. CASE d = c /\ tagged' # tagged
      BY <2>3, <3>1, <3>2, <3>3 DEF DesktopUpdated, DesktopTold
    <3>4. CASE d # c \/ tagged' = tagged
      <4>1. DesktopOf(d)' = DesktopOf(d)
        BY <1>3, <2>6, <3>2, <3>4, DesktopSame
      <4>2. netDesktop'[d] = netDesktop[d]
        BY <2>3, <3>2, <3>4 DEF DesktopUpdated
      <4> QED BY <1>3, <3>1, <3>2, <4>1, <4>2 DEF DesktopTold
    <3> QED BY <3>3, <3>4
  <2> QED BY <1>3, <2>7, <2>8, <2>9, <2>10 DEF EwmhIInv
<1> QED BY <1>7, <1>8

LEMMA UnmanageWindowKeeps == ASSUME EwmhIInv, NEW c \in EwmhClient, UnmanageWindow(c) PROVE EwmhIInv'
<1>1. EwmhTypeInv /\ FocusInv
  BY DEF EwmhIInv
<1> PICK first : first = IF focus = c THEN <<Emits("unfocus", c)>> ELSE <<>>
  OBVIOUS
<1> PICK x : x = Removal(c)
  OBVIOUS
<1>2. x \in AStep /\ x.do = "remove" /\ x.client = c
  BY StepsOf DEF Removal
<1>3. /\ first \in Seq(AStep) /\ \A s \in ToSet(first) : s.do = "emit"
      /\ focus = c => \A p \in {"active", "current"} : \E s \in ToSet(first) : WritesRoot(s, p)
  <2> PICK y : y = Emits("unfocus", c)
    OBVIOUS
  <2>1. y \in AStep /\ y.do = "emit" /\ WritesRoot(y, "active") /\ WritesRoot(y, "current")
    BY FocusEmits
  <2>2. <<y>> \in Seq(AStep) /\ ToSet(<<y>>) = {y}
    BY <2>1, OneStep
  <2> QED BY <2>1, <2>2, NoStep
<1>4. /\ UNCHANGED <<list, state, desktops, selected, tagged, root, netState, netDesktop, untold>>
      /\ focus' = (IF focus = c THEN NoHint ELSE focus) /\ doing = <<>>
      /\ Calls(first \o <<x>>)
  BY DEF UnmanageWindow
<1> PICK next : next = <<x>>
  OBVIOUS
<1> PICK u : u = first \o next
  OBVIOUS
<1>5. u \in Seq(AStep) /\ ToSet(u) = ToSet(first) \cup {x} /\ Calls(u)
  <2>1. next \in Seq(AStep) /\ ToSet(next) = {x}
    BY <1>2, OneStep
  <2>2. u \in Seq(AStep) /\ ToSet(u) = ToSet(first) \cup ToSet(next)
    BY <1>3, <2>1, ConcatSteps
  <2> QED BY <1>4, <2>1, <2>2
<1>6. Turns({}, ToSet(u)) /\ Pending = {}
  BY <1>1, <1>4, <1>5, CallBegins, NothingPending
<1>7. EwmhTypeInv'
  BY <1>1, <1>4, <1>6 DEF EwmhTypeInv, Turns
<1>8. FocusInv'
  <2>1. \A s \in Pending' : s.do = "emit" \/ (s.do = "remove" /\ s.client = c)
    BY <1>2, <1>3, <1>5, <1>6 DEF Turns
  <2>2. ASSUME focus' # NoHint PROVE Here(focus)'
    <3>1. focus' = focus /\ focus # c /\ focus \in ToSet(list')
      BY <1>1, <1>4, <2>2 DEF FocusInv, Here
    <3> PICK f : f = focus
      OBVIOUS
    <3>2. EwmhTypeInv' => (Leaving(f)' <=> \E s \in Pending' : s.do \in {"remove", "untag"} /\ s.client = f)
      BY LeavingPrimed
    <3>3. ~Leaving(f)'
      BY <1>7, <2>1, <3>1, <3>2
    <3>4. Here(f)'
      BY <3>1, <3>3 DEF Here
    <3> QED BY <3>1, <3>4 DEF Here, Leaving
  <2> QED BY <2>1, <2>2 DEF FocusInv
<1>9. \A p \in RootName : RootTold(p)'
  <2>1. CASE focus = c
    <3>1. \A p \in RootName \ {"active", "current"} : RootHints'[p] = RootHints[p]
      BY <1>4, RootHintsAre DEF RootName
    <3>2. \A p \in {"active", "current"} : \E s \in ToSet(u) : WritesRoot(s, p)
      BY <1>3, <1>5, <2>1
    <3>3. OthersStay({}, ToSet(u), {"active", "current"})
      BY <1>4, <3>1, <3>2 DEF OthersStay
    <3> QED BY <1>6, <3>3, RootFollows
  <2>2. CASE focus # c
    <3>1. focus' = focus
      BY <1>4, <2>2
    <3>2. CurrentDesktop' = CurrentDesktop
      BY <1>4, <3>1, CurrentSame
    <3>3. \A p \in RootName : RootHints'[p] = RootHints[p]
      BY <1>4, <3>1, <3>2, RootHintsAre DEF RootName
    <3>4. OthersStay({}, ToSet(u), {})
      BY <1>4, <3>3 DEF OthersStay
    <3> QED BY <1>6, <3>4, RootFollows
  <2> QED BY <2>1, <2>2
<1>10. ASSUME NEW d \in ToSet(list) PROVE StateTold(d)' /\ DesktopTold(d)'
  <2>1. StateTold(d)'
    <3>1. state'[d] = state[d] /\ netState'[d] = netState[d]
      BY <1>4
    <3>2. <<d, "state">> \in untold => <<d, "state">> \in untold'
      BY <1>4
    <3> QED BY <1>6, <3>1, <3>2, StateFollows
  <2>2. DesktopOf(d)' = DesktopOf(d)
    BY <1>4, DesktopSame
  <2>3. DesktopTold(d)
    BY DEF EwmhIInv
  <2> QED BY <1>4, <2>1, <2>2, <2>3 DEF DesktopTold
<1> QED BY <1>4, <1>7, <1>8, <1>9, <1>10 DEF EwmhIInv

\* The states that a new client has asked for, as steps.
LEMMA AskedSteps ==
    ASSUME NEW c \in EwmhClient, NEW n \in Nat, NEW asked \in [1..n -> StateFlag]
    PROVE  /\ [i \in DOMAIN asked |-> Asked(c, asked[i], "add")] \in Seq(AStep)
           /\ \A s \in ToSet([i \in DOMAIN asked |-> Asked(c, asked[i], "add")]) : s.do = "asked"
<1> PICK s : s = [i \in DOMAIN asked |-> Asked(c, asked[i], "add")]
  OBVIOUS
<1>1. DOMAIN asked = 1..n
  OBVIOUS
<1>2. ASSUME NEW i \in 1..n PROVE s[i] \in AStep /\ s[i].do = "asked"
  <2>1. asked[i] \in StateFlag /\ s[i] = Asked(c, asked[i], "add")
    BY <1>1
  <2>2. Asked(c, asked[i], "add") \in AStep
    BY <2>1, StepsOf
  <2> QED BY <2>1, <2>2 DEF Asked
<1>3. s \in [1..n -> AStep]
  BY <1>1, <1>2
<1>4. s \in Seq(AStep)
  <2>1. [1..n -> AStep] \subseteq Seq(AStep)
    BY SeqDef
  <2> QED BY <1>3, <2>1
<1> QED BY <1>1, <1>2, <1>4 DEF ToSet

\* What is to be done for a new client.
ManageTodo(c, asked, m) ==
    <<Handlers>> \o [i \in DOMAIN asked |-> Asked(c, asked[i], "add")]
    \o (IF m \in Maximized THEN <<Set(c, m, TRUE)>> ELSE <<>>)
    \o <<Emits("request::manage", c)>>

LEMMA ManageSteps ==
    ASSUME NEW c \in EwmhClient, NEW n \in Nat, NEW asked \in [1..n -> StateFlag], NEW m
    PROVE  /\ ManageTodo(c, asked, m) \in Seq(AStep)
           /\ \A s \in ToSet(ManageTodo(c, asked, m)) : s.do \in {"handlers", "asked", "set", "emit"}
           /\ \E s \in ToSet(ManageTodo(c, asked, m)) : WritesRoot(s, "list")
<1> PICK t : t = ManageTodo(c, asked, m)
  OBVIOUS
<1> PICK h : h = Handlers
  OBVIOUS
<1> PICK x : x = Emits("request::manage", c)
  OBVIOUS
<1> PICK asks : asks = [i \in DOMAIN asked |-> Asked(c, asked[i], "add")]
  OBVIOUS
<1> PICK sets : sets = IF m \in Maximized THEN <<Set(c, m, TRUE)>> ELSE <<>>
  OBVIOUS
<1> PICK hs : hs = <<h>>
  OBVIOUS
<1> PICK xs : xs = <<x>>
  OBVIOUS
<1>1. h \in AStep /\ h.do = "handlers"
  BY StepsOf DEF Handlers
<1>2. x \in AStep /\ x.do = "emit" /\ WritesRoot(x, "list")
  <2>1. "request::manage" \in Signal /\ Connected("request::manage") = {"list"}
    BY ConnectedIs DEF Signal
  <2>2. x \in AStep
    BY <2>1, StepsOf
  <2> QED BY <2>1, <2>2 DEF Emits, WritesRoot
<1>3. asks \in Seq(AStep) /\ \A s \in ToSet(asks) : s.do = "asked"
  BY AskedSteps
<1>4. sets \in Seq(AStep) /\ \A s \in ToSet(sets) : s.do = "set"
  <2>1. CASE m \in Maximized
    <3> PICK y : y = Set(c, m, TRUE)
      OBVIOUS
    <3>1. m \in StateFlag
      BY <2>1 DEF StateFlag
    <3>2. y \in AStep /\ y.do = "set"
      BY <3>1, StepsOf DEF Set
    <3>3. <<y>> \in Seq(AStep) /\ ToSet(<<y>>) = {y} /\ sets = <<y>>
      BY <2>1, <3>2, OneStep
    <3> QED BY <3>2, <3>3
  <2>2. CASE m \notin Maximized
    BY <2>2, NoStep
  <2> QED BY <2>1, <2>2
<1>5. hs \in Seq(AStep) /\ ToSet(hs) = {h} /\ xs \in Seq(AStep) /\ ToSet(xs) = {x}
  BY <1>1, <1>2, OneStep
<1>6. PICK a : a = hs \o asks
  OBVIOUS
<1>7. a \in Seq(AStep) /\ ToSet(a) = ToSet(hs) \cup ToSet(asks)
  BY ONLY <1>3, <1>5, <1>6, ConcatSteps
<1>8. PICK b : b = a \o sets
  OBVIOUS
<1>9. b \in Seq(AStep) /\ ToSet(b) = ToSet(a) \cup ToSet(sets)
  BY ONLY <1>4, <1>7, <1>8, ConcatSteps
<1>10. PICK z : z = b \o xs
  OBVIOUS
<1>11. z \in Seq(AStep) /\ ToSet(z) = ToSet(b) \cup ToSet(xs)
  BY ONLY <1>5, <1>9, <1>10, ConcatSteps
<1>12. t = z
  BY <1>6, <1>8, <1>10 DEF ManageTodo
<1>13. t \in Seq(AStep) /\ ToSet(t) = {h} \cup ToSet(asks) \cup ToSet(sets) \cup {x}
  BY ONLY <1>5, <1>7, <1>9, <1>11, <1>12
<1> QED BY <1>1, <1>2, <1>3, <1>4, <1>13

LEMMA ManageWindowKeeps ==
    ASSUME EwmhIInv, NEW c \in EwmhClient, NEW n \in Nat, NEW asked \in [1..n -> (Settable \cap Atom) \ Maximized],
           NEW m \in Maximized \cup {NoHint}, ManageWindow(c, asked, m)
    PROVE  EwmhIInv'
<1>1. EwmhTypeInv /\ FocusInv
  BY DEF EwmhIInv
<1> PICK t : t = ManageTodo(c, asked, m)
  OBVIOUS
<1> PICK hints : hints = ToSet(asked) \cup (IF m = "maximized" THEN {"maximized_horizontal", "maximized_vertical"}
                                            ELSE {m} \cap Maximized)
  OBVIOUS
<1>2. /\ c \notin ToSet(list) /\ doing = <<>> /\ list' = <<c>> \o list
      /\ state' = [state EXCEPT ![c] = {}] /\ tagged' = [tagged EXCEPT ![c] = {}]
      /\ netState' = [netState EXCEPT ![c] = hints] /\ netDesktop' = [netDesktop EXCEPT ![c] = NoHint]
      /\ untold' = untold \cup {<<c, "state">>, <<c, "desktop">>}
      /\ Calls(t) /\ UNCHANGED <<focus, desktops, selected, root>>
  BY DEF ManageWindow, ManageTodo
<1>3. asked \in [1..n -> StateFlag] /\ ToSet(asked) \subseteq Atom
  BY DEF Atom, ToSet
<1>4. /\ t \in Seq(AStep) /\ \A s \in ToSet(t) : s.do \in {"handlers", "asked", "set", "emit"}
      /\ \E s \in ToSet(t) : WritesRoot(s, "list")
  BY <1>3, ManageSteps
<1>5. Turns({}, ToSet(t))
  BY <1>1, <1>2, <1>4, CallBegins
<1>6. list' \in Seq(EwmhClient) /\ IsInjective(list') /\ ToSet(list') = ToSet(list) \cup {c}
  <2>1. c \in EwmhClient \ Range(list)
    BY <1>2 DEF Range, ToSet
  <2>2. list' \in Seq(EwmhClient) /\ IsInjective(list') /\ Range(list') = Range(list) \cup {c}
    BY <1>1, <1>2, <2>1, PrependProperties DEF EwmhTypeInv
  <2> QED BY <2>2 DEF Range, ToSet
<1>7. hints \subseteq Atom
  <2>1. {"maximized_horizontal", "maximized_vertical"} \subseteq Atom /\ Maximized \ {"maximized"} \subseteq Atom
    BY DEF Atom, StateFlag, Maximized
  <2> QED BY <1>3, <2>1
<1>8. /\ state' \in [EwmhClient -> SUBSET StateFlag] /\ netState' \in [EwmhClient -> SUBSET Atom]
      /\ tagged' \in [EwmhClient -> SUBSET Desktop] /\ DOMAIN netDesktop' = EwmhClient
  BY <1>1, <1>2, <1>7 DEF EwmhTypeInv
<1>9. EwmhTypeInv'
  BY <1>1, <1>2, <1>5, <1>6, <1>8 DEF EwmhTypeInv, Turns
<1>10. FocusInv'
  <2>1. focus' # NoHint => Here(focus')
    BY <1>1, <1>2 DEF FocusInv
  <2>2. /\ \A s \in ToSet(t) : s.do \in {"remove", "untag"} => Leaving(s.client)
        /\ \A s \in ToSet(t) : s.do = "focus" => Here(s.client)
    BY <1>4
  <2>3. \A d \in ToSet(list) : d \in ToSet(list') \/ Leaving(d)
    BY <1>6
  <2> QED BY <1>1, <1>5, <1>9, <2>1, <2>2, <2>3, FocusStays
<1>11. \A p \in RootName : RootTold(p)'
  <2>1. CurrentDesktop' = CurrentDesktop
    <3>1. focus # NoHint => focus # c
      BY <1>1, <1>2 DEF FocusInv, Here
    <3>2. focus # NoHint => tagged'[focus] = tagged[focus]
      BY <1>1, <1>2, <3>1 DEF EwmhTypeInv
    <3> QED BY <1>2, <3>2, CurrentSame
  <2>2. \A p \in RootName \ {"list"} : RootHints'[p] = RootHints[p]
    BY <1>2, <2>1, RootHintsAre DEF RootName
  <2>3. OthersStay({}, ToSet(t), {"list"})
    BY <1>2, <1>4, <2>2 DEF OthersStay
  <2> QED BY <1>5, <2>3, RootFollows
<1>12. ASSUME NEW d \in ToSet(list') PROVE StateTold(d)' /\ DesktopTold(d)'
  <2>1. CASE d = c
    BY <1>2, <2>1 DEF StateTold, DesktopTold
  <2>2. CASE d # c
    <3>1. d \in ToSet(list) /\ d \in EwmhClient
      BY <1>1, <1>6, <2>2, ListedIs
    <3>2. state'[d] = state[d] /\ netState'[d] = netState[d] /\ tagged'[d] = tagged[d]
          /\ netDesktop'[d] = netDesktop[d]
      BY <1>1, <1>2, <2>2, <3>1 DEF EwmhTypeInv
    <3>3. StateTold(d)'
      <4>1. <<d, "state">> \in untold => <<d, "state">> \in untold'
        BY <1>2
      <4> QED BY <1>5, <3>1, <3>2, <4>1, StateFollows
    <3>4. DesktopOf(d)' = DesktopOf(d)
      BY <1>2, <3>2, DesktopSame
    <3>5. DesktopTold(d)
      BY <3>1 DEF EwmhIInv
    <3>6. <<d, "desktop">> \in untold => <<d, "desktop">> \in untold'
      BY <1>2
    <3> QED BY <3>2, <3>3, <3>4, <3>5, <3>6 DEF DesktopTold
  <2> QED BY <2>1, <2>2
<1> QED BY <1>9, <1>10, <1>11, <1>12 DEF EwmhIInv

LEMMA SetToSeqIsInjective ==
    ASSUME NEW S, IsFiniteSet(S) PROVE SetToSeq(S) \in Seq(S) /\ IsInjective(SetToSeq(S))
<1> DEFINE n == Cardinality(S)
           q == SetToSeq(S)
<1>1. n \in Nat /\ ExistsBijection(1..n, S)
  BY FS_CardinalityType
<1>2. \E f \in [1..n -> S] : IsInjective(f)
  BY <1>1 DEF ExistsBijection, Bijection, Injection
<1>3. q \in [1..n -> S] /\ IsInjective(q)
  BY <1>2 DEF SetToSeq
<1> HIDE DEF q
<1>4. q \in Seq(S)
  BY <1>1, <1>3, SeqDef
<1> QED BY <1>3, <1>4 DEF q

LEMMA EwmhInitInv == ASSUME EwmhAssumption, EwmhInit PROVE EwmhIInv
<1> USE DEF EwmhInit
<1>1. desktops \in Seq(Desktop) /\ IsInjective(desktops)
  <2>1. <<>> \in Seq(Desktop) /\ IsInjective(<<>>)
    BY EmptySeq DEF IsInjective
  <2> QED BY <2>1, SetToSeqIsInjective DEF EwmhAssumption
<1>2. Pending = {}
  BY NothingPending
<1>3. EwmhTypeInv
  <2>1. list \in Seq(EwmhClient) /\ doing \in Seq(AFunction) /\ Len(doing) = 0
    BY EmptySeq
  <2>2. IsInjective(list)
    BY DEF IsInjective
  <2>3. DOMAIN root = RootName
    BY DEF RootName
  <2> QED BY <1>1, <2>1, <2>2, <2>3 DEF EwmhTypeInv, EwmhAssumption
<1>4. FocusInv
  BY <1>2 DEF FocusInv
<1>5. ASSUME NEW p \in RootName PROVE RootTold(p)
  <2>1. CurrentDesktop = 0
    BY DEF CurrentDesktop, FirstIndex
  <2>2. root[p] = RootHints[p]
    BY <2>1, RootHintsAre DEF RootName
  <2> QED BY <2>2 DEF RootTold
<1>6. ToSet(list) = {}
  BY EmptySeq DEF ToSet
<1> QED BY <1>3, <1>4, <1>5, <1>6 DEF EwmhIInv

LEMMA EwmhStay == ASSUME EwmhIInv, UNCHANGED ewmhVars PROVE EwmhIInv'
<1>1. EwmhTypeInv /\ FocusInv
  BY DEF EwmhIInv
<1>2. UNCHANGED <<list, focus, state, desktops, selected, tagged, root, netState, netDesktop, doing, untold>>
  BY DEF ewmhVars
<1>3. Turns({}, {})
  BY <1>1, <1>2 DEF Turns, EwmhTypeInv, Pending, PendingIn
<1>4. Quiet({}, {})
  BY <1>1, <1>2, SilentIsQuiet
<1> QED BY <1>3, <1>4, QuietStep

LEMMA EwmhNextInv == ASSUME EwmhIInv, [EwmhNext]_ewmhVars PROVE EwmhIInv'
<1>1. CASE DoEmit \/ DoRefresh \/ DoHandlers \/ HandlersReturn
  BY <1>1, DoEmitKeeps, DoRefreshKeeps, DoHandlersKeeps, HandlersReturnKeeps
<1>2. CASE DoSet \/ DoAssign \/ DoSetMaximized \/ DoEmitIf \/ DoAsked
  BY <1>2, DoSetKeeps, DoAssignKeeps, DoSetMaximizedKeeps, DoEmitIfKeeps, DoAskedKeeps
<1>3. CASE DoFocus \/ DoNumbers \/ DoRemove \/ DoUntag \/ Unfocus \/ RequestMessage
  BY <1>3, DoFocusKeeps, DoNumbersKeeps, DoRemoveKeeps, DoUntagKeeps, UnfocusKeeps, RequestMessageKeeps
<1>4. ASSUME NEW t \in Desktop, TagView(t) \/ Activate(t) \/ Deactivate(t) PROVE EwmhIInv'
  BY <1>4, TagViewKeeps, ActivateKeeps, DeactivateKeeps
<1>5. ASSUME NEW c \in EwmhClient, Focus(c) \/ UnmanageWindow(c) PROVE EwmhIInv'
  BY <1>5, FocusKeeps, UnmanageWindowKeeps
<1>6. ASSUME NEW c \in EwmhClient, NEW t \in Desktop, TagClient(c, t) PROVE EwmhIInv'
  BY <1>6, TagClientKeeps
<1>7. ASSUME NEW c \in EwmhClient, NEW f \in Settable, NEW v \in BOOLEAN, SetFlag(c, f, v) PROVE EwmhIInv'
  BY <1>7, SetFlagKeeps
<1>8. ASSUME NEW c \in EwmhClient, NEW a \in Settable \cap Atom, NEW b \in Settable \cap Atom,
             NEW action \in {"add", "remove", "toggle"}, StateMessage(c, a, b, action)
      PROVE  EwmhIInv'
  BY <1>8, StateMessageKeeps
<1>9. ASSUME NEW c \in EwmhClient, NEW n \in 0..MaxAsked, NEW m \in (Settable \cap Maximized) \cup {NoHint},
             NEW asked \in [1..n -> (Settable \cap Atom) \ Maximized], ManageWindow(c, asked, m)
      PROVE  EwmhIInv'
  <2>1. n \in Nat /\ m \in Maximized \cup {NoHint}
    OBVIOUS
  <2> QED BY <1>9, <2>1, ManageWindowKeeps
<1>10. CASE UNCHANGED ewmhVars
  BY <1>10, EwmhStay
<1> QED BY <1>1, <1>2, <1>3, <1>4, <1>5, <1>6, <1>7, <1>8, <1>9, <1>10 DEF EwmhNext

LEMMA EwmhIInvImplies == ASSUME EwmhIInv PROVE EwmhInv
<1>1. EwmhTypeInv
  BY DEF EwmhIInv
<1>2. EwmhTypeOK
  <2>1. ToSet(list) \subseteq EwmhClient
    BY <1>1, ListedIs
  <2>2. ToSet(desktops) \subseteq Desktop
    BY <1>1, LenProperties, ElementOfSeq DEF EwmhTypeInv, ToSet
  <2> QED BY <1>1, <2>1, <2>2 DEF EwmhTypeInv, EwmhTypeOK
<1>3. HintsAreCurrent
  <2>1. SUFFICES ASSUME doing = <<>>
                 PROVE  /\ \A p \in DOMAIN root : <<"root", p>> \notin untold => root[p] = RootHints[p]
                        /\ \A c \in ToSet(list) :
                              /\ <<c, "state">> \notin untold => netState[c] = StateAtoms(c)
                              /\ <<c, "desktop">> \notin untold => netDesktop[c] = DesktopOf(c)
    BY DEF HintsAreCurrent
  <2>2. Pending = {}
    BY <2>1, NothingPending
  <2>3. \A p \in RootName : RootTold(p) /\ DOMAIN root = RootName
    BY <1>1 DEF EwmhIInv, EwmhTypeInv
  <2>4. \A c \in ToSet(list) : StateTold(c) /\ DesktopTold(c)
    BY DEF EwmhIInv
  <2> QED BY <1>1, <2>2, <2>3, <2>4 DEF RootTold, StateTold, DesktopTold, EwmhTypeInv
<1> QED BY <1>2, <1>3 DEF EwmhInv

\* What pagers and applications read is what is the case whenever awesome is done with a call,
\* whatever the handlers of its signals have done, except for what ewmh.c is never asked to write.
THEOREM HintsStayCurrent == EwmhSpec => []EwmhInv
<1>1. EwmhInit => EwmhIInv
  BY EwmhInitInv, EwmhAssumption
<1>2. EwmhIInv /\ [EwmhNext]_ewmhVars => EwmhIInv'
  BY EwmhNextInv
<1>3. EwmhIInv => EwmhInv
  BY EwmhIInvImplies
<1> QED BY <1>1, <1>2, <1>3, PTL DEF EwmhSpec
=============================================================================
